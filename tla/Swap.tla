-------------------------------- MODULE Swap --------------------------------
(***************************************************************************)
(* A swap between two nodes of this program.  The maker's user types       *)
(* `makerinit' and `makerexecute' (src/src/cli.rs), the taker's user       *)
(* `taker'; the maker sends itself a payment through the taker, and the    *)
(* taker's HTLCIntercepted handler (src/src/main.rs) forwards it only when *)
(* it matches a whitelisted trade.  Both trade tables live in memory.      *)
(*                                                                         *)
(* pay[h] is the life of the maker's payment with hash h in the two        *)
(* channel managers:                                                       *)
(*   none       no payment with this PaymentId                             *)
(*   leg1       held by the taker, HTLCIntercepted pending                 *)
(*   queued     forward_intercepted_htlc called, not yet sent on           *)
(*   leg2       held by the maker, PaymentClaimable pending                *)
(*   claimed    the maker claimed the second leg                           *)
(*   fulfilled  the taker claimed the first leg, PaymentSent pending       *)
(*   remembered PaymentSent handled, the PaymentId is not yet free again   *)
(*   failed     failed back, PaymentFailed pending                         *)
(* The channel manager itself is not part of src/src; its steps are the    *)
(* actions marked external.  What list_payments shows is module Payments.  *)
(***************************************************************************)
EXTENDS SwapTerms

CONSTANTS
    NoDeal, NoHtlc,
    SwapStrings,     \* the swap strings users can type
    Timeouts,        \* expiry_secs values of makerinit
    Fees,            \* what hops after the taker may keep, in msat
    MakerRgb,        \* the most the maker owns on chain; None: unknown contract
    TakerRgb,        \* the taker's on-chain balances at first
    TakerBalances,   \* what they may become later, for each asset
    EditedStrings,   \* may users type strings makerinit did not print?
    Faults,          \* what may go wrong: "restart", "close", "timeout"
    MaxTime,         \* bound of the clock
    MaxAccepts       \* bound of `taker' commands per hash

ASSUME SwapAssumption ==
    /\ NoDeal \notin Deal
    /\ NoHtlc \notin Htlc
    /\ SwapStrings \subseteq SwapString
    /\ Timeouts \subseteq Nat \ {0}
    /\ Fees \subseteq Nat
    /\ MakerRgb \in [Assets -> OptAmount]
    /\ TakerRgb \in [Assets -> OptAmount]
    /\ TakerBalances \in [Assets -> SUBSET Amount]
    /\ EditedStrings \in BOOLEAN
    /\ Faults \subseteq {"restart", "close", "timeout"}
    /\ MaxTime \in Nat
    /\ MaxAccepts \in Nat

VARIABLES
    now,                  \* get_current_timestamp, seconds
    printed,              \* swap strings makerinit printed
    maker_trades,         \* maker: HashMap<PaymentHash, (ContractId, SwapType)>
    whitelisted_trades,   \* taker: the same type
    payment_info,         \* maker: the RGB payment info file of each hash
    taker_rgb,            \* what get_rgb_total_amount returns at the taker
    pay,                  \* the maker's payment with each hash, see above
    htlc,                 \* its HTLC pair as the taker sees it
    claimed_event,        \* is PaymentClaimed pending at the maker?
    stale_event,          \* is HTLCIntercepted pending for a timed out HTLC?
    chan,                 \* the taker's channels: usable, closing or closed
    retyped,              \* history: hashes whose payment in flight was
                          \* executed again, with other terms
    fell,                 \* history: hashes `taker' did not accept again since
                          \* a balance fell
    bound,                \* history: the deal a forward was checked against
    accepts,              \* history: how often `taker' accepted h
    forwards,             \* history: how often the taker forwarded h
    msat, rgb             \* history: what the taker gained from swaps of h

vars == <<now, printed, maker_trades, whitelisted_trades, payment_info,
          taker_rgb, pay, htlc, claimed_event, stale_event, chan, retyped,
          fell, bound, accepts, forwards, msat, rgb>>

makerVars == <<printed, maker_trades, payment_info, claimed_event, retyped>>
takerVars == <<whitelisted_trades, stale_event, bound, accepts, forwards,
               taker_rgb, fell>>
ledger == <<msat, rgb>>

PayState == {"none", "leg1", "queued", "leg2", "claimed", "fulfilled",
             "remembered", "failed"}

ChanState == {"usable", "closing", "closed"}

TypeOK ==
    /\ now \in 0 .. MaxTime
    /\ printed \subseteq SwapStrings
    /\ maker_trades \in [Hashes -> Deal \cup {NoDeal}]
    /\ whitelisted_trades \in [Hashes -> Deal \cup {NoDeal}]
    /\ payment_info \in [Hashes -> Deal \cup {NoDeal}]
    /\ taker_rgb \in [Assets -> OptAmount]
    /\ retyped \subseteq Hashes
    /\ fell \subseteq Hashes
    /\ pay \in [Hashes -> PayState]
    /\ htlc \in [Hashes -> Htlc \cup {NoHtlc}]
    /\ claimed_event \in [Hashes -> BOOLEAN]
    /\ stale_event \in [Hashes -> BOOLEAN]
    /\ chan \in [Channels -> ChanState]
    /\ bound \in [Hashes -> Deal \cup {NoDeal}]
    /\ accepts \in [Hashes -> 0 .. MaxAccepts]
    /\ forwards \in [Hashes -> Nat]
    /\ msat \in [Hashes -> Int]
    /\ rgb \in [Hashes -> [Assets -> Int]]

Init ==
    /\ now = 0
    /\ printed = {}
    /\ maker_trades = [h \in Hashes |-> NoDeal]
    /\ whitelisted_trades = [h \in Hashes |-> NoDeal]
    /\ payment_info = [h \in Hashes |-> NoDeal]
    /\ taker_rgb = TakerRgb
    /\ retyped = {}
    /\ fell = {}
    /\ pay = [h \in Hashes |-> "none"]
    /\ htlc = [h \in Hashes |-> NoHtlc]
    /\ claimed_event = [h \in Hashes |-> FALSE]
    /\ stale_event = [h \in Hashes |-> FALSE]
    /\ chan = [c \in Channels |-> "usable"]
    /\ bound = [h \in Hashes |-> NoDeal]
    /\ accepts = [h \in Hashes |-> 0]
    /\ forwards = [h \in Hashes |-> 0]
    /\ msat = [h \in Hashes |-> 0]
    /\ rgb = [h \in Hashes |-> [a \in Assets |-> 0]]

Tick ==
    /\ now < MaxTime
    /\ now' = now + 1
    /\ UNCHANGED <<makerVars, takerVars, ledger, pay, htlc, chan>>

-----------------------------------------------------------------------------
(* The maker's and the taker's commands. *)

(* A user types a string makerinit printed or, with EditedStrings, any     *)
(* string with a hash the maker created: the preimage and the secret only  *)
(* depend on the hash.                                                     *)
Typable(s) ==
    IF EditedStrings THEN \E p \in printed : p.hash = s.hash
                     ELSE s \in printed

makerinit(s) ==
    /\ IsValid(s)
    /\ \A p \in printed : p.hash # s.hash      \* create_inbound_payment
    /\ \E timeout \in Timeouts : s.expiry = now + timeout
    /\ s.side = "buy" => s.amount <= MakerRgb[s.asset]
    /\ maker_trades' = [maker_trades EXCEPT ![s.hash] = FromStr(s)]
    /\ printed' = printed \cup {s}
    /\ UNCHANGED <<now, payment_info, pay, htlc, claimed_event, retyped, chan,
                   takerVars, ledger>>

(* Mutant: the balance check asks the side that is not giving assets. *)
takerChecksBuyer(s) ==
    /\ Typable(s) /\ IsValid(s)
    /\ now <= s.expiry
    /\ s.side = "buy" => s.amount <= taker_rgb[s.asset]
    /\ accepts[s.hash] < MaxAccepts
    /\ whitelisted_trades' = [whitelisted_trades EXCEPT ![s.hash] = FromStr(s)]
    /\ accepts' = [accepts EXCEPT ![s.hash] = @ + 1]
    /\ fell' = fell \ {s.hash}
    /\ UNCHANGED <<now, makerVars, pay, htlc, stale_event, chan, bound,
                   forwards, taker_rgb, ledger>>

taker(s) ==
    /\ Typable(s) /\ IsValid(s)
    /\ now <= s.expiry
    /\ s.side = "sell" => s.amount <= taker_rgb[s.asset]
    /\ accepts[s.hash] < MaxAccepts
    /\ whitelisted_trades' = [whitelisted_trades EXCEPT ![s.hash] = FromStr(s)]
    /\ accepts' = [accepts EXCEPT ![s.hash] = @ + 1]
    /\ fell' = fell \ {s.hash}
    /\ UNCHANGED <<now, makerVars, pay, htlc, stale_event, chan, bound,
                   forwards, taker_rgb, ledger>>

(* Whatever else moves the taker's assets on chain: sendasset, the funding *)
(* of a channel, a receipt.  It asks nobody about whitelisted_trades.      *)
BalanceChanges(a, n) ==
    /\ n # taker_rgb[a]
    /\ taker_rgb' = [taker_rgb EXCEPT ![a] = n]
    /\ fell' = IF n < taker_rgb[a] THEN Hashes ELSE fell
    /\ UNCHANGED <<now, makerVars, pay, htlc, chan, whitelisted_trades,
                   stale_event, bound, accepts, forwards, ledger>>

(***************************************************************************)
(* maker_execute: the payment info file is written before the payment is   *)
(* sent, and stays written when the channel manager refuses it: always     *)
(* when the PaymentId is still in use, and possibly for want of a usable   *)
(* channel.                                                                *)
(***************************************************************************)
(* Mutant: the file is written for the side the taker's string names. *)
WritesPaymentInfoOfTaker(t, d, h) ==
    payment_info' = IF is_buy(t) THEN [payment_info EXCEPT ![h] = d]
                                 ELSE payment_info

WritesPaymentInfo(t, d, h) ==
    payment_info' = IF is_buy(t) THEN payment_info
                                 ELSE [payment_info EXCEPT ![h] = d]

(* The asset and the amount of a deal are the ones a payment brings in. *)
Describes(d, x) ==
    /\ d.asset = ContractOf[x.inbound_chan]
    /\ d.type.amount_rgb = x.inbound_rgb

makerexecute(s) ==
    LET d == FromStr(s)
        t == opposite(d.type)
        h == s.hash
    IN /\ Typable(s) /\ IsValid(s)
       /\ now <= s.expiry
       /\ \E ic \in RouteChannels(FirstLegAsset(t, d.asset)),
            oc \in RouteChannels(SecondLegAsset(t, d.asset)),
            fee \in Fees :
            /\ chan[ic] = "usable" /\ chan[oc] = "usable"   \* both legs found
            /\ \/ /\ pay[h] = "none"                        \* Ok
                  /\ pay' = [pay EXCEPT ![h] = "leg1"]
                  /\ htlc' = [htlc EXCEPT ![h] = SwapHtlc(t, ic, oc, fee)]
               \/ UNCHANGED <<pay, htlc>>                    \* Err
       /\ WritesPaymentInfo(t, d, h)
       /\ retyped' = IF pay[h] # "none" /\ ~Describes(d, htlc[h])
                     THEN retyped \cup {h} ELSE retyped
       /\ UNCHANGED <<now, printed, maker_trades, claimed_event, chan,
                      takerVars, ledger>>

-----------------------------------------------------------------------------
(* The taker's HTLCIntercepted handler. *)

(* Both list_channels lookups find their channel. *)
ChannelsFound(h) ==
    /\ chan[htlc[h].inbound_chan] # "closed"
    /\ chan[htlc[h].outbound_chan] # "closed"

Whitelisted(h) ==
    /\ whitelisted_trades[h] # NoDeal
    /\ MatchesWhitelist(whitelisted_trades[h], htlc[h])

(* No whitelisted trade, or another one: fail_intercepted_htlc. *)
RejectSwap(h) ==
    /\ pay[h] = "leg1" /\ ~stale_event[h]
    /\ ChannelsFound(h)
    /\ ~Whitelisted(h)
    /\ pay' = [pay EXCEPT ![h] = "failed"]
    /\ UNCHANGED <<now, makerVars, takerVars, ledger, htlc, chan>>

(* Mutant: the trade stays whitelisted after it was used. *)
ForwardKeepsTrade(h) ==
    /\ pay[h] = "leg1" /\ ~stale_event[h]
    /\ ChannelsFound(h)
    /\ Whitelisted(h)
    /\ chan[htlc[h].outbound_chan] = "usable"
    /\ bound' = [bound EXCEPT ![h] = whitelisted_trades[h]]
    /\ forwards' = [forwards EXCEPT ![h] = @ + 1]
    /\ pay' = [pay EXCEPT ![h] = "queued"]
    /\ UNCHANGED <<now, makerVars, whitelisted_trades, stale_event, accepts,
                   taker_rgb, fell, ledger, htlc, chan>>

(* The trade is removed and the HTLC forwarded. *)
ForwardSwap(h) ==
    /\ pay[h] = "leg1" /\ ~stale_event[h]
    /\ ChannelsFound(h)
    /\ Whitelisted(h)
    /\ chan[htlc[h].outbound_chan] = "usable"
    /\ whitelisted_trades' = [whitelisted_trades EXCEPT ![h] = NoDeal]
    /\ bound' = [bound EXCEPT ![h] = whitelisted_trades[h]]
    /\ forwards' = [forwards EXCEPT ![h] = @ + 1]
    /\ pay' = [pay EXCEPT ![h] = "queued"]
    /\ UNCHANGED <<now, makerVars, stale_event, accepts, taker_rgb, fell,
                   ledger, htlc, chan>>

(* What a restart of the taker's process loses: the whitelist and, since   *)
(* the channel manager may not have been saved yet, any forward that was   *)
(* not sent on, whose event is then delivered again.                       *)
TakerForgets(lost) ==
    /\ whitelisted_trades' = [h \in Hashes |-> NoDeal]
    /\ pay' = [h \in Hashes |-> IF h \in lost THEN "leg1" ELSE pay[h]]
    /\ UNCHANGED <<now, makerVars, stale_event, bound, accepts, forwards,
                   taker_rgb, fell, ledger, htlc, chan>>

Queued == {h \in Hashes : pay[h] = "queued"}

(* The HTLC of the event timed out before it was handled, and both         *)
(* fail_intercepted_htlc and forward_intercepted_htlc return an error; or  *)
(* "Should always be a valid channel" or "Forward should be valid" does    *)
(* not hold.  With panic = "abort" the process ends, and is started again  *)
(* with the event still pending.                                           *)
InterceptPanics(h) ==
    /\ \/ stale_event[h]
       \/ /\ pay[h] = "leg1"
          /\ \/ ~ChannelsFound(h)
             \/ Whitelisted(h) /\ chan[htlc[h].outbound_chan] # "usable"
    /\ \E lost \in SUBSET Queued : TakerForgets(lost)

(* Mutant: a forward whose channel cannot take it is dropped. *)
ForwardableOnlyIfUsable(h) ==
    /\ pay[h] = "queued"
    /\ chan[htlc[h].outbound_chan] = "usable"
    /\ pay' = [pay EXCEPT ![h] = "leg2"]
    /\ UNCHANGED <<now, makerVars, takerVars, ledger, htlc, chan>>

(* PendingHTLCsForwardable: the forward is sent, or failed back when its   *)
(* channel can no longer take it.                                          *)
PendingHTLCsForwardable(h) ==
    /\ pay[h] = "queued"
    /\ pay' = [pay EXCEPT ![h] =
                  IF chan[htlc[h].outbound_chan] = "usable"
                  THEN "leg2" ELSE "failed"]
    /\ UNCHANGED <<now, makerVars, takerVars, ledger, htlc, chan>>

-----------------------------------------------------------------------------
(* The maker's event handlers and the settlement they lead to. *)

Gains(h, f, a, x) ==
    [f EXCEPT ![h] = [b \in Assets |-> f[h][b] + IF b = a THEN x ELSE 0]]

(* claim_funds: the taker has paid the second leg. *)
PaymentClaimable(h) ==
    LET x == htlc[h]
    IN /\ pay[h] = "leg2"
       /\ pay' = [pay EXCEPT ![h] = "claimed"]
       /\ claimed_event' = [claimed_event EXCEPT ![h] = TRUE]
       /\ msat' = [msat EXCEPT ![h] = @ - x.outbound_msat]
       /\ rgb' = IF x.outbound_rgb = None THEN rgb
                 ELSE Gains(h, rgb, ContractOf[x.outbound_chan],
                            -x.outbound_rgb)
       /\ UNCHANGED <<now, printed, maker_trades, payment_info, retyped,
                      takerVars, htlc, chan>>

PaymentClaimed(h) ==
    /\ claimed_event[h]
    /\ claimed_event' = [claimed_event EXCEPT ![h] = FALSE]
    /\ maker_trades' = [maker_trades EXCEPT ![h] = NoDeal]
    /\ UNCHANGED <<now, printed, payment_info, retyped, takerVars, pay, htlc,
                   chan, ledger>>

(* External: the preimage reaches the taker, which claims the first leg. *)
ClaimFirstLeg(h) ==
    LET x == htlc[h]
    IN /\ pay[h] = "claimed"
       /\ pay' = [pay EXCEPT ![h] = "fulfilled"]
       /\ msat' = [msat EXCEPT ![h] = @ + x.inbound_msat]
       /\ rgb' = IF x.inbound_rgb = None THEN rgb
                 ELSE Gains(h, rgb, ContractOf[x.inbound_chan], x.inbound_rgb)
       /\ UNCHANGED <<now, makerVars, takerVars, htlc, chan>>

PaymentSent(h) ==
    /\ pay[h] = "fulfilled"
    /\ ~claimed_event[h]                       \* events come in order
    /\ pay' = [pay EXCEPT ![h] = "remembered"]
    /\ UNCHANGED <<now, makerVars, takerVars, ledger, htlc, chan>>

(* External: a settled PaymentId is forgotten after some timer ticks. *)
ForgetPaymentId(h) ==
    /\ pay[h] = "remembered"
    /\ pay' = [pay EXCEPT ![h] = "none"]
    /\ htlc' = [htlc EXCEPT ![h] = NoHtlc]
    /\ bound' = [bound EXCEPT ![h] = NoDeal]
    /\ retyped' = retyped \ {h}
    /\ UNCHANGED <<now, printed, maker_trades, payment_info, claimed_event,
                   whitelisted_trades, stale_event, accepts, forwards,
                   taker_rgb, fell, ledger, chan>>

PaymentFailed(h) ==
    /\ pay[h] = "failed"
    /\ pay' = [pay EXCEPT ![h] = "none"]
    /\ htlc' = [htlc EXCEPT ![h] = NoHtlc]
    /\ bound' = [bound EXCEPT ![h] = NoDeal]
    /\ retyped' = retyped \ {h}
    /\ UNCHANGED <<now, printed, maker_trades, payment_info, claimed_event,
                   whitelisted_trades, stale_event, accepts, forwards,
                   taker_rgb, fell, ledger, chan>>

-----------------------------------------------------------------------------
(* Faults. *)

(* closechannel, by either end; the channel is still listed. *)
closechannel(c) ==
    /\ "close" \in Faults
    /\ chan[c] = "usable"
    /\ chan' = [chan EXCEPT ![c] = "closing"]
    /\ UNCHANGED <<now, makerVars, takerVars, ledger, pay, htlc>>

(* forceclosechannel, or the end of a cooperative close. *)
forceclosechannel(c) ==
    /\ "close" \in Faults
    /\ chan[c] # "closed"
    /\ chan' = [chan EXCEPT ![c] = "closed"]
    /\ UNCHANGED <<now, makerVars, takerVars, ledger, pay, htlc>>

(* External: blocks pass and the HTLC times out, off or on chain.  The     *)
(* event of an HTLC that was still held stays in the taker's queue.        *)
HtlcTimesOut(h) ==
    /\ "timeout" \in Faults
    /\ pay[h] \in {"leg1", "leg2"}
    /\ pay' = [pay EXCEPT ![h] = "failed"]
    /\ stale_event' = [stale_event EXCEPT ![h] = @ \/ pay[h] = "leg1"]
    /\ UNCHANGED <<now, makerVars, whitelisted_trades, bound, accepts, forwards,
                   taker_rgb, fell, ledger, htlc, chan>>

TakerRestart ==
    /\ "restart" \in Faults
    /\ \E lost \in SUBSET Queued : TakerForgets(lost)

(* maker_trades is lost; an event that was handled but not saved as        *)
(* handled is delivered again.                                             *)
MakerRestart ==
    /\ "restart" \in Faults
    /\ maker_trades' = [h \in Hashes |-> NoDeal]
    /\ \E again \in SUBSET {h \in Hashes : pay[h] \in {"claimed", "fulfilled"}} :
         claimed_event' =
           [h \in Hashes |-> claimed_event[h] \/ h \in again]
    /\ \E again \in SUBSET {h \in Hashes : pay[h] = "remembered"} :
         pay' = [h \in Hashes |-> IF h \in again THEN "fulfilled" ELSE pay[h]]
    /\ UNCHANGED <<now, printed, payment_info, retyped, takerVars, htlc, chan,
                   ledger>>

-----------------------------------------------------------------------------
Commands ==
    \E s \in SwapStrings : makerinit(s) \/ taker(s) \/ makerexecute(s)

TakerHandlers(h) ==
    RejectSwap(h) \/ ForwardSwap(h) \/ PendingHTLCsForwardable(h)

MakerHandlers(h) ==
    PaymentClaimable(h) \/ PaymentClaimed(h) \/ PaymentSent(h) \/ PaymentFailed(h)

Next ==
    \/ Tick
    \/ Commands
    \/ \E h \in Hashes :
         \/ TakerHandlers(h)
         \/ InterceptPanics(h)
         \/ MakerHandlers(h)
         \/ ClaimFirstLeg(h)
         \/ ForgetPaymentId(h)
         \/ HtlcTimesOut(h)
    \/ \E c \in Channels : closechannel(c) \/ forceclosechannel(c)
    \/ \E a \in Assets : \E n \in TakerBalances[a] : BalanceChanges(a, n)
    \/ TakerRestart
    \/ MakerRestart

Spec == Init /\ [][Next]_vars

(***************************************************************************)
(* The background processor of each node keeps handling events, messages   *)
(* keep being delivered, and an HTLC nobody resolves times out.  A maker   *)
(* that restarts for ever gets PaymentClaimed again each time, ahead of    *)
(* PaymentSent; strong fairness says it stays up long enough for both in   *)
(* the end.  Nothing obliges a user to type a command.                     *)
(***************************************************************************)
Fairness ==
    \A h \in Hashes :
      /\ WF_vars(TakerHandlers(h))
      /\ WF_vars(PaymentClaimable(h))
      /\ WF_vars(PaymentClaimed(h))
      /\ WF_vars(ClaimFirstLeg(h))
      /\ SF_vars(PaymentSent(h))
      /\ WF_vars(PaymentFailed(h))
      /\ WF_vars(HtlcTimesOut(h))

FairSpec == Spec /\ Fairness

-----------------------------------------------------------------------------
(* Properties. *)

Forwarded == {"queued", "leg2", "claimed", "fulfilled", "remembered"}

(* What a deal allows the taker's two HTLCs to be: the asset of the deal   *)
(* moves, in the agreed amount and direction, nothing else does, and the   *)
(* sats the taker ends up with are the agreed ones or more.                *)
HtlcHonours(d, x) ==
    IF is_buy(d.type)
    THEN /\ x.inbound_rgb = d.type.amount_rgb
         /\ ContractOf[x.inbound_chan] = d.asset
         /\ x.outbound_rgb = None
         /\ x.outbound_msat - x.inbound_msat <= d.type.amount_msats
    ELSE /\ x.outbound_rgb = d.type.amount_rgb
         /\ ContractOf[x.outbound_chan] = d.asset
         /\ x.inbound_rgb = None
         /\ x.inbound_msat - x.outbound_msat >= d.type.amount_msats

(* While a swap payment is in flight its HTLCs are known, the asset moves  *)
(* one way only, and when it leaves the taker the sats that come in are    *)
(* not less than those that leave: the hops of maker_execute's two legs    *)
(* never mix.                                                              *)
OneSided(x) ==
    /\ x \in Htlc
    /\ x.inbound_rgb = None <=> x.outbound_rgb # None
    /\ x.outbound_rgb # None => x.inbound_msat >= x.outbound_msat

HeldHtlcIsOneSided ==
    \A h \in Hashes : pay[h] # "none" => OneSided(htlc[h])

(* HTLCIntercepted lets through only HTLCs that honour the deal that was   *)
(* whitelisted when it looked, whatever string the maker executed, and     *)
(* that stays so until the payment is over: a taker that whitelists the    *)
(* same hash again with other terms does not change it.                    *)
ForwardHonoursDeal ==
    \A h \in Hashes :
      pay[h] \in Forwarded => /\ bound[h] # NoDeal
                              /\ HtlcHonours(bound[h], htlc[h])

(* Each acceptance of a swap by `taker' backs at most one forward, over    *)
(* retries of makerexecute, restarts and redelivered HTLCIntercepted       *)
(* events: what is still whitelisted has not been used.                    *)
AcceptanceUsedOnce ==
    \A h \in Hashes :
      forwards[h] + (IF whitelisted_trades[h] # NoDeal THEN 1 ELSE 0)
        <= accepts[h]

(* The payment info file describes the asset that the payment in flight    *)
(* carries, over failed and forgotten payments with the same hash and      *)
(* files they left behind, unless makerexecute was typed with other terms  *)
(* while that payment was in flight: maker_execute writes the file before  *)
(* the channel manager refuses the second payment.                         *)
InfoWrongOnlyIfRetyped ==
    \A h \in Hashes :
      /\ pay[h] \in {"leg1", "queued", "leg2", "claimed"}
      /\ htlc[h].inbound_rgb # None
      => \/ payment_info[h] # NoDeal /\ Describes(payment_info[h], htlc[h])
         \/ h \in retyped

(* The asset leg of a forwarded sale, and the taker's balance of it. *)
SaleIsCovered(h) ==
    htlc[h].outbound_rgb <= taker_rgb[ContractOf[htlc[h].outbound_chan]]

(* HTLCIntercepted does not ask for the balance again: a sale is forwarded *)
(* without the assets that `taker' counted only when they left the wallet  *)
(* since the last time the hash was accepted.                              *)
UncoveredOnlyIfSpent ==
    [][\A h \in Hashes :
         /\ pay[h] = "leg1" /\ pay'[h] = "queued"
         /\ htlc[h].outbound_rgb # None
         => SaleIsCovered(h) \/ h \in fell]_vars

(* Without faults and edited strings, a swap both sides agreed on settles: *)
(* the HTLCs maker_execute builds always pass the check of                 *)
(* HTLCIntercepted, the payment is sent, and the trade leaves              *)
(* maker_trades.                                                           *)
AgreedSwapSettles ==
    \A h \in Hashes :
      (pay[h] = "leg1" /\ whitelisted_trades[h] # NoDeal)
        ~> (pay[h] = "remembered" /\ maker_trades[h] = NoDeal)

(* Every payment makerexecute sent ends, whatever restarts, closures and   *)
(* rejections happen on the way.                                           *)
SwapEnds ==
    \A h \in Hashes :
      pay[h] \notin {"none", "remembered"} ~> pay[h] \in {"none", "remembered"}

-----------------------------------------------------------------------------
(* What the repository says or asserts and the model refutes (README). *)

(* Assertion main.rs:1019 and 1024, "Should always be a valid channel":    *)
(* both channels of an intercepted HTLC are still listed when its event is *)
(* handled.                                                                *)
ShouldAlwaysBeAValidChannel ==
    \A h \in Hashes : pay[h] = "leg1" => ChannelsFound(h)

(* fail_intercepted_htlc(..).unwrap(), main.rs:1036, 1055 and 1069: the    *)
(* HTLC of an HTLCIntercepted event is still held when the event is        *)
(* handled.                                                                *)
InterceptedHtlcIsHeld == \A h \in Hashes : ~stale_event[h]

(* Assertion main.rs:1085, "Forward should be valid": an HTLC that passed  *)
(* the whitelist check can be forwarded over its channel.                  *)
ForwardShouldBeValid ==
    \A h \in Hashes :
      pay[h] = "leg1" /\ ChannelsFound(h) /\ Whitelisted(h)
        => chan[htlc[h].outbound_chan] = "usable"

(* Comment cli.rs:1207, "We are selling assets, do we have enough?": the   *)
(* answer is taken for good, and may be wrong when the sale is forwarded.  *)
SalesAreCovered ==
    \A h \in Hashes :
      pay[h] = "leg1" /\ Whitelisted(h) /\ htlc[h].outbound_rgb # None
        => SaleIsCovered(h)

-----------------------------------------------------------------------------
(***************************************************************************)
(* The refinement of AtomicSwap.  An exchange is settled when the maker    *)
(* claims the second leg: from then on the taker holds the preimage, and   *)
(* the first leg counts as its own although it is claimed later.           *)
(***************************************************************************)
Owed(h) == pay[h] = "claimed"

lockedBar ==
    [h \in Hashes |-> IF pay[h] \in {"queued", "leg2"} THEN bound[h] ELSE NoDeal]

msatBar ==
    [h \in Hashes |-> msat[h] + IF Owed(h) THEN htlc[h].inbound_msat ELSE 0]

rgbBar ==
    [h \in Hashes |-> [a \in Assets |->
       rgb[h][a] + IF /\ Owed(h)
                      /\ htlc[h].inbound_rgb # None
                      /\ ContractOf[htlc[h].inbound_chan] = a
                   THEN htlc[h].inbound_rgb ELSE 0]]

Atomic == INSTANCE AtomicSwap WITH
    open   <- whitelisted_trades,
    locked <- lockedBar,
    msat   <- msatBar,
    rgb    <- rgbBar

(* The swap protocol implements AtomicSwap: the taker's balances move only *)
(* by settling a deal it accepted, both legs together, once.               *)
ImplementsAtomicSwap == Atomic!ASpec
=============================================================================
