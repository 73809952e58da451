------------------------------ MODULE SwapTerms ------------------------------
(***************************************************************************)
(* The arithmetic of a swap: what a swap string means (src/src/swap.rs),   *)
(* which HTLC the maker builds from it (maker_execute, src/src/cli.rs) and *)
(* which HTLC the taker accepts for it (the HTLCIntercepted handler,       *)
(* src/src/main.rs).  Nothing here has state; module Swap adds it.         *)
(*                                                                         *)
(* An Option<u64> is an integer with None for the missing value, an        *)
(* Option<ContractId> an asset or NoAsset.                                 *)
(***************************************************************************)
EXTENDS Integers

CONSTANTS
    Assets,          \* RGB contract ids
    NoAsset,         \* the contract of a channel that carries no asset
    Hashes,          \* payment hashes create_inbound_payment can return
    Channels,        \* channels of the taker with the maker
    ContractOf,      \* the contract in each channel's info file, or NoAsset
    HTLC_MIN_MSAT,   \* cli.rs:90, the sats every RGB payment carries
    U64              \* the number of values of a u64 (2^64 in the code)

ASSUME SwapTermsAssumption ==
    /\ NoAsset \notin Assets
    /\ ContractOf \in [Channels -> Assets \cup {NoAsset}]
    /\ HTLC_MIN_MSAT \in Nat
    /\ U64 \in Nat \ {0}

None == -1

Amount == 0 .. (U64 - 1)

Sides == {"buy", "sell"}

SwapType == [side : Sides, amount_rgb : Amount, amount_msats : Amount]

(* A HashMap value of whitelisted_trades and of maker_trades. *)
Deal == [asset : Assets, type : SwapType]

(* Mutant: the two sides are not exchanged. *)
OppositeKeepsSide(t) == t

opposite(t) ==
    [t EXCEPT !.side = IF t.side = "buy" THEN "sell" ELSE "buy"]

is_buy(t) == t.side = "buy"

SaturatingSub(a, b) == IF a > b THEN a - b ELSE 0

(* Mutant: the product of two u64 values is not a u64. *)
UnboundedMul(a, b) == a * b

(* u64 multiplication of a release build; a dev build aborts the process   *)
(* on overflow instead, which module Swap's restarts cover.                *)
WrappingMul(a, b) == (a * b) % U64

(***************************************************************************)
(* A swap string "amount:asset:side:price:expiry:hash".  Its parts reach   *)
(* the model already split; what from_str still does is reject the zeroes  *)
(* and multiply.                                                           *)
(***************************************************************************)
SwapString == [amount : Amount, asset : Assets, side : Sides,
               price : Amount, expiry : Nat, hash : Hashes]

(* from_str returns Ok. *)
IsValid(s) == s.amount # 0 /\ s.price # 0 /\ s.expiry # 0

FromStr(s) ==
    [asset |-> s.asset,
     type  |-> [side         |-> s.side,
                amount_rgb   |-> s.amount,
                amount_msats |-> WrappingMul(s.amount, s.price)]]

-----------------------------------------------------------------------------
(***************************************************************************)
(* The HTLC pair of a swap as the taker sees it: what comes in on the last *)
(* hop of the first leg and what should leave on the first hop of the      *)
(* second leg.                                                             *)
(***************************************************************************)
OptAmount == Amount \cup {None}

Htlc == [inbound_msat : Nat, outbound_msat : Nat,
         inbound_rgb : OptAmount, outbound_rgb : OptAmount,
         inbound_chan : Channels, outbound_chan : Channels]

(* Channels over which the router sends `asset' (external: find_route). *)
RouteChannels(asset) == {c \in Channels : ContractOf[c] = asset}

(* Mutant: the asset amount is put on the hops of both legs. *)
SwapHtlcBothLegs(t, ic, oc, fee) ==
    [inbound_msat  |-> HTLC_MIN_MSAT + fee +
                         IF is_buy(t) THEN t.amount_msats ELSE 0,
     outbound_msat |-> fee +
                         IF is_buy(t) THEN HTLC_MIN_MSAT ELSE t.amount_msats,
     inbound_rgb   |-> t.amount_rgb,
     outbound_rgb  |-> t.amount_rgb,
     inbound_chan  |-> ic,
     outbound_chan |-> oc]

(***************************************************************************)
(* The legs maker_execute builds.  `t' is the maker's view of the swap,    *)
(* already exchanged by opposite.  Buying, the maker sends amount_msats    *)
(* plus the HTLC_MIN_MSAT that will come back with the asset; selling, it  *)
(* sends the asset with HTLC_MIN_MSAT and asks for amount_msats back.      *)
(* `fee' is what later hops of the second leg keep: the sender adds it to  *)
(* both amounts the taker sees.                                            *)
(***************************************************************************)
SwapHtlc(t, ic, oc, fee) ==
    IF is_buy(t)
    THEN [inbound_msat  |-> t.amount_msats + HTLC_MIN_MSAT + fee,
          outbound_msat |-> HTLC_MIN_MSAT + fee,
          inbound_rgb   |-> None,
          outbound_rgb  |-> t.amount_rgb,
          inbound_chan  |-> ic,
          outbound_chan |-> oc]
    ELSE [inbound_msat  |-> HTLC_MIN_MSAT + fee,
          outbound_msat |-> t.amount_msats + fee,
          inbound_rgb   |-> t.amount_rgb,
          outbound_rgb  |-> None,
          inbound_chan  |-> ic,
          outbound_chan |-> oc]

(* The assets the two legs are routed for, from the maker's view. *)
FirstLegAsset(t, asset) == IF is_buy(t) THEN NoAsset ELSE asset
SecondLegAsset(t, asset) == IF is_buy(t) THEN asset ELSE NoAsset

-----------------------------------------------------------------------------
(***************************************************************************)
(* The taker's check.  get_rgb_info is None for a channel without info     *)
(* file; net_msat_diff is what the taker gives (buy) or gets (sell).       *)
(***************************************************************************)
get_rgb_info(c) == ContractOf[c]

net_msat_diff(t, x) ==
    IF is_buy(t)
    THEN SaturatingSub(x.outbound_msat,
                       SaturatingSub(x.inbound_msat, HTLC_MIN_MSAT))
    ELSE SaturatingSub(x.inbound_msat, x.outbound_msat)

(* Mutant: the amounts are compared but not the contract. *)
MatchesIgnoringContract(d, x) ==
    /\ net_msat_diff(d.type, x) = d.type.amount_msats
    /\ IF is_buy(d.type)
       THEN x.inbound_rgb = d.type.amount_rgb
       ELSE x.outbound_rgb = d.type.amount_rgb

(* Mutant: the sats are compared with what was agreed as an upper bound. *)
MatchesAtMost(d, x) ==
    /\ net_msat_diff(d.type, x) <= d.type.amount_msats
    /\ IF is_buy(d.type)
       THEN /\ x.inbound_rgb = d.type.amount_rgb
            /\ get_rgb_info(x.inbound_chan) = d.asset
            /\ get_rgb_info(x.outbound_chan) = NoAsset
       ELSE /\ x.outbound_rgb = d.type.amount_rgb
            /\ get_rgb_info(x.outbound_chan) = d.asset
            /\ get_rgb_info(x.inbound_chan) = NoAsset

MatchesWhitelist(d, x) ==
    /\ net_msat_diff(d.type, x) = d.type.amount_msats
    /\ IF is_buy(d.type)
       THEN /\ x.inbound_rgb = d.type.amount_rgb
            /\ get_rgb_info(x.inbound_chan) = d.asset
            /\ get_rgb_info(x.outbound_chan) = NoAsset
       ELSE /\ x.outbound_rgb = d.type.amount_rgb
            /\ get_rgb_info(x.outbound_chan) = d.asset
            /\ get_rgb_info(x.inbound_chan) = NoAsset
=============================================================================
