----------------------------- MODULE SwapProofs -----------------------------
(***************************************************************************)
(* Proofs about Swap for every set of hashes, assets, channels, strings    *)
(* and every choice of the other constants.                                *)
(*                                                                         *)
(* The inductive invariant is IInv: the types, the shape of the HTLCs in   *)
(* flight, that a forward honours its deal, and that an acceptance is used *)
(* once.  The shape is needed for the types (a payment that is claimed has *)
(* HTLCs) and for sales at zero msat, where net_msat_diff saturates.       *)
(***************************************************************************)
EXTENDS Swap, TLAPS

IInv ==
    /\ TypeOK
    /\ HeldHtlcIsOneSided
    /\ ForwardHonoursDeal
    /\ AcceptanceUsedOnce

-----------------------------------------------------------------------------
(* Operators. *)

(* A u64 product is a u64. *)
LEMMA WrappingMulType ==
    ASSUME NEW a \in Amount, NEW b \in Amount
    PROVE  WrappingMul(a, b) \in Amount
<1>1. a \in Nat /\ b \in Nat /\ U64 \in Nat \ {0}
  BY SwapTermsAssumption DEF Amount
<1>2. a * b \in Nat
  BY <1>1
<1>3. \A m \in Nat : m % U64 \in 0 .. (U64 - 1)
  BY <1>1
<1> QED
  BY <1>2, <1>3 DEF WrappingMul, Amount

(* from_str yields a deal. *)
LEMMA FromStrType ==
    ASSUME NEW s \in SwapStrings
    PROVE  /\ FromStr(s) \in Deal
           /\ FromStr(s).type \in SwapType
           /\ FromStr(s).asset \in Assets
           /\ s.hash \in Hashes
<1>1. s \in SwapString
  BY SwapAssumption
<1>2. WrappingMul(s.amount, s.price) \in Amount
  BY <1>1, WrappingMulType DEF SwapString
<1> QED
  BY <1>1, <1>2 DEF FromStr, Deal, SwapType, SwapString

(* The maker's view of a swap type is a swap type. *)
LEMMA OppositeType ==
    ASSUME NEW t \in SwapType
    PROVE  opposite(t) \in SwapType
BY DEF opposite, SwapType, Sides

(* The HTLC pair maker_execute builds moves the asset one way. *)
LEMMA SwapHtlcOneSided ==
    ASSUME NEW t \in SwapType, NEW ic \in Channels, NEW oc \in Channels,
           NEW fee \in Fees
    PROVE  OneSided(SwapHtlc(t, ic, oc, fee))
<1>1. /\ fee \in Nat /\ HTLC_MIN_MSAT \in Nat
      /\ t.amount_msats \in Nat
      /\ t.amount_rgb \in Amount /\ t.amount_rgb # None
  BY SwapAssumption, SwapTermsAssumption DEF SwapType, Amount, None
<1> QED
  BY <1>1 DEF SwapHtlc, OneSided, Htlc, OptAmount, None, Amount

(* The check of HTLCIntercepted is sufficient: a one-sided HTLC that       *)
(* passes it honours the deal, saturating subtractions included.           *)
LEMMA CheckIsSufficient ==
    ASSUME NEW d \in Deal, NEW x, OneSided(x), MatchesWhitelist(d, x)
    PROVE  HtlcHonours(d, x)
<1>1. /\ d.type.amount_rgb # None
      /\ d.type.amount_msats \in Nat
      /\ HTLC_MIN_MSAT \in Nat
      /\ x.inbound_msat \in Nat /\ x.outbound_msat \in Nat
  BY SwapTermsAssumption DEF OneSided, Htlc, Deal, SwapType, Amount, None
<1>2. CASE is_buy(d.type)
  <2>1. x.outbound_msat - x.inbound_msat <= d.type.amount_msats
    BY <1>1, <1>2 DEF MatchesWhitelist, net_msat_diff, SaturatingSub
  <2> QED
    BY <1>1, <1>2, <2>1 DEF MatchesWhitelist, HtlcHonours, OneSided, get_rgb_info
<1>3. CASE ~is_buy(d.type)
  <2>1. x.inbound_msat - x.outbound_msat >= d.type.amount_msats
    BY <1>1, <1>3 DEF MatchesWhitelist, net_msat_diff, SaturatingSub, OneSided
  <2> QED
    BY <1>1, <1>3, <2>1 DEF MatchesWhitelist, HtlcHonours, OneSided, get_rgb_info
<1> QED
  BY <1>2, <1>3

-----------------------------------------------------------------------------
(* One lemma per action or group of actions that change the same part of   *)
(* the state.                                                              *)

(* A step that only changes the maker's tables, balances or the clock. *)
LEMMA MakerTablesStep ==
    ASSUME IInv,
           \/ Tick
           \/ \E s \in SwapStrings : makerinit(s)
           \/ \E h \in Hashes : PaymentClaimed(h)
           \/ \E c \in Channels : closechannel(c) \/ forceclosechannel(c)
           \/ \E a \in Assets : \E n \in TakerBalances[a] : BalanceChanges(a, n)
           \/ UNCHANGED vars
    PROVE  IInv'
<1> USE DEF IInv, makerVars, takerVars, ledger
<1>1. TypeOK'
  <2> USE SwapAssumption DEF TypeOK
  <2>1. CASE Tick
    BY <2>1 DEF Tick
  <2>2. ASSUME NEW s \in SwapStrings, makerinit(s) PROVE TypeOK'
    BY <2>2, FromStrType DEF makerinit
  <2>3. ASSUME NEW h \in Hashes, PaymentClaimed(h) PROVE TypeOK'
    BY <2>3 DEF PaymentClaimed
  <2>4. ASSUME NEW c \in Channels, closechannel(c) \/ forceclosechannel(c)
        PROVE TypeOK'
    BY <2>4 DEF closechannel, forceclosechannel, ChanState
  <2>5. CASE UNCHANGED vars
    BY <2>5 DEF vars
  <2>6. ASSUME NEW a \in Assets, NEW n \in TakerBalances[a], BalanceChanges(a, n)
        PROVE TypeOK'
    <3>1. n \in OptAmount
      BY DEF OptAmount
    <3> QED
      BY <2>6, <3>1 DEF BalanceChanges
  <2> QED
    BY <2>1, <2>2, <2>3, <2>4, <2>5, <2>6
<1>2. UNCHANGED <<pay, htlc, bound, whitelisted_trades, accepts, forwards>>
  BY DEF Tick, makerinit, PaymentClaimed, closechannel, forceclosechannel,
         BalanceChanges, vars
<1> QED
  BY <1>1, <1>2 DEF HeldHtlcIsOneSided, ForwardHonoursDeal, AcceptanceUsedOnce

(* `taker' whitelists a deal and counts one more acceptance. *)
LEMMA TakerStep ==
    ASSUME IInv, NEW s \in SwapStrings, taker(s)
    PROVE  IInv'
<1> USE DEF IInv, makerVars, takerVars, ledger
<1>1. FromStr(s) \in Deal /\ s.hash \in Hashes
  BY FromStrType
<1>2. TypeOK'
  BY <1>1, SwapAssumption DEF TypeOK, taker
<1>3. HeldHtlcIsOneSided' /\ ForwardHonoursDeal'
  BY DEF taker, HeldHtlcIsOneSided, ForwardHonoursDeal
<1>4. AcceptanceUsedOnce'
  BY <1>1, SwapAssumption DEF taker, AcceptanceUsedOnce, TypeOK
<1> QED
  BY <1>2, <1>3, <1>4

(* `makerexecute' starts a payment with one-sided HTLCs, or none. *)
LEMMA MakerExecuteStep ==
    ASSUME IInv, NEW s \in SwapStrings, makerexecute(s)
    PROVE  IInv'
<1> DEFINE d == FromStr(s)
           t == opposite(d.type)
           h == s.hash
<1>1. d \in Deal /\ h \in Hashes /\ t \in SwapType
  BY FromStrType, OppositeType
<1>2. payment_info' \in [Hashes -> Deal \cup {NoDeal}]
  BY <1>1 DEF makerexecute, WritesPaymentInfo, IInv, TypeOK
<1>3. /\ UNCHANGED <<now, printed, maker_trades, claimed_event, stale_event, chan,
                     whitelisted_trades, bound, accepts, forwards, msat, rgb,
                     taker_rgb, fell>>
      /\ retyped' \subseteq Hashes
  BY <1>1 DEF makerexecute, takerVars, ledger, IInv, TypeOK
<1>4. PICK x : /\ OneSided(x)
               /\ \/ /\ pay' = [pay EXCEPT ![h] = "leg1"]
                     /\ htlc' = [htlc EXCEPT ![h] = x]
                  \/ UNCHANGED <<pay, htlc>>
  <2>1. PICK ic \in RouteChannels(FirstLegAsset(t, d.asset)),
             oc \in RouteChannels(SecondLegAsset(t, d.asset)),
             fee \in Fees :
          \/ /\ pay' = [pay EXCEPT ![h] = "leg1"]
             /\ htlc' = [htlc EXCEPT ![h] = SwapHtlc(t, ic, oc, fee)]
          \/ UNCHANGED <<pay, htlc>>
    BY DEF makerexecute
  <2>2. OneSided(SwapHtlc(t, ic, oc, fee))
    BY <1>1, SwapHtlcOneSided DEF RouteChannels
  <2> HIDE DEF d, t, h
  <2> QED
    BY <2>1, <2>2
<1> HIDE DEF d, t, h
<1>5. TypeOK'
  <2>1. x \in Htlc
    BY <1>4 DEF OneSided
  <2>2. pay' \in [Hashes -> PayState]
    BY <1>1, <1>4 DEF IInv, TypeOK, PayState
  <2>3. htlc' \in [Hashes -> Htlc \cup {NoHtlc}]
    BY <1>1, <1>4, <2>1 DEF IInv, TypeOK
  <2> QED
    BY <1>2, <1>3, <2>2, <2>3 DEF IInv, TypeOK
<1>6. HeldHtlcIsOneSided'
  BY <1>1, <1>4 DEF IInv, TypeOK, HeldHtlcIsOneSided
<1>7. ForwardHonoursDeal'
  BY <1>1, <1>3, <1>4 DEF IInv, TypeOK, ForwardHonoursDeal, Forwarded
<1>8. AcceptanceUsedOnce'
  BY <1>3 DEF IInv, AcceptanceUsedOnce
<1> QED
  BY <1>5, <1>6, <1>7, <1>8 DEF IInv

(* The forward: the whitelisted deal becomes the bound one and is used up. *)
LEMMA ForwardStep ==
    ASSUME IInv, NEW h \in Hashes, ForwardSwap(h)
    PROVE  IInv'
<1> USE DEF IInv, makerVars
<1>1. whitelisted_trades[h] \in Deal
  BY DEF ForwardSwap, Whitelisted, TypeOK
<1>2. TypeOK'
  BY <1>1 DEF TypeOK, ForwardSwap, PayState, ledger
<1>3. OneSided(htlc[h])
  BY DEF ForwardSwap, HeldHtlcIsOneSided
<1>4. HeldHtlcIsOneSided'
  BY <1>3 DEF HeldHtlcIsOneSided, ForwardSwap, TypeOK
<1>5. HtlcHonours(whitelisted_trades[h], htlc[h])
  BY <1>1, <1>3, CheckIsSufficient DEF ForwardSwap, Whitelisted
<1>6. ForwardHonoursDeal'
  <2> SUFFICES ASSUME NEW g \in Hashes, pay'[g] \in Forwarded
               PROVE  bound'[g] # NoDeal /\ HtlcHonours(bound'[g], htlc'[g])
    BY DEF ForwardHonoursDeal, HtlcHonours
  <2>1. htlc' = htlc
    BY DEF ForwardSwap
  <2>2. CASE g = h
    BY <1>1, <1>5, <2>1, <2>2, SwapAssumption DEF ForwardSwap, TypeOK
  <2>3. CASE g # h
    BY <2>1, <2>3 DEF ForwardSwap, TypeOK, ForwardHonoursDeal
  <2> QED
    BY <2>2, <2>3
<1>7. AcceptanceUsedOnce'
  BY DEF AcceptanceUsedOnce, ForwardSwap, Whitelisted, TypeOK
<1> QED
  BY <1>2, <1>4, <1>6, <1>7

(* Steps that only move the payment on, backwards or to its end. *)
LEMMA PayStep ==
    ASSUME IInv, NEW h \in Hashes,
           \/ RejectSwap(h) \/ PendingHTLCsForwardable(h)
           \/ PaymentSent(h) \/ HtlcTimesOut(h)
    PROVE  IInv'
<1> USE DEF IInv, makerVars, takerVars, ledger
<1>1. /\ UNCHANGED <<now, printed, maker_trades, payment_info, claimed_event,
                     whitelisted_trades, bound, accepts, forwards, msat, rgb,
                     htlc, chan, taker_rgb, fell, retyped>>
      /\ pay[h] # "none"
      /\ \/ pay' = [pay EXCEPT ![h] = "failed"]
         \/ /\ pay[h] \in Forwarded
            /\ \/ pay' = [pay EXCEPT ![h] = "leg2"]
               \/ pay' = [pay EXCEPT ![h] = "remembered"]
  BY DEF RejectSwap, PendingHTLCsForwardable, PaymentSent, HtlcTimesOut, Forwarded
<1>2. TypeOK'
  <2>1. stale_event' \in [Hashes -> BOOLEAN]
    BY DEF TypeOK, RejectSwap, PendingHTLCsForwardable, PaymentSent, HtlcTimesOut
  <2> QED
    BY <1>1, <2>1 DEF TypeOK, PayState
<1>3. HeldHtlcIsOneSided'
  BY <1>1 DEF HeldHtlcIsOneSided, TypeOK
<1>4. ForwardHonoursDeal'
  BY <1>1 DEF ForwardHonoursDeal, TypeOK, Forwarded
<1>5. AcceptanceUsedOnce'
  BY <1>1 DEF AcceptanceUsedOnce
<1> QED
  BY <1>2, <1>3, <1>4, <1>5

(* The payment is over and its hash is free again. *)
LEMMA EndStep ==
    ASSUME IInv, NEW h \in Hashes, PaymentFailed(h) \/ ForgetPaymentId(h)
    PROVE  IInv'
<1> USE DEF IInv, makerVars, ledger
<1>1. /\ UNCHANGED <<now, printed, maker_trades, payment_info, claimed_event,
                     stale_event, whitelisted_trades, accepts, forwards, msat,
                     rgb, chan, taker_rgb, fell>>
      /\ retyped' = retyped \ {h}
      /\ pay' = [pay EXCEPT ![h] = "none"]
      /\ htlc' = [htlc EXCEPT ![h] = NoHtlc]
      /\ bound' = [bound EXCEPT ![h] = NoDeal]
  BY DEF PaymentFailed, ForgetPaymentId
<1>2. TypeOK'
  BY <1>1 DEF TypeOK, PayState
<1>3. HeldHtlcIsOneSided'
  BY <1>1 DEF HeldHtlcIsOneSided, TypeOK
<1>4. ForwardHonoursDeal'
  BY <1>1 DEF ForwardHonoursDeal, TypeOK, Forwarded
<1>5. AcceptanceUsedOnce'
  BY <1>1 DEF AcceptanceUsedOnce
<1> QED
  BY <1>2, <1>3, <1>4, <1>5

(* A settlement keeps the ledger a ledger; a channel without an asset adds *)
(* nothing to it.                                                          *)
LEMMA GainsType ==
    ASSUME NEW f \in [Hashes -> [Assets -> Int]], NEW h \in Hashes, NEW a,
           NEW x \in Int
    PROVE  Gains(h, f, a, x) \in [Hashes -> [Assets -> Int]]
BY DEF Gains

(* claim_funds at the maker, and the claim of the first leg that follows. *)
LEMMA SettleStep ==
    ASSUME IInv, NEW h \in Hashes, PaymentClaimable(h) \/ ClaimFirstLeg(h)
    PROVE  IInv'
<1>1. /\ htlc[h] \in Htlc
      /\ pay[h] \in Forwarded
  BY DEF IInv, HeldHtlcIsOneSided, OneSided, PaymentClaimable, ClaimFirstLeg,
         Forwarded
<1>2. /\ htlc[h].inbound_msat \in Int /\ htlc[h].outbound_msat \in Int
      /\ htlc[h].inbound_rgb \in Int /\ htlc[h].outbound_rgb \in Int
  BY <1>1 DEF Htlc, OptAmount, Amount, None
<1>3. /\ UNCHANGED <<now, printed, maker_trades, payment_info, stale_event,
                     whitelisted_trades, bound, accepts, forwards, htlc, chan,
                     taker_rgb, fell, retyped>>
      /\ \/ pay' = [pay EXCEPT ![h] = "claimed"]
         \/ pay' = [pay EXCEPT ![h] = "fulfilled"]
  BY DEF PaymentClaimable, ClaimFirstLeg, makerVars, takerVars
<1>4. TypeOK'
  <2>1. pay' \in [Hashes -> PayState]
    BY <1>3 DEF IInv, TypeOK, PayState
  <2>2. msat' \in [Hashes -> Int]
    BY <1>2 DEF IInv, TypeOK, PaymentClaimable, ClaimFirstLeg
  <2>3. rgb' \in [Hashes -> [Assets -> Int]]
    <3>1. rgb \in [Hashes -> [Assets -> Int]]
      BY DEF IInv, TypeOK
    <3>2. -htlc[h].outbound_rgb \in Int
      BY <1>2
    <3>3. CASE PaymentClaimable(h)
      BY <3>1, <3>2, <3>3, GainsType DEF PaymentClaimable
    <3>4. CASE ClaimFirstLeg(h)
      BY <1>2, <3>1, <3>4, GainsType DEF ClaimFirstLeg
    <3> QED
      BY <3>3, <3>4
  <2>4. claimed_event' \in [Hashes -> BOOLEAN]
    BY DEF IInv, TypeOK, PaymentClaimable, ClaimFirstLeg, makerVars
  <2> QED
    BY <1>3, <2>1, <2>2, <2>3, <2>4 DEF IInv, TypeOK
<1>5. HeldHtlcIsOneSided'
  BY <1>1, <1>3 DEF IInv, HeldHtlcIsOneSided, TypeOK, Forwarded
<1>6. ForwardHonoursDeal'
  BY <1>1, <1>3 DEF IInv, ForwardHonoursDeal, TypeOK
<1>7. AcceptanceUsedOnce'
  BY <1>3 DEF IInv, AcceptanceUsedOnce
<1> QED
  BY <1>4, <1>5, <1>6, <1>7 DEF IInv

(* A restart of the taker forgets acceptances, never the deal of a forward *)
(* that was sent on.                                                       *)
LEMMA TakerForgetsStep ==
    ASSUME IInv, NEW lost \in SUBSET Queued, TakerForgets(lost)
    PROVE  IInv'
<1> USE DEF IInv, makerVars, ledger
<1>1. TypeOK'
  BY DEF TypeOK, TakerForgets, PayState
<1>2. HeldHtlcIsOneSided'
  BY DEF HeldHtlcIsOneSided, TakerForgets, TypeOK, Queued
<1>3. ForwardHonoursDeal'
  BY DEF ForwardHonoursDeal, TakerForgets, TypeOK, Forwarded
<1>4. AcceptanceUsedOnce'
  BY SwapAssumption DEF AcceptanceUsedOnce, TakerForgets, TypeOK
<1> QED
  BY <1>1, <1>2, <1>3, <1>4

(* A restart of the maker. *)
LEMMA MakerRestartStep ==
    ASSUME IInv, MakerRestart
    PROVE  IInv'
<1> USE DEF IInv, takerVars, ledger
<1>1. TypeOK'
  BY DEF TypeOK, MakerRestart, PayState
<1>2. HeldHtlcIsOneSided'
  BY DEF HeldHtlcIsOneSided, MakerRestart, TypeOK
<1>3. ForwardHonoursDeal'
  BY DEF ForwardHonoursDeal, MakerRestart, TypeOK, Forwarded
<1>4. AcceptanceUsedOnce'
  BY DEF AcceptanceUsedOnce, MakerRestart
<1> QED
  BY <1>1, <1>2, <1>3, <1>4

-----------------------------------------------------------------------------
(* The inductive invariant holds in every reachable state. *)
THEOREM Invariance == Spec => []IInv
<1>1. Init => IInv
  <2> SUFFICES ASSUME Init PROVE IInv
    OBVIOUS
  <2>1. TypeOK
    BY SwapAssumption DEF Init, TypeOK, PayState, ChanState
  <2>2. HeldHtlcIsOneSided /\ ForwardHonoursDeal
    BY DEF Init, HeldHtlcIsOneSided, ForwardHonoursDeal, Forwarded
  <2>3. AcceptanceUsedOnce
    BY DEF Init, AcceptanceUsedOnce
  <2> QED
    BY <2>1, <2>2, <2>3 DEF IInv
<1>2. IInv /\ [Next]_vars => IInv'
  <2> SUFFICES ASSUME IInv, [Next]_vars PROVE IInv'
    OBVIOUS
  <2>1. CASE Tick \/ UNCHANGED vars
    BY <2>1, MakerTablesStep
  <2>2. CASE Commands
    BY <2>2, MakerTablesStep, TakerStep, MakerExecuteStep DEF Commands
  <2>3. ASSUME NEW h \in Hashes, TakerHandlers(h) PROVE IInv'
    BY <2>3, ForwardStep, PayStep DEF TakerHandlers
  <2>4. ASSUME NEW h \in Hashes, InterceptPanics(h) PROVE IInv'
    BY <2>4, TakerForgetsStep DEF InterceptPanics
  <2>5. ASSUME NEW h \in Hashes, MakerHandlers(h) PROVE IInv'
    BY <2>5, SettleStep, MakerTablesStep, PayStep, EndStep DEF MakerHandlers
  <2>6. ASSUME NEW h \in Hashes,
               ClaimFirstLeg(h) \/ ForgetPaymentId(h) \/ HtlcTimesOut(h)
        PROVE IInv'
    BY <2>6, SettleStep, EndStep, PayStep
  <2>7. ASSUME NEW c \in Channels, closechannel(c) \/ forceclosechannel(c)
        PROVE IInv'
    BY <2>7, MakerTablesStep
  <2>8. CASE TakerRestart
    BY <2>8, TakerForgetsStep DEF TakerRestart
  <2>9. CASE MakerRestart
    BY <2>9, MakerRestartStep
  <2>10. ASSUME NEW a \in Assets, NEW n \in TakerBalances[a], BalanceChanges(a, n)
         PROVE IInv'
    BY <2>10, MakerTablesStep
  <2> QED
    BY <2>1, <2>2, <2>3, <2>4, <2>5, <2>6, <2>7, <2>8, <2>9, <2>10 DEF Next
<1> QED
  BY <1>1, <1>2, PTL DEF Spec

(***************************************************************************)
(* Type correctness: whatever strings are typed and whatever fails, every  *)
(* table of both nodes keeps its type.                                     *)
(***************************************************************************)
THEOREM TypeCorrect == Spec => []TypeOK
<1>1. IInv => TypeOK
  BY DEF IInv
<1> QED
  BY <1>1, Invariance, PTL

(***************************************************************************)
(* The legs maker_execute builds never mix: the asset of a swap in flight  *)
(* moves one way, and never out of the taker together with its sats.       *)
(***************************************************************************)
THEOREM HeldHtlcIsOneSidedAlways == Spec => []HeldHtlcIsOneSided
<1>1. IInv => HeldHtlcIsOneSided
  BY DEF IInv
<1> QED
  BY <1>1, Invariance, PTL

(***************************************************************************)
(* The taker's protection: an HTLC that HTLCIntercepted forwards honours   *)
(* the deal that was whitelisted, for every string the maker may execute.  *)
(***************************************************************************)
THEOREM ForwardHonoursDealAlways == Spec => []ForwardHonoursDeal
<1>1. IInv => ForwardHonoursDeal
  BY DEF IInv
<1> QED
  BY <1>1, Invariance, PTL

(***************************************************************************)
(* Every `taker' command backs at most one forward, across restarts and    *)
(* redelivered events.                                                     *)
(***************************************************************************)
THEOREM AcceptanceUsedOnceAlways == Spec => []AcceptanceUsedOnce
<1>1. IInv => AcceptanceUsedOnce
  BY DEF IInv
<1> QED
  BY <1>1, Invariance, PTL

-----------------------------------------------------------------------------
(***************************************************************************)
(* What `taker' knew when it accepted a sale, and when it stops being so.  *)
(***************************************************************************)

(* The taker owns what a deal gives away. *)
IsCovered(d) == is_buy(d.type) \/ d.type.amount_rgb <= taker_rgb[d.asset]

DealsAreCovered ==
    \A h \in Hashes : whitelisted_trades[h] # NoDeal =>
                        IsCovered(whitelisted_trades[h]) \/ h \in fell

(* `taker' asks for the balance, whatever it was when the hash was accepted *)
(* before.                                                                  *)
LEMMA TakerCovers ==
    ASSUME IInv, DealsAreCovered, NEW s \in SwapStrings, taker(s)
    PROVE  DealsAreCovered'
<1>1. s.hash \in Hashes /\ IsCovered(FromStr(s))
  <2>1. s \in SwapString
    BY SwapAssumption
  <2>2. s.side = "sell" => s.amount <= taker_rgb[s.asset]
    BY DEF taker
  <2> QED
    BY <2>1, <2>2 DEF SwapString, Sides, IsCovered, FromStr, is_buy
<1>2. /\ whitelisted_trades' = [whitelisted_trades EXCEPT ![s.hash] = FromStr(s)]
      /\ fell' = fell \ {s.hash} /\ taker_rgb' = taker_rgb
  BY DEF taker
<1>3. \A h \in Hashes :
        whitelisted_trades'[h] # NoDeal =>
          IsCovered(whitelisted_trades'[h]) \/ h \in fell'
  BY <1>1, <1>2 DEF IInv, TypeOK, DealsAreCovered
<1> QED
  BY <1>2, <1>3 DEF DealsAreCovered, IsCovered

(* A balance that does not fall covers what it covered. *)
LEMMA BalanceCovers ==
    ASSUME IInv, DealsAreCovered, NEW a \in Assets, NEW n \in TakerBalances[a],
           BalanceChanges(a, n)
    PROVE  DealsAreCovered'
<1>1. n \in Int /\ \A b \in Assets : taker_rgb[b] \in Int
  BY SwapAssumption DEF IInv, TypeOK, OptAmount, Amount, None
<1>2. /\ taker_rgb' = [taker_rgb EXCEPT ![a] = n]
      /\ fell' = IF n < taker_rgb[a] THEN Hashes ELSE fell
      /\ whitelisted_trades' = whitelisted_trades
  BY DEF BalanceChanges
<1>3. CASE n < taker_rgb[a]
  BY <1>2, <1>3 DEF DealsAreCovered
<1>4. CASE ~(n < taker_rgb[a])
  <2>1. \A b \in Assets : taker_rgb[b] <= taker_rgb'[b] /\ taker_rgb'[b] \in Int
    BY <1>1, <1>2, <1>4 DEF IInv, TypeOK
  <2> SUFFICES ASSUME NEW h \in Hashes, whitelisted_trades[h] # NoDeal,
                      IsCovered(whitelisted_trades[h]),
                      ~is_buy(whitelisted_trades[h].type)
               PROVE  whitelisted_trades[h].type.amount_rgb
                        <= taker_rgb'[whitelisted_trades[h].asset]
    BY <1>2, <1>4 DEF DealsAreCovered, IsCovered
  <2> DEFINE d == whitelisted_trades[h]
  <2>2. d.asset \in Assets /\ d.type.amount_rgb \in Int
    BY DEF IInv, TypeOK, Deal, SwapType, Amount
  <2>3. d.type.amount_rgb <= taker_rgb[d.asset]
    BY DEF IsCovered
  <2> HIDE DEF d
  <2>4. d.type.amount_rgb <= taker_rgb'[d.asset]
    BY <1>1, <2>1, <2>2, <2>3
  <2> QED
    BY <2>4 DEF d
<1> QED
  BY <1>3, <1>4

(* No other step adds a deal to the whitelist or moves a balance. *)
LEMMA CoveredStep ==
    ASSUME IInv, DealsAreCovered, [Next]_vars
    PROVE  DealsAreCovered'
<1>1. ASSUME UNCHANGED <<taker_rgb, fell>>,
             \A h \in Hashes :
               whitelisted_trades'[h] \in {whitelisted_trades[h], NoDeal}
      PROVE  DealsAreCovered'
  BY <1>1 DEF DealsAreCovered, IsCovered
<1>2. ASSUME UNCHANGED takerVars PROVE DealsAreCovered'
  BY <1>1, <1>2 DEF takerVars
<1>3. CASE Tick \/ UNCHANGED vars \/ MakerRestart
  BY <1>2, <1>3 DEF Tick, vars, MakerRestart, takerVars
<1>4. CASE Commands
  BY <1>2, <1>4, TakerCovers DEF Commands, makerinit, makerexecute
<1>5. ASSUME NEW h \in Hashes, TakerHandlers(h) PROVE DealsAreCovered'
  <2>1. CASE ForwardSwap(h)
    BY <1>1, <2>1 DEF ForwardSwap, IInv, TypeOK
  <2> QED
    BY <1>2, <1>5, <2>1 DEF TakerHandlers, RejectSwap, PendingHTLCsForwardable
<1>6. CASE TakerRestart \/ \E h \in Hashes : InterceptPanics(h)
  BY <1>1, <1>6 DEF TakerRestart, InterceptPanics, TakerForgets
<1>7. ASSUME NEW h \in Hashes, MakerHandlers(h) PROVE DealsAreCovered'
  BY <1>1, <1>2, <1>7 DEF MakerHandlers, PaymentClaimable, PaymentClaimed,
                          PaymentSent, PaymentFailed
<1>8. ASSUME NEW h \in Hashes, ClaimFirstLeg(h) \/ ForgetPaymentId(h) \/ HtlcTimesOut(h)
      PROVE  DealsAreCovered'
  BY <1>1, <1>2, <1>8 DEF ClaimFirstLeg, ForgetPaymentId, HtlcTimesOut
<1>9. ASSUME NEW c \in Channels, closechannel(c) \/ forceclosechannel(c)
      PROVE  DealsAreCovered'
  BY <1>2, <1>9 DEF closechannel, forceclosechannel
<1> QED
  BY <1>3, <1>4, <1>5, <1>6, <1>7, <1>8, <1>9, BalanceCovers DEF Next

(* Only the handler of HTLCIntercepted queues a forward. *)
LEMMA OnlyForwardQueues ==
    ASSUME IInv, [Next]_vars, NEW h \in Hashes, pay[h] = "leg1", pay'[h] = "queued"
    PROVE  ForwardSwap(h)
<1>1. ASSUME NEW g \in Hashes, NEW st \in PayState \ {"queued"},
             pay' = [pay EXCEPT ![g] = st]
      PROVE  FALSE
  BY <1>1 DEF IInv, TypeOK
<1>2. ~UNCHANGED pay
  OBVIOUS
<1> USE DEF PayState
<1>3. ~(Tick \/ UNCHANGED vars)
  BY <1>2 DEF Tick, vars
<1>4. ~MakerRestart
  BY DEF MakerRestart
<1>5. ~Commands
  <2>1. ASSUME NEW s \in SwapStrings, makerexecute(s) PROVE FALSE
    <3>1. s.hash \in Hashes
      BY FromStrType
    <3>2. UNCHANGED pay \/ pay' = [pay EXCEPT ![s.hash] = "leg1"]
      BY <2>1 DEF makerexecute
    <3> QED
      BY <1>1, <1>2, <3>1, <3>2
  <2> QED
    BY <1>2, <2>1 DEF Commands, makerinit, taker
<1>6. ASSUME NEW g \in Hashes, RejectSwap(g) \/ PendingHTLCsForwardable(g)
      PROVE  FALSE
  BY <1>1, <1>6 DEF RejectSwap, PendingHTLCsForwardable
<1>7. ASSUME NEW g \in Hashes, ForwardSwap(g) PROVE g = h
  BY <1>7 DEF ForwardSwap, IInv, TypeOK
<1>8. ~(TakerRestart \/ \E g \in Hashes : InterceptPanics(g))
  BY DEF TakerRestart, InterceptPanics, TakerForgets
<1>9. ASSUME NEW g \in Hashes, MakerHandlers(g) PROVE FALSE
  BY <1>1, <1>2, <1>9 DEF MakerHandlers, PaymentClaimable, PaymentClaimed,
                          PaymentSent, PaymentFailed
<1>10. ASSUME NEW g \in Hashes, ClaimFirstLeg(g) \/ ForgetPaymentId(g) \/ HtlcTimesOut(g)
       PROVE  FALSE
  BY <1>1, <1>10 DEF ClaimFirstLeg, ForgetPaymentId, HtlcTimesOut
<1>11. ASSUME NEW c \in Channels, closechannel(c) \/ forceclosechannel(c)
       PROVE  FALSE
  BY <1>2, <1>11 DEF closechannel, forceclosechannel
<1>12. ASSUME NEW a \in Assets, NEW n \in TakerBalances[a], BalanceChanges(a, n)
       PROVE  FALSE
  BY <1>2, <1>12 DEF BalanceChanges
<1> QED
  BY <1>3, <1>4, <1>5, <1>6, <1>7, <1>8, <1>9, <1>10, <1>11, <1>12
     DEF Next, TakerHandlers

(***************************************************************************)
(* Whatever the maker executes and however often `taker' is typed, a sale  *)
(* is forwarded that the taker's balance does not cover only when that     *)
(* balance fell after the last acceptance: the check of `taker' is right   *)
(* when it is made, and never made again.                                  *)
(***************************************************************************)
THEOREM UncoveredOnlyIfSpentAlways == Spec => UncoveredOnlyIfSpent
<1> DEFINE Covers ==
             \A h \in Hashes :
               /\ pay[h] = "leg1" /\ pay'[h] = "queued"
               /\ htlc[h].outbound_rgb # None
               => SaleIsCovered(h) \/ h \in fell
<1>1. Init => DealsAreCovered
  BY DEF Init, DealsAreCovered
<1>2. IInv /\ DealsAreCovered /\ [Next]_vars => DealsAreCovered'
  BY CoveredStep
<1>3. IInv /\ DealsAreCovered /\ [Next]_vars => [Covers]_vars
  <2> SUFFICES ASSUME IInv, DealsAreCovered, [Next]_vars, NEW h \in Hashes,
                      pay[h] = "leg1", pay'[h] = "queued",
                      htlc[h].outbound_rgb # None
               PROVE  SaleIsCovered(h) \/ h \in fell
    OBVIOUS
  <2> DEFINE d == whitelisted_trades[h]
  <2>1. Whitelisted(h)
    BY OnlyForwardQueues DEF ForwardSwap
  <2>2. d \in Deal /\ d # NoDeal
    BY <2>1 DEF Whitelisted, IInv, TypeOK
  <2>3. OneSided(htlc[h])
    BY DEF IInv, HeldHtlcIsOneSided
  <2>4. HtlcHonours(d, htlc[h])
    BY <2>1, <2>2, <2>3, CheckIsSufficient DEF Whitelisted
  <2>5. IsCovered(d) \/ h \in fell
    BY <2>2 DEF DealsAreCovered
  <2> QED
    BY <2>4, <2>5 DEF HtlcHonours, IsCovered, SaleIsCovered
<1> QED
  BY <1>1, <1>2, <1>3, Invariance, PTL DEF Spec, UncoveredOnlyIfSpent

-----------------------------------------------------------------------------
(* The file of a payment that carries an asset describes it, or other      *)
(* terms were executed since: as long as the maker remembers the payment.  *)
FileDescribes ==
    \A h \in Hashes : pay[h] # "none" /\ htlc[h].inbound_rgb # None =>
      \/ payment_info[h] # NoDeal /\ Describes(payment_info[h], htlc[h])
      \/ h \in retyped

(* makerexecute: a payment gets a file of its own, and a refused one with  *)
(* other terms is recorded in `retyped'.                                   *)
LEMMA ExecutedStep ==
    ASSUME IInv, FileDescribes, NEW s \in SwapStrings, makerexecute(s)
    PROVE  FileDescribes'
<1> DEFINE d == FromStr(s)
           t == opposite(d.type)
           g == s.hash
<1>1. g \in Hashes /\ s \in SwapString /\ d \in Deal /\ d # NoDeal /\ t \in SwapType
  BY FromStrType, OppositeType, SwapAssumption
<1>2. t.amount_rgb = d.type.amount_rgb
  BY <1>1 DEF opposite
<1>3. PICK ic \in RouteChannels(FirstLegAsset(t, d.asset)),
           oc \in RouteChannels(SecondLegAsset(t, d.asset)), fee \in Fees :
        \/ /\ pay[g] = "none" /\ pay' = [pay EXCEPT ![g] = "leg1"]
           /\ htlc' = [htlc EXCEPT ![g] = SwapHtlc(t, ic, oc, fee)]
        \/ UNCHANGED <<pay, htlc>>
  BY DEF makerexecute
<1>4. /\ payment_info' = IF is_buy(t) THEN payment_info
                                      ELSE [payment_info EXCEPT ![g] = d]
      /\ retyped' = IF pay[g] # "none" /\ ~Describes(d, htlc[g])
                    THEN retyped \cup {g} ELSE retyped
  BY DEF makerexecute, WritesPaymentInfo
<1> DEFINE x == SwapHtlc(t, ic, oc, fee)
<1>5. x.inbound_rgb # None => ~is_buy(t) /\ Describes(d, x)
  BY <1>2 DEF SwapHtlc, RouteChannels, FirstLegAsset, Describes
<1>6. ~is_buy(t) => payment_info'[g] = d
  BY <1>1, <1>4 DEF IInv, TypeOK
<1>7. is_buy(t) => payment_info' = payment_info
  BY <1>4
<1> HIDE DEF d, t, x
<1>8. ASSUME NEW h \in Hashes, pay'[h] # "none", htlc'[h].inbound_rgb # None
      PROVE  \/ payment_info'[h] # NoDeal /\ Describes(payment_info'[h], htlc'[h])
             \/ h \in retyped'
  <2>1. CASE h # g
    <3>1. /\ pay'[h] = pay[h] /\ htlc'[h] = htlc[h]
          /\ payment_info'[h] = payment_info[h] /\ retyped \subseteq retyped'
      BY <1>1, <1>3, <1>4, <2>1 DEF IInv, TypeOK
    <3> QED
      BY <1>8, <3>1 DEF FileDescribes
  <2>2. CASE h = g /\ pay[g] = "none" /\ htlc'[g] = x
    BY <1>1, <1>5, <1>6, <1>8, <2>2
  <2>3. CASE h = g /\ pay'[g] = pay[g] /\ htlc'[g] = htlc[g]
    <3>1. CASE Describes(d, htlc[g]) /\ ~is_buy(t)
      BY <1>1, <1>6, <2>3, <3>1
    <3>2. CASE ~Describes(d, htlc[g])
      BY <1>4, <1>8, <2>3, <3>2
    <3>3. CASE is_buy(t)
      BY <1>4, <1>7, <1>8, <2>3, <3>3 DEF FileDescribes
    <3> QED
      BY <3>1, <3>2, <3>3
  <2>4. \/ pay[g] = "none" /\ htlc'[g] = x
        \/ pay'[g] = pay[g] /\ htlc'[g] = htlc[g]
    BY <1>1, <1>3 DEF IInv, TypeOK, x
  <2> QED
    BY <2>1, <2>2, <2>3, <2>4
<1> QED
  BY <1>8 DEF FileDescribes, Describes

(* No other step starts a payment or writes a file. *)
LEMMA FileStep ==
    ASSUME IInv, FileDescribes, [Next]_vars
    PROVE  FileDescribes'
<1>1. ASSUME payment_info' = payment_info,
             \A h \in Hashes :
               \/ pay'[h] = "none"
               \/ /\ pay[h] # "none" \/ pay'[h] = pay[h]
                  /\ htlc'[h] = htlc[h]
                  /\ h \in retyped => h \in retyped'
      PROVE  FileDescribes'
  BY <1>1 DEF FileDescribes, Describes
<1> USE DEF makerVars, takerVars
<1>2. ASSUME UNCHANGED <<payment_info, htlc, retyped>>, NEW g \in Hashes, NEW st,
             pay[g] # "none", pay' = [pay EXCEPT ![g] = st]
      PROVE  FileDescribes'
  <2>1. \A h \in Hashes : h # g => pay'[h] = pay[h]
    BY <1>2 DEF IInv, TypeOK
  <2> QED
    BY <1>1, <1>2, <2>1
<1>3. ASSUME NEW g \in Hashes, PaymentFailed(g) \/ ForgetPaymentId(g)
      PROVE  FileDescribes'
  <2>1. /\ payment_info' = payment_info /\ retyped' = retyped \ {g}
        /\ pay' = [pay EXCEPT ![g] = "none"] /\ htlc' = [htlc EXCEPT ![g] = NoHtlc]
    BY <1>3 DEF PaymentFailed, ForgetPaymentId
  <2>2. \A h \in Hashes : IF h = g THEN pay'[h] = "none"
                          ELSE /\ pay'[h] = pay[h] /\ htlc'[h] = htlc[h]
                               /\ h \in retyped => h \in retyped'
    BY <2>1 DEF IInv, TypeOK
  <2> QED
    BY <1>1, <2>1, <2>2
<1>4. ASSUME UNCHANGED <<payment_info, retyped, pay, htlc>> PROVE FileDescribes'
  BY <1>1, <1>4
<1>5. CASE Tick \/ UNCHANGED vars
  BY <1>4, <1>5 DEF Tick, vars
<1>6. CASE Commands
  BY <1>4, <1>6, ExecutedStep DEF Commands, makerinit, taker
<1>7. ASSUME NEW h \in Hashes, TakerHandlers(h) PROVE FileDescribes'
  <2>1. PICK st : pay' = [pay EXCEPT ![h] = st]
    BY <1>7 DEF TakerHandlers, RejectSwap, ForwardSwap, PendingHTLCsForwardable
  <2>2. pay[h] # "none" /\ UNCHANGED <<payment_info, htlc, retyped>>
    BY <1>7 DEF TakerHandlers, RejectSwap, ForwardSwap, PendingHTLCsForwardable
  <2> QED
    BY <1>2, <2>1, <2>2
<1>8. ASSUME NEW lost \in SUBSET Queued, TakerForgets(lost)
      PROVE  FileDescribes'
  <2>1. \A h \in Hashes : pay'[h] = pay[h] \/ pay[h] = "queued"
    BY <1>8 DEF TakerForgets, Queued
  <2> QED
    BY <1>1, <1>8, <2>1 DEF TakerForgets
<1>9. ASSUME NEW h \in Hashes,
             \/ PaymentClaimable(h) \/ PaymentSent(h)
             \/ ClaimFirstLeg(h) \/ HtlcTimesOut(h)
      PROVE  FileDescribes'
  <2>1. PICK st : pay' = [pay EXCEPT ![h] = st]
    BY <1>9 DEF PaymentClaimable, PaymentSent, ClaimFirstLeg, HtlcTimesOut
  <2>2. pay[h] # "none" /\ UNCHANGED <<payment_info, htlc, retyped>>
    BY <1>9 DEF PaymentClaimable, PaymentSent, ClaimFirstLeg, HtlcTimesOut
  <2> QED
    BY <1>2, <2>1, <2>2
<1>10. ASSUME NEW h \in Hashes, PaymentClaimed(h) PROVE FileDescribes'
  BY <1>4, <1>10 DEF PaymentClaimed
<1>11. ASSUME NEW c \in Channels, closechannel(c) \/ forceclosechannel(c)
       PROVE  FileDescribes'
  BY <1>4, <1>11 DEF closechannel, forceclosechannel
<1>12. ASSUME NEW a \in Assets, NEW n \in TakerBalances[a], BalanceChanges(a, n)
       PROVE  FileDescribes'
  BY <1>4, <1>12 DEF BalanceChanges
<1>13. CASE MakerRestart
  <2>1. \A h \in Hashes : pay'[h] = pay[h] \/ pay[h] = "remembered"
    BY <1>13 DEF MakerRestart
  <2> QED
    BY <1>1, <1>13, <2>1 DEF MakerRestart
<1> QED
  BY <1>3, <1>5, <1>6, <1>7, <1>8, <1>9, <1>10, <1>11, <1>12, <1>13
     DEF Next, InterceptPanics, TakerRestart, MakerHandlers

(***************************************************************************)
(* Whatever strings users type, the payment info file of a swap in flight  *)
(* describes the asset it carries, unless makerexecute was typed with      *)
(* other terms after the swap started: no file left behind by an earlier   *)
(* payment of the hash, and no other order of writes, makes it wrong.      *)
(***************************************************************************)
THEOREM InfoWrongOnlyIfRetypedAlways == Spec => []InfoWrongOnlyIfRetyped
<1>1. Init => FileDescribes
  BY DEF Init, FileDescribes
<1>2. IInv /\ FileDescribes /\ [Next]_vars => FileDescribes'
  BY FileStep
<1>3. FileDescribes => InfoWrongOnlyIfRetyped
  BY DEF FileDescribes, InfoWrongOnlyIfRetyped
<1> QED
  BY <1>1, <1>2, <1>3, Invariance, PTL DEF Spec

-----------------------------------------------------------------------------
(***************************************************************************)
(* Swap implements AtomicSwap, for every value of the constants.  Each     *)
(* lemma says what a group of steps of the program is in the abstract      *)
(* specification; only `taker', ForwardSwap, PaymentClaimable, failures of *)
(* forwarded HTLCs and restarts of the taker change the abstract state.    *)
(***************************************************************************)

(* The abstract state as one tuple. *)
Bar == <<whitelisted_trades, lockedBar, msatBar, rgbBar>>

(* Only the payment of h changes. *)
Only(h) ==
    \A g \in Hashes \ {h} :
      pay'[g] = pay[g] /\ htlc'[g] = htlc[g] /\ bound'[g] = bound[g]

(* Steps of payments the taker does not owe anything for. *)
LEMMA OutsideStep ==
    ASSUME NEW h \in Hashes, Only(h),
           pay[h] \notin {"queued", "leg2", "claimed"},
           pay'[h] \notin {"queued", "leg2", "claimed"},
           UNCHANGED <<whitelisted_trades, msat, rgb>>
    PROVE  UNCHANGED Bar
<1>1. lockedBar' = lockedBar
  BY DEF lockedBar, Only
<1>2. msatBar' = msatBar
  BY DEF msatBar, Owed, Only
<1>3. rgbBar' = rgbBar
  BY DEF rgbBar, Owed, Only
<1> QED
  BY <1>1, <1>2, <1>3 DEF Bar

(* Steps that touch neither the payments nor the taker's tables. *)
LEMMA InvisibleStep ==
    ASSUME UNCHANGED <<whitelisted_trades, pay, htlc, bound, msat, rgb>>
    PROVE  UNCHANGED Bar
BY DEF Bar, lockedBar, msatBar, rgbBar, Owed

(* `taker' is Accept. *)
LEMMA TakerAccepts ==
    ASSUME IInv, NEW s \in SwapStrings, taker(s)
    PROVE  Atomic!Accept(s.hash)
<1>1. FromStr(s) \in Deal /\ s.hash \in Hashes
  BY FromStrType
<1>2. /\ whitelisted_trades' = [whitelisted_trades EXCEPT ![s.hash] = FromStr(s)]
      /\ whitelisted_trades'[s.hash] = FromStr(s)
  BY <1>1 DEF taker, IInv, TypeOK
<1>3. UNCHANGED <<lockedBar, msatBar, rgbBar>>
  BY DEF taker, ledger, lockedBar, msatBar, rgbBar, Owed
<1>4. whitelisted_trades'[s.hash] \in Atomic!Deal
  BY <1>1, <1>2 DEF Deal, Atomic!Deal, SwapType, Atomic!SwapType, Sides,
                    Atomic!Sides, Amount, Atomic!Amount
<1> QED
  BY <1>2, <1>3, <1>4 DEF Atomic!Accept

(* ForwardSwap is Lock. *)
LEMMA ForwardLocks ==
    ASSUME IInv, NEW h \in Hashes, ForwardSwap(h)
    PROVE  Atomic!Lock(h)
<1>1. /\ pay[h] = "leg1" /\ pay' = [pay EXCEPT ![h] = "queued"]
      /\ whitelisted_trades[h] # NoDeal
      /\ whitelisted_trades' = [whitelisted_trades EXCEPT ![h] = NoDeal]
      /\ bound' = [bound EXCEPT ![h] = whitelisted_trades[h]]
      /\ UNCHANGED <<msat, rgb, htlc>>
  BY DEF ForwardSwap, Whitelisted, ledger
<1>2. /\ pay'[h] = "queued" /\ bound'[h] = whitelisted_trades[h]
      /\ \A g \in Hashes \ {h} : pay'[g] = pay[g] /\ bound'[g] = bound[g]
  BY <1>1 DEF IInv, TypeOK
<1>3. lockedBar[h] = NoDeal
  BY <1>1 DEF lockedBar
<1>4. lockedBar' = [lockedBar EXCEPT ![h] = whitelisted_trades[h]]
  BY <1>1, <1>2 DEF lockedBar
<1>5. msatBar' = msatBar
  BY <1>1, <1>2 DEF msatBar, Owed
<1>6. rgbBar' = rgbBar
  BY <1>1, <1>2 DEF rgbBar, Owed
<1> QED
  BY <1>1, <1>3, <1>4, <1>5, <1>6 DEF Atomic!Lock

(* A forwarded HTLC that fails is Release, one that is sent on nothing. *)
LEMMA PassOrRelease ==
    ASSUME IInv, NEW h \in Hashes, NEW p \in {"leg2", "failed"},
           pay[h] \in {"queued", "leg2"},
           pay' = [pay EXCEPT ![h] = p],
           UNCHANGED <<whitelisted_trades, htlc, bound, msat, rgb>>
    PROVE  Atomic!Release(h) \/ UNCHANGED Bar
<1>1. pay'[h] = p /\ \A g \in Hashes \ {h} : pay'[g] = pay[g]
  BY DEF IInv, TypeOK
<1>2. msatBar' = msatBar
  BY <1>1 DEF msatBar, Owed
<1>3. rgbBar' = rgbBar
  BY <1>1 DEF rgbBar, Owed
<1>4. CASE p = "leg2"
  <2>1. lockedBar' = lockedBar
    BY <1>1, <1>4 DEF lockedBar
  <2> QED
    BY <1>2, <1>3, <2>1 DEF Bar
<1>5. CASE p = "failed"
  <2>1. lockedBar' = [lockedBar EXCEPT ![h] = NoDeal]
    BY <1>1, <1>5 DEF lockedBar
  <2>2. lockedBar[h] # NoDeal
    BY DEF lockedBar, IInv, ForwardHonoursDeal, Forwarded
  <2> QED
    BY <1>2, <1>3, <2>1, <2>2 DEF Atomic!Release
<1> QED
  BY <1>4, <1>5

(* The taker's claim of the first leg was counted when it became certain. *)
LEMMA ClaimIsCounted ==
    ASSUME IInv, NEW h \in Hashes, ClaimFirstLeg(h)
    PROVE  UNCHANGED Bar
<1>1. /\ pay[h] = "claimed" /\ pay' = [pay EXCEPT ![h] = "fulfilled"]
      /\ msat' = [msat EXCEPT ![h] = @ + htlc[h].inbound_msat]
      /\ UNCHANGED <<whitelisted_trades, bound, htlc>>
  BY DEF ClaimFirstLeg, takerVars
<1>2. OneSided(htlc[h])
  BY <1>1 DEF IInv, HeldHtlcIsOneSided
<1>3. /\ htlc[h].inbound_msat \in Nat
      /\ htlc[h].inbound_rgb # None => htlc[h].inbound_rgb \in Nat
  BY <1>2 DEF OneSided, Htlc, OptAmount, Amount, None
<1>4. /\ pay'[h] = "fulfilled"
      /\ \A g \in Hashes \ {h} : pay'[g] = pay[g] /\ msat'[g] = msat[g]
      /\ msat'[h] = msat[h] + htlc[h].inbound_msat
      /\ msat[h] \in Int
  BY <1>1 DEF IInv, TypeOK
<1>5. lockedBar' = lockedBar
  BY <1>1, <1>4 DEF lockedBar
<1>6. msatBar' = msatBar
  BY <1>1, <1>3, <1>4 DEF msatBar, Owed
<1>7. \A g \in Hashes, a \in Assets :
        rgb'[g][a] = rgb[g][a] + IF /\ g = h
                                    /\ htlc[h].inbound_rgb # None
                                    /\ ContractOf[htlc[h].inbound_chan] = a
                                 THEN htlc[h].inbound_rgb ELSE 0
  BY <1>3 DEF ClaimFirstLeg, Gains, IInv, TypeOK
<1>8. \A g \in Hashes, a \in Assets : rgb[g][a] \in Int
  BY DEF IInv, TypeOK
<1>9. rgbBar' = rgbBar
  BY <1>1, <1>3, <1>4, <1>7, <1>8 DEF rgbBar, Owed
<1> QED
  BY <1>1, <1>5, <1>6, <1>9 DEF Bar

(* claim_funds is Settle: both legs count from here on. *)
LEMMA ClaimableSettles ==
    ASSUME IInv, NEW h \in Hashes, PaymentClaimable(h)
    PROVE  Atomic!Settle(h)
<1> DEFINE x == htlc[h]
           d == bound[h]
           t == bound[h].type
<1>1. /\ pay[h] = "leg2" /\ pay' = [pay EXCEPT ![h] = "claimed"]
      /\ msat' = [msat EXCEPT ![h] = @ - x.outbound_msat]
      /\ UNCHANGED <<whitelisted_trades, bound, htlc>>
  BY DEF PaymentClaimable, takerVars
<1>2. OneSided(x) /\ d # NoDeal /\ d \in Deal /\ HtlcHonours(d, x)
  BY <1>1 DEF IInv, HeldHtlcIsOneSided, ForwardHonoursDeal, Forwarded, TypeOK
<1>3. /\ x.inbound_msat \in Nat /\ x.outbound_msat \in Nat
      /\ x.inbound_rgb # None => x.inbound_rgb \in Nat
      /\ x.outbound_rgb # None => x.outbound_rgb \in Nat
      /\ x.inbound_rgb = None <=> x.outbound_rgb # None
  BY <1>2 DEF OneSided, Htlc, OptAmount, Amount, None
<1>4. /\ t.amount_rgb \in Nat /\ t.amount_msats \in Nat
      /\ t.amount_rgb # None /\ d.asset \in Assets
  BY <1>2 DEF Deal, SwapType, Amount, None
<1>5. /\ pay'[h] = "claimed"
      /\ \A g \in Hashes \ {h} : pay'[g] = pay[g] /\ msat'[g] = msat[g]
      /\ msat'[h] = msat[h] - x.outbound_msat
      /\ msat[h] \in Int
  BY <1>1 DEF IInv, TypeOK
<1>6. lockedBar[h] = d /\ lockedBar' = [lockedBar EXCEPT ![h] = NoDeal]
  BY <1>1, <1>5 DEF lockedBar
<1>7. /\ msatBar'[h] = msatBar[h] - x.outbound_msat + x.inbound_msat
      /\ msatBar' = [msatBar EXCEPT ![h] = msatBar'[h]]
  <2>1. msatBar[h] = msat[h]
    BY <1>1, <1>5 DEF msatBar, Owed
  <2>2. msatBar'[h] = msat[h] - x.outbound_msat + x.inbound_msat
    BY <1>1, <1>5 DEF msatBar, Owed
  <2>3. \A g \in Hashes \ {h} : msatBar'[g] = msatBar[g]
    BY <1>1, <1>5 DEF msatBar, Owed
  <2>4. /\ msatBar = [g \in Hashes |-> msatBar[g]]
        /\ msatBar' = [g \in Hashes |-> msatBar'[g]]
    BY DEF msatBar
  <2> QED
    BY <2>1, <2>2, <2>3, <2>4
<1>8. \A g \in Hashes, a \in Assets :
        rgb'[g][a] = rgb[g][a] - IF /\ g = h
                                    /\ x.outbound_rgb # None
                                    /\ ContractOf[x.outbound_chan] = a
                                 THEN x.outbound_rgb ELSE 0
  BY <1>3 DEF PaymentClaimable, Gains, IInv, TypeOK
<1>9. \A g \in Hashes, a \in Assets : rgb[g][a] \in Int
  BY DEF IInv, TypeOK
<1>10. \A g \in Hashes, a \in Assets :
         rgbBar'[g][a] = rgbBar[g][a]
           + (IF /\ g = h /\ x.inbound_rgb # None
                 /\ ContractOf[x.inbound_chan] = a
              THEN x.inbound_rgb ELSE 0)
           - (IF /\ g = h /\ x.outbound_rgb # None
                 /\ ContractOf[x.outbound_chan] = a
              THEN x.outbound_rgb ELSE 0)
  <2>1. SUFFICES ASSUME NEW g \in Hashes, NEW a \in Assets
                 PROVE  rgbBar'[g][a] = rgbBar[g][a]
           + (IF /\ g = h /\ x.inbound_rgb # None
                 /\ ContractOf[x.inbound_chan] = a
              THEN x.inbound_rgb ELSE 0)
           - (IF /\ g = h /\ x.outbound_rgb # None
                 /\ ContractOf[x.outbound_chan] = a
              THEN x.outbound_rgb ELSE 0)
    OBVIOUS
  <2>2. CASE g = h
    BY <1>1, <1>3, <1>5, <1>8, <1>9, <2>2 DEF rgbBar, Owed
  <2>3. CASE g # h
    <3>1. rgbBar'[g][a] = rgbBar[g][a]
      BY <1>1, <1>5, <1>8, <1>9, <2>3 DEF rgbBar, Owed
    <3>2. rgbBar[g][a] \in Int
      <4>1. CASE Owed(g)
        <5>1. OneSided(htlc[g])
          BY <4>1 DEF Owed, IInv, HeldHtlcIsOneSided
        <5>2. htlc[g].inbound_rgb # None => htlc[g].inbound_rgb \in Int
          BY <5>1 DEF OneSided, Htlc, OptAmount, Amount
        <5> QED
          BY <1>9, <5>2 DEF rgbBar
      <4>2. CASE ~Owed(g)
        BY <1>9, <4>2 DEF rgbBar
      <4> QED
        BY <4>1, <4>2
    <3> QED
      BY <2>3, <3>1, <3>2
  <2> QED
    BY <2>2, <2>3
<1>11. /\ DOMAIN rgbBar = Hashes /\ DOMAIN rgbBar' = Hashes
       /\ rgbBar = [g \in Hashes |-> [a \in Assets |-> rgbBar[g][a]]]
       /\ rgbBar' = [g \in Hashes |-> [a \in Assets |-> rgbBar'[g][a]]]
  BY DEF rgbBar
<1>12. \A a \in Assets : rgbBar[h][a] \in Int
  BY <1>1, <1>9 DEF rgbBar, Owed
<1>13. \A g \in Hashes \ {h}, a \in Assets : rgbBar'[g][a] = rgbBar[g][a]
  BY <1>1, <1>5, <1>8, <1>9 DEF rgbBar, Owed
<1>14. msatBar[h] \in Int
  BY <1>1, <1>5 DEF msatBar, Owed
<1>15. CASE is_buy(t)
  <2>1. /\ x.inbound_rgb = t.amount_rgb
        /\ ContractOf[x.inbound_chan] = d.asset
        /\ x.outbound_rgb = None
        /\ x.outbound_msat - x.inbound_msat <= t.amount_msats
    BY <1>2, <1>15 DEF HtlcHonours
  <2>2. msatBar'[h] >= msatBar[h] - t.amount_msats
    BY <1>3, <1>4, <1>7, <1>14, <2>1
  <2>3. \A a \in Assets :
          rgbBar'[h][a] = IF a = d.asset THEN rgbBar[h][a] + t.amount_rgb
                                         ELSE rgbBar[h][a]
    BY <1>4, <1>10, <1>12, <2>1
  <2>4. rgbBar' = [rgbBar EXCEPT ![h][d.asset] = @ + t.amount_rgb]
    BY <1>4, <1>11, <1>13, <2>3
  <2>5. Atomic!is_buy(lockedBar[h].type)
    BY <1>6, <1>15 DEF is_buy, Atomic!is_buy
  <2> QED
    BY <1>1, <1>2, <1>6, <1>7, <2>2, <2>4, <2>5 DEF Atomic!Settle
<1>16. CASE ~is_buy(t)
  <2>1. /\ x.outbound_rgb = t.amount_rgb
        /\ ContractOf[x.outbound_chan] = d.asset
        /\ x.inbound_rgb = None
        /\ x.inbound_msat - x.outbound_msat >= t.amount_msats
    BY <1>2, <1>16 DEF HtlcHonours
  <2>2. msatBar'[h] >= msatBar[h] + t.amount_msats
    BY <1>3, <1>4, <1>7, <1>14, <2>1
  <2>3. \A a \in Assets :
          rgbBar'[h][a] = IF a = d.asset THEN rgbBar[h][a] - t.amount_rgb
                                         ELSE rgbBar[h][a]
    BY <1>4, <1>10, <1>12, <2>1
  <2>4. rgbBar' = [rgbBar EXCEPT ![h][d.asset] = @ - t.amount_rgb]
    BY <1>4, <1>11, <1>13, <2>3
  <2>5. ~Atomic!is_buy(lockedBar[h].type)
    BY <1>6, <1>16 DEF is_buy, Atomic!is_buy
  <2> QED
    BY <1>1, <1>2, <1>6, <1>7, <2>2, <2>4, <2>5 DEF Atomic!Settle
<1> QED
  BY <1>15, <1>16

(* A restart of the taker is Restart, as are its panics. *)
LEMMA TakerForgetsRestarts ==
    ASSUME IInv, NEW lost \in SUBSET Queued, TakerForgets(lost)
    PROVE  Atomic!Restart
<1>1. /\ whitelisted_trades' = [h \in Hashes |-> NoDeal]
      /\ \A h \in Hashes : pay'[h] = IF h \in lost THEN "leg1" ELSE pay[h]
      /\ \A h \in lost : h \in Hashes /\ pay[h] = "queued"
      /\ UNCHANGED <<htlc, bound, msat, rgb>>
  BY DEF TakerForgets, ledger, Queued
<1>2. msatBar' = msatBar
  BY <1>1 DEF msatBar, Owed
<1>3. rgbBar' = rgbBar
  BY <1>1 DEF rgbBar, Owed
<1>4. lockedBar' = [h \in Hashes |-> IF h \in lost THEN NoDeal ELSE lockedBar[h]]
  BY <1>1 DEF lockedBar
<1>5. lost \in SUBSET Hashes
  BY DEF Queued
<1> QED
  BY <1>1, <1>2, <1>3, <1>4, <1>5 DEF Atomic!Restart

(* A restart of the maker is nothing to the taker. *)
LEMMA MakerRestartInvisible ==
    ASSUME IInv, MakerRestart
    PROVE  UNCHANGED Bar
<1>1. /\ \A h \in Hashes : \/ pay'[h] = pay[h]
                           \/ pay[h] = "remembered" /\ pay'[h] = "fulfilled"
      /\ UNCHANGED <<whitelisted_trades, htlc, bound, msat, rgb>>
  BY DEF MakerRestart, takerVars, ledger
<1>2. lockedBar' = lockedBar
  BY <1>1 DEF lockedBar
<1>3. msatBar' = msatBar
  BY <1>1 DEF msatBar, Owed
<1>4. rgbBar' = rgbBar
  BY <1>1 DEF rgbBar, Owed
<1> QED
  BY <1>1, <1>2, <1>3, <1>4 DEF Bar

-----------------------------------------------------------------------------
(* Every step of the program is a step of the abstract specification or    *)
(* leaves its state alone.                                                 *)
LEMMA StepRefines ==
    ASSUME IInv, Next
    PROVE  Atomic!ANext \/ UNCHANGED Bar
<1> USE DEF makerVars, takerVars, ledger
<1>1. CASE Tick
  BY <1>1, InvisibleStep DEF Tick
<1>2. ASSUME NEW s \in SwapStrings, makerinit(s)
      PROVE  UNCHANGED Bar
  BY <1>2, InvisibleStep DEF makerinit
<1>3. ASSUME NEW s \in SwapStrings, taker(s)
      PROVE  Atomic!ANext
  BY <1>3, TakerAccepts, FromStrType DEF Atomic!ANext
<1>4. ASSUME NEW s \in SwapStrings, makerexecute(s)
      PROVE  UNCHANGED Bar
  <2>1. s.hash \in Hashes
    BY FromStrType
  <2>2. UNCHANGED <<whitelisted_trades, bound, msat, rgb>>
    BY <1>4 DEF makerexecute
  <2>3. CASE UNCHANGED <<pay, htlc>>
    BY <2>2, <2>3, InvisibleStep
  <2>4. CASE ~UNCHANGED <<pay, htlc>>
    <3>1. PICK x : /\ pay[s.hash] = "none"
                   /\ pay' = [pay EXCEPT ![s.hash] = "leg1"]
                   /\ htlc' = [htlc EXCEPT ![s.hash] = x]
      BY <1>4, <2>4 DEF makerexecute
    <3>2. pay'[s.hash] = "leg1" /\ Only(s.hash)
      BY <2>1, <2>2, <3>1 DEF IInv, TypeOK, Only
    <3> QED
      BY <2>1, <2>2, <3>1, <3>2, OutsideStep
  <2> QED
    BY <2>3, <2>4
<1>5. ASSUME NEW h \in Hashes, RejectSwap(h) \/ PaymentSent(h)
      PROVE  UNCHANGED Bar
  <2>1. pay'[h] \in {"failed", "remembered"} /\ Only(h)
    BY <1>5 DEF IInv, TypeOK, RejectSwap, PaymentSent, Only
  <2> QED
    BY <1>5, <2>1, OutsideStep DEF RejectSwap, PaymentSent
<1>6. ASSUME NEW h \in Hashes, ForwardSwap(h)
      PROVE  Atomic!ANext
  BY <1>6, ForwardLocks DEF Atomic!ANext
<1>7. ASSUME NEW h \in Hashes, PendingHTLCsForwardable(h)
      PROVE  Atomic!ANext \/ UNCHANGED Bar
  <2>1. Atomic!Release(h) \/ UNCHANGED Bar
    BY <1>7, PassOrRelease DEF PendingHTLCsForwardable
  <2> QED
    BY <2>1 DEF Atomic!ANext
<1>8. ASSUME NEW h \in Hashes, PaymentClaimable(h)
      PROVE  Atomic!ANext
  BY <1>8, ClaimableSettles DEF Atomic!ANext
<1>9. ASSUME NEW h \in Hashes, PaymentClaimed(h)
      PROVE  UNCHANGED Bar
  BY <1>9, InvisibleStep DEF PaymentClaimed
<1>10. ASSUME NEW h \in Hashes, PaymentFailed(h) \/ ForgetPaymentId(h)
       PROVE  UNCHANGED Bar
  <2>1. pay'[h] = "none" /\ Only(h)
    BY <1>10 DEF IInv, TypeOK, PaymentFailed, ForgetPaymentId, Only
  <2> QED
    BY <1>10, <2>1, OutsideStep DEF PaymentFailed, ForgetPaymentId
<1>11. ASSUME NEW h \in Hashes, HtlcTimesOut(h)
       PROVE  Atomic!ANext \/ UNCHANGED Bar
  <2>1. CASE pay[h] = "leg2"
    <3>1. Atomic!Release(h) \/ UNCHANGED Bar
      BY <1>11, <2>1, PassOrRelease DEF HtlcTimesOut
    <3> QED
      BY <3>1 DEF Atomic!ANext
  <2>2. CASE pay[h] = "leg1"
    <3>1. pay'[h] = "failed" /\ Only(h)
      BY <1>11 DEF IInv, TypeOK, HtlcTimesOut, Only
    <3> QED
      BY <1>11, <2>2, <3>1, OutsideStep DEF HtlcTimesOut
  <2> QED
    BY <1>11, <2>1, <2>2 DEF HtlcTimesOut
<1>12. ASSUME NEW c \in Channels, closechannel(c) \/ forceclosechannel(c)
       PROVE  UNCHANGED Bar
  BY <1>12, InvisibleStep DEF closechannel, forceclosechannel
<1>13. ASSUME TakerRestart \/ \E h \in Hashes : InterceptPanics(h)
       PROVE  Atomic!ANext
  BY <1>13, TakerForgetsRestarts DEF TakerRestart, InterceptPanics, Atomic!ANext
<1>14. CASE MakerRestart
  BY <1>14, MakerRestartInvisible
<1>15. ASSUME NEW a \in Assets, NEW n \in TakerBalances[a], BalanceChanges(a, n)
       PROVE  UNCHANGED Bar
  BY <1>15, InvisibleStep DEF BalanceChanges
<1> QED
  BY <1>1, <1>2, <1>3, <1>4, <1>5, <1>6, <1>7, <1>8, <1>9, <1>10, <1>11, <1>12,
     <1>13, <1>14, <1>15, ClaimIsCounted
     DEF Next, Commands, TakerHandlers, MakerHandlers

(***************************************************************************)
(* The swap protocol implements AtomicSwap: the taker's balances move only *)
(* when a deal it accepted is settled, both legs together and once,        *)
(* whatever the maker executes, whichever node restarts and whatever       *)
(* HTLCIntercepted event is delivered again.                               *)
(***************************************************************************)
THEOREM SwapImplementsAtomicSwap == Spec => ImplementsAtomicSwap
<1>1. Init => Atomic!AInit
  <2> SUFFICES ASSUME Init PROVE Atomic!AInit
    OBVIOUS
  <2>1. \A h \in Hashes : /\ pay[h] = "none" /\ msat[h] = 0
                          /\ \A a \in Assets : rgb[h][a] = 0
    BY DEF Init
  <2>2. lockedBar = [h \in Hashes |-> NoDeal]
    BY <2>1 DEF lockedBar
  <2>3. msatBar = [h \in Hashes |-> 0]
    BY <2>1 DEF msatBar, Owed
  <2>4. rgbBar = [h \in Hashes |-> [a \in Assets |-> 0]]
    BY <2>1 DEF rgbBar, Owed
  <2> QED
    BY <2>2, <2>3, <2>4 DEF Atomic!AInit, Init
<1>2. IInv /\ [Next]_vars => [Atomic!ANext]_(Atomic!avars)
  <2> SUFFICES ASSUME IInv, [Next]_vars
               PROVE  Atomic!ANext \/ UNCHANGED Bar
    BY DEF Bar, Atomic!avars
  <2>1. CASE Next
    BY <2>1, StepRefines
  <2>2. CASE UNCHANGED vars
    BY <2>2, InvisibleStep DEF vars
  <2> QED
    BY <2>1, <2>2
<1> QED
  BY <1>1, <1>2, Invariance, PTL DEF Spec, ImplementsAtomicSwap, Atomic!ASpec
=============================================================================
