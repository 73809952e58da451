--------------------------- MODULE PaymentsProofs ---------------------------
(***************************************************************************)
(* Proofs about Payments for any number of payments, with or without       *)
(* resends and restarts.                                                   *)
(*                                                                         *)
(* The properties are not inductive: what the tables say depends on what   *)
(* the channel manager and the unfinished command still hold.  IInv adds   *)
(* that a payment the channel manager counts as sent was paid, and that an *)
(* unfinished command whose payment is already over had its event early.   *)
(***************************************************************************)
EXTENDS Payments, TLAPS

(* A payment whose PaymentSent is pending or handled was paid. *)
SentIsPaid ==
    \A h \in Outgoing : ldk_out[h] \in {"sent", "remembered"} => h \in paid

(* A command that still has to insert a Pending record for a payment that  *)
(* is over has missed its event.                                           *)
LateInsert ==
    cli.status = "Pending" =>
      /\ cli.hash \in Outgoing
      /\ ldk_out[cli.hash] \in {"idle", "remembered"} => cli.hash \in early

(* No command inserts a record as succeeded. *)
InsertsNoSuccess == cli.status # "Succeeded"

IInv ==
    /\ TypeOK
    /\ SentIsPaid
    /\ LateInsert
    /\ InsertsNoSuccess
    /\ SucceededWasPaid
    /\ StuckPendingCameEarly

(* No payment is recorded at the start. *)
LEMMA InitIInv == Init => IInv
BY DEF Init, IInv, TypeOK, SentIsPaid, LateInsert, InsertsNoSuccess,
       SucceededWasPaid, StuckPendingCameEarly, Idle, HTLCStatus

USE DEF IInv, TypeOK, SentIsPaid, LateInsert, InsertsNoSuccess,
        SucceededWasPaid, StuckPendingCameEarly, HTLCStatus, Idle, inVars

(* A send command, up to the call of the channel manager. *)
LEMMA SendCallStep ==
    ASSUME IInv, NEW h \in Outgoing, SendCall(h)
    PROVE  IInv'
BY DEF SendCall

(* Its end. *)
LEMMA InsertStep ==
    ASSUME IInv, InsertRecord
    PROVE  IInv'
BY DEF InsertRecord

(* The channel manager's own steps. *)
LEMMA ManagerStep ==
    ASSUME IInv, NEW h \in Outgoing,
           PaymentFulfilled(h) \/ PaymentAbandoned(h) \/ ForgetPaymentId(h)
    PROVE  IInv'
<1>1. CASE PaymentFulfilled(h)
  BY <1>1 DEF PaymentFulfilled
<1>2. CASE PaymentAbandoned(h)
  BY <1>2 DEF PaymentAbandoned
<1>3. CASE ForgetPaymentId(h)
  BY <1>3 DEF ForgetPaymentId
<1> QED
  BY <1>1, <1>2, <1>3

(* The handlers of the two outcomes. *)
LEMMA EventStep ==
    ASSUME IInv, NEW h \in Outgoing, OutEvents(h)
    PROVE  IInv'
<1>1. CASE PaymentSent(h)
  BY <1>1 DEF PaymentSent, SetIfPresent, ComesEarly
<1>2. CASE PaymentFailed(h)
  BY <1>2 DEF PaymentFailed, SetIfPresent, ComesEarly
<1> QED
  BY <1>1, <1>2 DEF OutEvents

(* Incoming payments leave the outgoing ones alone. *)
LEMMA IncomingStep ==
    ASSUME IInv, NEW h \in Incoming,
           getinvoice(h) \/ HtlcArrives(h) \/ InEvents(h)
    PROVE  IInv'
<1> USE DEF outVars
<1>1. CASE getinvoice(h)
  BY <1>1 DEF getinvoice
<1>2. CASE HtlcArrives(h)
  BY <1>2 DEF HtlcArrives
<1>3. CASE PaymentClaimable(h)
  BY <1>3 DEF PaymentClaimable
<1>4. CASE PaymentClaimed(h)
  BY <1>4 DEF PaymentClaimed
<1> QED
  BY <1>1, <1>2, <1>3, <1>4 DEF InEvents

(* A restart empties the tables and forgets the command. *)
LEMMA RestartStep ==
    ASSUME IInv, Restart
    PROVE  IInv'
BY DEF Restart

(* The invariant holds in every state. *)
THEOREM Invariance == Spec => []IInv
<1>1. IInv /\ [Next]_vars => IInv'
  <2> SUFFICES ASSUME IInv, [Next]_vars PROVE IInv'
    OBVIOUS
  <2>1. CASE Next
    BY <2>1, InsertStep, SendCallStep, ManagerStep, EventStep, IncomingStep,
       RestartStep DEF Next
  <2>2. CASE UNCHANGED vars
    BY <2>2 DEF vars
  <2> QED
    BY <2>1, <2>2
<1> QED
  BY InitIInv, <1>1, PTL DEF Spec

(* The tables, the channel manager's states and the unfinished command     *)
(* keep their types.                                                       *)
THEOREM TypeCorrect == Spec => []TypeOK
BY Invariance, PTL

(* listpayments never shows a payment as succeeded that was not paid.      *)
THEOREM SucceededWasPaidAlways == Spec => []SucceededWasPaid
BY Invariance, PTL

(* A record is stuck as pending only because PaymentSent or PaymentFailed  *)
(* was handled before send_payment, keysend or maker_execute inserted it.  *)
THEOREM StuckPendingCameEarlyAlways == Spec => []StuckPendingCameEarly
BY Invariance, PTL
=============================================================================
