------------------------------ MODULE Payments ------------------------------
(***************************************************************************)
(* What a node remembers of its payments.  inbound_payments and            *)
(* outbound_payments (src/src/main.rs, `Step 18') are in-memory tables     *)
(* written by the commands sendpayment, keysend, makerexecute and          *)
(* getinvoice (src/src/cli.rs) and by the payment events                   *)
(* (handle_ldk_events, src/src/main.rs), and shown by listpayments and     *)
(* invoicestatus.  Commands and events run in different threads.           *)
(*                                                                         *)
(* ldk_out[h] and ldk_in[h] are what the channel manager knows, which      *)
(* survives restarts.                                                      *)
(*   ldk_out: idle, inflight, sent (PaymentSent pending), remembered       *)
(*            (PaymentSent handled, the PaymentId still taken), failed     *)
(*            (PaymentFailed pending)                                      *)
(*   ldk_in:  none, open (can be paid), claimable (PaymentClaimable        *)
(*            pending), claimed (PaymentClaimed pending), done             *)
(***************************************************************************)
EXTENDS Integers

CONSTANTS
    Outgoing,    \* payment hashes of payments this node sends
    Incoming,    \* payment hashes it is paid with: invoices and keysends
    Restarts,    \* may the process restart?
    Resend       \* may a user send the same hash again?

ASSUME PaymentsAssumption == Restarts \in BOOLEAN /\ Resend \in BOOLEAN

VARIABLES
    outbound_payments,  \* HTLCStatus of each outgoing hash, or "absent"
    inbound_payments,   \* the same for incoming hashes
    ldk_out, ldk_in,    \* see above
    cli,                \* the send whose record is not yet inserted, or Idle
    used,               \* history: hashes a send command was given
    paid,               \* history: outgoing hashes that were really paid
    early               \* history: hashes whose result came before the record

vars == <<outbound_payments, inbound_payments, ldk_out, ldk_in, cli, used,
          paid, early>>

HTLCStatus == {"Pending", "Succeeded", "Failed"}
Idle == [hash |-> "none", status |-> "none"]

TypeOK ==
    /\ outbound_payments \in [Outgoing -> HTLCStatus \cup {"absent"}]
    /\ inbound_payments \in [Incoming -> HTLCStatus \cup {"absent"}]
    /\ ldk_out \in [Outgoing ->
                      {"idle", "inflight", "sent", "remembered", "failed"}]
    /\ ldk_in \in [Incoming ->
                     {"none", "open", "claimable", "claimed", "done"}]
    /\ cli \in [hash : Outgoing, status : HTLCStatus] \cup {Idle}
    /\ used \subseteq Outgoing
    /\ paid \subseteq Outgoing
    /\ early \subseteq Outgoing

Init ==
    /\ outbound_payments = [h \in Outgoing |-> "absent"]
    /\ inbound_payments = [h \in Incoming |-> "absent"]
    /\ ldk_out = [h \in Outgoing |-> "idle"]
    /\ ldk_in = [h \in Incoming |-> "none"]
    /\ cli = Idle
    /\ used = {}
    /\ paid = {}
    /\ early = {}

inVars == <<inbound_payments, ldk_in>>

-----------------------------------------------------------------------------
(* Sending: sendpayment, keysend, coloredkeysend and makerexecute alike.   *)

(* pay_invoice, send_spontaneous_payment(_with_retry): refused while the   *)
(* PaymentId is taken, and possibly for want of a route.  The record is    *)
(* not touched yet.                                                        *)
SendCall(h) ==
    /\ cli = Idle
    /\ Resend \/ h \notin used
    /\ used' = used \cup {h}
    /\ \/ /\ ldk_out[h] = "idle"                        \* Ok
          /\ ldk_out' = [ldk_out EXCEPT ![h] = "inflight"]
          /\ cli' = [hash |-> h, status |-> "Pending"]
          /\ early' = early \ {h}
       \/ /\ cli' = [hash |-> h, status |-> "Failed"]    \* Err
          /\ UNCHANGED <<ldk_out, early>>
    /\ UNCHANGED <<outbound_payments, inVars, paid>>

(* payments.insert: replaces whatever record there is. *)
InsertRecord ==
    /\ cli # Idle
    /\ outbound_payments' =
         [outbound_payments EXCEPT ![cli.hash] = cli.status]
    /\ cli' = Idle
    /\ UNCHANGED <<inVars, ldk_out, used, paid, early>>

(* External: the payee claims the payment, or it fails for good. *)
PaymentFulfilled(h) ==
    /\ ldk_out[h] = "inflight"
    /\ ldk_out' = [ldk_out EXCEPT ![h] = "sent"]
    /\ paid' = paid \cup {h}
    /\ UNCHANGED <<outbound_payments, inVars, cli, used, early>>

PaymentAbandoned(h) ==
    /\ ldk_out[h] = "inflight"
    /\ ldk_out' = [ldk_out EXCEPT ![h] = "failed"]
    /\ UNCHANGED <<outbound_payments, inVars, cli, used, paid, early>>

(* The record's insertion is still to come. *)
ComesEarly(h) == cli # Idle /\ cli.hash = h /\ cli.status = "Pending"

(* A handler that finds a record sets its status, and does nothing         *)
(* otherwise.                                                              *)
SetIfPresent(h, status) ==
    outbound_payments' =
      IF outbound_payments[h] # "absent"
      THEN [outbound_payments EXCEPT ![h] = status]
      ELSE outbound_payments

(* Mutant: the handler only marks the event as seen. *)
PaymentSentUnrecorded(h) ==
    /\ ldk_out[h] = "sent"
    /\ ldk_out' = [ldk_out EXCEPT ![h] = "remembered"]
    /\ early' = IF ComesEarly(h) THEN early \cup {h} ELSE early
    /\ UNCHANGED <<outbound_payments, inVars, cli, used, paid>>

PaymentSent(h) ==
    /\ ldk_out[h] = "sent"
    /\ SetIfPresent(h, "Succeeded")
    /\ ldk_out' = [ldk_out EXCEPT ![h] = "remembered"]
    /\ early' = IF ComesEarly(h) THEN early \cup {h} ELSE early
    /\ UNCHANGED <<inVars, cli, used, paid>>

(* Mutant: the two handlers' statuses are exchanged. *)
PaymentFailedAsSucceeded(h) ==
    /\ ldk_out[h] = "failed"
    /\ SetIfPresent(h, "Succeeded")
    /\ ldk_out' = [ldk_out EXCEPT ![h] = "idle"]
    /\ early' = IF ComesEarly(h) THEN early \cup {h} ELSE early
    /\ UNCHANGED <<inVars, cli, used, paid>>

(* Mutant: the reason of the failure is stored as the status. *)
PaymentFailedWithReason(h) ==
    /\ ldk_out[h] = "failed"
    /\ SetIfPresent(h, "RetriesExhausted")
    /\ ldk_out' = [ldk_out EXCEPT ![h] = "idle"]
    /\ early' = IF ComesEarly(h) THEN early \cup {h} ELSE early
    /\ UNCHANGED <<inVars, cli, used, paid>>

PaymentFailed(h) ==
    /\ ldk_out[h] = "failed"
    /\ SetIfPresent(h, "Failed")
    /\ ldk_out' = [ldk_out EXCEPT ![h] = "idle"]
    /\ early' = IF ComesEarly(h) THEN early \cup {h} ELSE early
    /\ UNCHANGED <<inVars, cli, used, paid>>

(* External: a settled PaymentId is forgotten after some timer ticks. *)
ForgetPaymentId(h) ==
    /\ ldk_out[h] = "remembered"
    /\ ldk_out' = [ldk_out EXCEPT ![h] = "idle"]
    /\ UNCHANGED <<outbound_payments, inVars, cli, used, paid, early>>

-----------------------------------------------------------------------------
(* Receiving. *)

outVars == <<outbound_payments, ldk_out, used, paid, early>>

(* getinvoice holds the table's lock from before the invoice exists until  *)
(* its record is inserted.                                                 *)
getinvoice(h) ==
    /\ cli = Idle
    /\ ldk_in[h] = "none"
    /\ ldk_in' = [ldk_in EXCEPT ![h] = "open"]
    /\ inbound_payments' = [inbound_payments EXCEPT ![h] = "Pending"]
    /\ UNCHANGED <<outVars, cli>>

(* External: an HTLC for the invoice, or a keysend, arrives. *)
HtlcArrives(h) ==
    /\ ldk_in[h] \in {"none", "open"}
    /\ ldk_in' = [ldk_in EXCEPT ![h] = "claimable"]
    /\ UNCHANGED <<outVars, cli, inbound_payments>>

(* PaymentClaimable: claim_funds. *)
PaymentClaimable(h) ==
    /\ ldk_in[h] = "claimable"
    /\ ldk_in' = [ldk_in EXCEPT ![h] = "claimed"]
    /\ UNCHANGED <<outVars, cli, inbound_payments>>

(* Mutant: only payments that have a record are recorded. *)
PaymentClaimedIfPresent(h) ==
    /\ ldk_in[h] = "claimed"
    /\ ldk_in' = [ldk_in EXCEPT ![h] = "done"]
    /\ inbound_payments' =
         IF inbound_payments[h] # "absent"
         THEN [inbound_payments EXCEPT ![h] = "Succeeded"]
         ELSE inbound_payments
    /\ UNCHANGED <<outVars, cli>>

(* PaymentClaimed: the record is updated, or inserted. *)
PaymentClaimed(h) ==
    /\ ldk_in[h] = "claimed"
    /\ ldk_in' = [ldk_in EXCEPT ![h] = "done"]
    /\ inbound_payments' = [inbound_payments EXCEPT ![h] = "Succeeded"]
    /\ UNCHANGED <<outVars, cli>>

-----------------------------------------------------------------------------
(* The tables start empty; an event that was handled but not saved as      *)
(* handled is delivered again.                                             *)
Restart ==
    /\ Restarts
    /\ outbound_payments' = [h \in Outgoing |-> "absent"]
    /\ inbound_payments' = [h \in Incoming |-> "absent"]
    /\ cli' = Idle
    /\ \E again \in SUBSET {h \in Outgoing : ldk_out[h] = "remembered"} :
         ldk_out' = [h \in Outgoing |-> IF h \in again THEN "sent" ELSE ldk_out[h]]
    /\ \E again \in SUBSET {h \in Incoming : ldk_in[h] = "done"} :
         ldk_in' = [h \in Incoming |-> IF h \in again THEN "claimed" ELSE ldk_in[h]]
    /\ UNCHANGED <<used, paid, early>>

OutEvents(h) == PaymentSent(h) \/ PaymentFailed(h)
InEvents(h) == PaymentClaimable(h) \/ PaymentClaimed(h)

Next ==
    \/ InsertRecord
    \/ \E h \in Outgoing : \/ SendCall(h)
                           \/ PaymentFulfilled(h)
                           \/ PaymentAbandoned(h)
                           \/ OutEvents(h)
                           \/ ForgetPaymentId(h)
    \/ \E h \in Incoming : getinvoice(h) \/ HtlcArrives(h) \/ InEvents(h)
    \/ Restart

Spec == Init /\ [][Next]_vars

(* A started command ends, HTLCs are resolved, events are handled. *)
Fairness ==
    /\ WF_vars(InsertRecord)
    /\ \A h \in Outgoing : /\ WF_vars(PaymentFulfilled(h) \/ PaymentAbandoned(h))
                           /\ WF_vars(OutEvents(h))
    /\ \A h \in Incoming : WF_vars(InEvents(h))

FairSpec == Spec /\ Fairness

-----------------------------------------------------------------------------
(* Properties. *)

(* listpayments never shows an outgoing payment as succeeded that was not  *)
(* paid, however sends of the same hash, events and restarts interleave.   *)
SucceededWasPaid ==
    \A h \in Outgoing : outbound_payments[h] = "Succeeded" => h \in paid

(* A record that stays Pending although the channel manager is done with   *)
(* the payment has one cause: the event was handled between the send and   *)
(* the insertion of the record.                                            *)
StuckPendingCameEarly ==
    \A h \in Outgoing :
      /\ outbound_payments[h] = "Pending"
      /\ ldk_out[h] \in {"idle", "remembered"}
      => h \in early

(* An incoming payment that can be claimed shows up as succeeded, with or  *)
(* without an invoice and however often a restart empties the table on the *)
(* way: PaymentClaimed needs no record to update.                          *)
ClaimedIsRecorded ==
    \A h \in Incoming :
      ldk_in[h] = "claimable" ~> inbound_payments[h] = "Succeeded"

-----------------------------------------------------------------------------
(* What the repository says or asserts and the model refutes (README). *)

(* tests/common.sh waits for "EVENT: successfully sent payment" after      *)
(* every sendpayment and keysend: a payment that was paid and is listed    *)
(* gets the status Succeeded.                                              *)
SentPaymentIsReported ==
    \A h \in Outgoing :
      (h \in paid /\ outbound_payments[h] = "Pending")
        ~> outbound_payments[h] = "Succeeded"
=============================================================================
