----------------------------- MODULE MCPayments -----------------------------
(* Small instances of Payments for TLC. *)
EXTENDS Payments

CONSTANTS o1, o2, i1, i2

MCOutgoing == {o1, o2}
MCIncoming == {i1, i2}
=============================================================================
