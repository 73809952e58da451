-------------------------- MODULE MCChannelFunding --------------------------
(* Small instances of ChannelFunding for TLC. *)
EXTENDS ChannelFunding

CONSTANTS ch1, ch2

TwoChannels == {ch1, ch2}

(* Two of the larger amount do not fit, nor does one after a send of one. *)
Amounts == [ch \in TwoChannels |-> IF ch = ch1 THEN 2 ELSE 1]

(* A supply on two outputs: fundings with and without change, of one or of *)
(* both outputs.                                                           *)
TwoOutputs == <<2, 1>>
=============================================================================
