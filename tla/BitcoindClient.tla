--------------------------- MODULE BitcoindClient ---------------------------
(***************************************************************************)
(* The fee rates of the Bitcoin Core client (src/src/bitcoind_client.rs,   *)
(* src/src/convert.rs).                                                    *)
(*                                                                         *)
(* A task asks Core for three estimates, one after the other, and then     *)
(* stores the three rates, each an atomic of its own; the library reads    *)
(* one at a time, whenever it likes.  A request that fails aborts the      *)
(* process.                                                                *)
(***************************************************************************)
EXTENDS Integers

CONSTANTS
    Answers,     \* estimates Core may give, in satoshis per 1000 vbytes
    NoEstimate,  \* Core has none
    MaxRounds    \* bound on polls

ASSUME BitcoindClientAssumption ==
    Answers \subseteq Nat /\ NoEstimate \notin Nat /\ MaxRounds \in Nat \ {0}

MIN_FEERATE == 253

Order == <<"Background", "Normal", "HighPriority">>
Targets == {Order[i] : i \in 1 .. 3}

default == [Background |-> MIN_FEERATE, Normal |-> 2000, HighPriority |-> 5000]

VARIABLES
    fees,      \* fees[t]: the rate
    stored,    \* history: stored[t], the round fees[t] was asked in
    poll,      \* the task: [at, round, next], next an index in Order
    estimate   \* its local variables

clientVars == <<fees, stored, poll, estimate>>

ClientTypeOK ==
    /\ fees \in [Targets -> Nat] /\ estimate \in [Targets -> Nat]
    /\ stored \in [Targets -> 0 .. MaxRounds]
    /\ poll \in [at : {"ask", "store", "sleep", "aborted"},
                 round : 1 .. MaxRounds, next : 1 .. 3]

ClientInit ==
    /\ fees = default
    /\ stored = [t \in Targets |-> 0]
    /\ poll = [at |-> "ask", round |-> 1, next |-> 1]
    /\ estimate = [t \in Targets |-> 0]

(* From satoshis per 1000 vbytes to satoshis per 1000 weight units, to the *)
(* nearest.  (The cast to 32 bits would saturate at 171 bitcoins per 1000  *)
(* vbytes.)                                                                *)
feerate_sat_per_kw(a) == (a + 2) \div 4

(* Mutant: the answer is taken as it is. *)
RateUnbounded(t, a) ==
    IF a = NoEstimate THEN default[t] ELSE feerate_sat_per_kw(a)

Rate(t, a) ==
    IF a = NoEstimate THEN default[t]
    ELSE IF feerate_sat_per_kw(a) > MIN_FEERATE THEN feerate_sat_per_kw(a)
    ELSE MIN_FEERATE

(* The next step of the three that belong together, then what follows. *)
Advance(then) ==
    poll' = IF poll.next < 3 THEN [poll EXCEPT !.next = @ + 1]
            ELSE [poll EXCEPT !.at = then, !.next = 1]

(* Mutant: every rate is stored as soon as it is known. *)
AskAndStore(a) ==
    LET t == Order[poll.next] IN
    /\ poll.at = "ask"
    /\ estimate' = [estimate EXCEPT ![t] = Rate(t, a)]
    /\ fees' = [fees EXCEPT ![t] = Rate(t, a)]
    /\ stored' = [stored EXCEPT ![t] = poll.round]
    /\ Advance("store")

(* An estimatesmartfee request is answered. *)
Ask(a) ==
    LET t == Order[poll.next] IN
    /\ poll.at = "ask"
    /\ estimate' = [estimate EXCEPT ![t] = Rate(t, a)]
    /\ Advance("store")
    /\ UNCHANGED <<fees, stored>>

AskFails ==
    /\ poll.at = "ask"
    /\ poll' = [poll EXCEPT !.at = "aborted"]
    /\ UNCHANGED <<fees, stored, estimate>>

Store ==
    LET t == Order[poll.next] IN
    /\ poll.at = "store"
    /\ fees' = [fees EXCEPT ![t] = estimate[t]]
    /\ stored' = [stored EXCEPT ![t] = poll.round]
    /\ Advance("sleep")
    /\ UNCHANGED estimate

Wake ==
    /\ poll.at = "sleep" /\ poll.round < MaxRounds    \* bound on polls
    /\ poll' = [at |-> "ask", round |-> poll.round + 1, next |-> 1]
    /\ UNCHANGED <<fees, stored, estimate>>

ClientNext ==
    (\E a \in Answers \cup {NoEstimate} : Ask(a)) \/ AskFails \/ Store \/ Wake

ClientSpec == ClientInit /\ [][ClientNext]_clientVars

-----------------------------------------------------------------------------
(* Properties. *)

(* A reader meets rates of different polls only while the three stores     *)
(* run, never during a request or the minute of sleep; and no rate is      *)
(* older than the poll before.                                             *)
RatesOfOnePoll ==
    /\ poll.at \in {"ask", "sleep", "aborted"} =>
         \A s, t \in Targets : stored[s] = stored[t]
    /\ \A t \in Targets : poll.round - stored[t] <= 1

(* Whatever Core answers, get_est_sat_per_1000_weight never returns less   *)
(* than the library accepts.                                               *)
NeverBelowMinimum == \A t \in Targets : fees[t] >= MIN_FEERATE
=============================================================================
