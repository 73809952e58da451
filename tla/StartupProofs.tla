--------------------------- MODULE StartupProofs ----------------------------
(***************************************************************************)
(* Proofs about Startup for any number of starts, channels and outputs,    *)
(* and about BitcoindClient, the client start_ldk makes first.             *)
(*                                                                         *)
(* What a running node finds depends on every start before it.  IInv says  *)
(* what the disk can look like between two starts: a manager was saved     *)
(* with the seed that is on disk, and as long as no crash came before the  *)
(* first save a disk without a manager holds nothing else of value.        *)
(***************************************************************************)
EXTENDS Startup, BitcoindClient, TLAPS

(* A step of start_ldk belongs to a start that was counted, so the key it  *)
(* generates is a new one.                                                 *)
Counted == at # "off" => starts \in Keys

(* The seed in memory is the one on disk, and so is the manager's. *)
OneSeed ==
    /\ at \notin Keyless => key = seed
    /\ manager # 0 => manager = seed
    /\ at = "write" => seed = Torn

(* What start_ldk has read is still what is on disk. *)
ReadIsCurrent ==
    /\ at \in {"manager", "listeners", "watch"} => read = monitors
    /\ at = "listeners" => ~ fresh /\ manager # 0
    /\ at = "watch" => (fresh <=> manager = 0)

(* Without an early crash the list is complete, and a node without a       *)
(* manager that is not running has never run.                              *)
DiskIsComplete ==
    \/ cut
    \/ /\ made \subseteq listed
       /\ at # "running" /\ manager = 0 => monitors = {} /\ made = {}
       /\ at = "running" => monitors = watched

IInv == TypeOK /\ Counted /\ OneSeed /\ ReadIsCurrent /\ DiskIsComplete

USE StartupAssumption DEF IInv, TypeOK, Counted, OneSeed, ReadIsCurrent,
    DiskIsComplete, Steps, Keyless, Keys, NoSeed, Torn

(* An empty disk. *)
LEMMA InitIInv == Init => IInv
<1> SUFFICES ASSUME Init PROVE IInv
  OBVIOUS
<1>1. TypeOK
  <2>1. fresh \in BOOLEAN /\ cut \in BOOLEAN
    BY DEF Init
  <2> QED
    BY <2>1 DEF Init
<1>2. Counted /\ OneSeed /\ ReadIsCurrent
  BY DEF Init
<1>3. DiskIsComplete
  BY DEF Init
<1> QED
  BY <1>1, <1>2, <1>3

(* From the first call to the running node. *)
LEMMA StartSteps ==
    ASSUME IInv, Start \/ StartStep
    PROVE  IInv'
<1> USE DEF memory, disk
<1>1. CASE Start
  BY <1>1 DEF Start
<1>2. ASSUME NEW ok \in BOOLEAN, Connect(ok) PROVE IInv'
  <2>1. TypeOK'
    BY <1>2 DEF Connect
  <2>2. (Counted /\ OneSeed /\ ReadIsCurrent /\ DiskIsComplete)'
    BY <1>2 DEF Connect
  <2> QED
    BY <2>1, <2>2
<1>3. ASSUME NEW ok \in BOOLEAN, synchronize_listeners(ok) PROVE IInv'
  <2>1. fresh' \in BOOLEAN /\ cut' \in BOOLEAN
    BY <1>3 DEF synchronize_listeners
  <2>2. TypeOK'
    BY <1>3, <2>1 DEF synchronize_listeners
  <2>3. (Counted /\ OneSeed /\ ReadIsCurrent /\ DiskIsComplete)'
    BY <1>3 DEF synchronize_listeners
  <2> QED
    BY <2>2, <2>3
<1>4. CASE ReadSeed
  BY <1>4 DEF ReadSeed
<1>5. CASE WriteSeed
  BY <1>5 DEF WriteSeed
<1>6. CASE read_channelmonitors
  BY <1>6 DEF read_channelmonitors
<1>7. CASE FreshManager
  BY <1>7 DEF FreshManager
<1>8. CASE ReadManager
  BY <1>8 DEF ReadManager
<1>9. CASE watch_channel
  BY <1>9 DEF watch_channel
<1> QED
  BY <1>1, <1>2, <1>3, <1>4, <1>5, <1>6, <1>7, <1>8, <1>9 DEF StartStep

(* The running node. *)
LEMMA RunningSteps ==
    ASSUME IInv,
           \/ \E o \in Outputs : createutxos(o)
           \/ \E ch \in Channels : ChannelFunded(ch)
           \/ ManagerSaved
    PROVE  IInv'
<1> USE DEF memory, disk
<1>1. ASSUME NEW o \in Outputs, createutxos(o) PROVE IInv'
  BY <1>1 DEF createutxos
<1>2. ASSUME NEW ch \in Channels, ChannelFunded(ch) PROVE IInv'
  BY <1>2 DEF ChannelFunded
<1>3. CASE ManagerSaved
  BY <1>3 DEF ManagerSaved
<1> QED
  BY <1>1, <1>2, <1>3

(* Its end, orderly or not. *)
LEMMA EndSteps ==
    ASSUME IInv, quit \/ Crash
    PROVE  IInv'
<1> USE DEF memory, disk
<1>1. CASE quit
  <2>1. fresh' \in BOOLEAN /\ cut' \in BOOLEAN
    BY <1>1 DEF quit
  <2>2. TypeOK'
    BY <1>1, <2>1 DEF quit
  <2>3. (Counted /\ OneSeed /\ ReadIsCurrent /\ DiskIsComplete)'
    BY <1>1 DEF quit
  <2> QED
    BY <2>2, <2>3
<1>2. CASE Crash
  <2>1. TypeOK'
    <3>1. cut' \in BOOLEAN
      BY <1>2 DEF Crash
    <3> QED
      BY <1>2, <3>1 DEF Crash
  <2>2. (Counted /\ OneSeed /\ ReadIsCurrent)'
    BY <1>2 DEF Crash
  <2>3. DiskIsComplete'
    BY <1>2 DEF Crash
  <2> QED
    BY <2>1, <2>2, <2>3
<1> QED
  BY <1>1, <1>2

HIDE DEF IInv

(* The invariant holds in every state. *)
THEOREM Invariance == Spec => []IInv
<1>1. IInv /\ [Next]_vars => IInv'
  <2> SUFFICES ASSUME IInv, [Next]_vars PROVE IInv'
    OBVIOUS
  <2>1. CASE Next
    BY <2>1, StartSteps, RunningSteps, EndSteps DEF Next
  <2>2. CASE UNCHANGED vars
    <3>1. TypeOK'
      BY <2>2 DEF IInv, vars, memory, disk
    <3>2. (Counted /\ OneSeed /\ ReadIsCurrent /\ DiskIsComplete)'
      BY <2>2 DEF IInv, vars, memory, disk
    <3> QED
      BY <3>1, <3>2 DEF IInv
  <2> QED
    BY <2>1, <2>2
<1> QED
  BY InitIInv, <1>1, PTL DEF Spec

(* The state of start_ldk and of the disk keeps its types; in particular   *)
(* every step after the seed's has a key in memory and no other has one.   *)
THEOREM TypeCorrect == Spec => []TypeOK
<1>1. IInv => TypeOK
  BY DEF IInv
<1> QED
  BY <1>1, Invariance, PTL

(* A node that has a channel manager runs with the key the manager was     *)
(* made with, however many starts were cut off and wherever.               *)
THEOREM SameKeyAlways == Spec => []SameKey
<1>1. IInv => SameKey
  BY DEF IInv, SameKey
<1> QED
  BY <1>1, Invariance, PTL

(* start_ldk leaves a monitor unwatched or an asset output off the list    *)
(* only after a crash that came before the manager's first save.           *)
THEOREM NothingForgottenOnceSavedAlways == Spec => []NothingForgottenOnceSaved
<1>1. IInv => NothingForgottenOnceSaved
  BY DEF IInv, NothingForgottenOnceSaved
<1> QED
  BY <1>1, Invariance, PTL

-----------------------------------------------------------------------------
(***************************************************************************)
(* The task that start_ldk's Bitcoin Core client spawns, for any answers   *)
(* of Core and any number of polls.                                        *)
(*                                                                         *)
(* Neither property is inductive: the rates a reader sees depend on the    *)
(* estimates the task holds, and on how far its three stores have come.    *)
(***************************************************************************)

(* While the task stores, the targets before `next' have this round's      *)
(* rate; otherwise all have the one of the same round.                     *)
StoredInOrder ==
    \A i \in 1 .. 3 :
      stored[Order[i]] =
        IF poll.at = "sleep" \/ (poll.at = "store" /\ i < poll.next)
        THEN poll.round ELSE poll.round - 1

(* The estimates of this round that are known are valid rates, and so are  *)
(* all of them once the task stores.                                       *)
EstimatesAreValid ==
    \A i \in 1 .. 3 :
      poll.at = "store" \/ (poll.at = "ask" /\ i < poll.next) =>
        estimate[Order[i]] >= MIN_FEERATE

ClientIInv ==
    /\ ClientTypeOK /\ StoredInOrder /\ EstimatesAreValid
    /\ NeverBelowMinimum

(* The three targets and their order. *)
LEMMA TargetsInOrder ==
    /\ Targets = {"Background", "Normal", "HighPriority"}
    /\ Order[1] = "Background" /\ Order[2] = "Normal"
    /\ Order[3] = "HighPriority"
    /\ \A i \in 1 .. 3 : Order[i] \in Targets
    /\ \A i, j \in 1 .. 3 : Order[i] = Order[j] => i = j
    /\ \A t \in Targets : \E i \in 1 .. 3 : t = Order[i]
BY DEF Targets, Order

(* Whatever Core answers, the rate is a natural number and not below the   *)
(* minimum.                                                                *)
LEMMA RateIsValid ==
    ASSUME NEW t \in Targets, NEW a \in Answers \cup {NoEstimate}
    PROVE  Rate(t, a) \in Nat /\ Rate(t, a) >= MIN_FEERATE
<1>1. default[t] \in Nat /\ default[t] >= MIN_FEERATE
  BY TargetsInOrder DEF default, MIN_FEERATE
<1>2. a # NoEstimate => feerate_sat_per_kw(a) \in Nat
  BY BitcoindClientAssumption DEF feerate_sat_per_kw
<1> QED
  BY <1>1, <1>2 DEF Rate, MIN_FEERATE

(* The task goes on to a place that exists. *)
LEMMA AdvanceIsTyped ==
    ASSUME ClientTypeOK, NEW then \in {"store", "sleep"}, Advance(then)
    PROVE  poll' \in [at : {"ask", "store", "sleep", "aborted"},
                      round : 1 .. MaxRounds, next : 1 .. 3]
<1>1. poll = [at |-> poll.at, round |-> poll.round, next |-> poll.next]
  BY DEF ClientTypeOK
<1>2. CASE poll.next < 3
  <2>1. poll' = [at |-> poll.at, round |-> poll.round, next |-> poll.next + 1]
    BY <1>1, <1>2 DEF Advance
  <2> QED
    BY <1>2, <2>1 DEF ClientTypeOK
<1>3. CASE ~(poll.next < 3)
  <2>1. poll' = [at |-> then, round |-> poll.round, next |-> 1]
    BY <1>1, <1>3 DEF Advance
  <2> QED
    BY <2>1 DEF ClientTypeOK
<1> QED
  BY <1>2, <1>3

(* The defaults are valid rates. *)
LEMMA ClientInitIInv == ClientInit => ClientIInv
BY TargetsInOrder, BitcoindClientAssumption
   DEF ClientInit, ClientIInv, ClientTypeOK, StoredInOrder, EstimatesAreValid,
       NeverBelowMinimum, default, MIN_FEERATE

(* A request changes one estimate. *)
LEMMA AskStep ==
    ASSUME ClientIInv, NEW a \in Answers \cup {NoEstimate}, Ask(a)
    PROVE  ClientIInv'
<1> DEFINE t == Order[poll.next]
<1>1. t \in Targets /\ Rate(t, a) \in Nat /\ Rate(t, a) >= MIN_FEERATE
  BY TargetsInOrder, RateIsValid DEF ClientIInv, ClientTypeOK
<1>2. ClientTypeOK'
  <2>1. estimate' \in [Targets -> Nat]
    BY <1>1 DEF ClientIInv, ClientTypeOK, Ask
  <2> QED
    BY <2>1, AdvanceIsTyped DEF ClientIInv, ClientTypeOK, Ask
<1>3. StoredInOrder'
  BY DEF ClientIInv, ClientTypeOK, StoredInOrder, Ask, Advance
<1>4. EstimatesAreValid'
  <2> SUFFICES ASSUME NEW i \in 1 .. 3,
                      poll'.at = "store" \/ (poll'.at = "ask" /\ i < poll'.next)
               PROVE  estimate'[Order[i]] >= MIN_FEERATE
    BY DEF EstimatesAreValid
  <2>1. CASE i = poll.next
    BY <1>1, <2>1 DEF ClientIInv, ClientTypeOK, Ask
  <2>2. CASE i # poll.next
    <3>1. i < poll.next
      BY <2>2 DEF ClientIInv, ClientTypeOK, Ask, Advance
    <3>2. Order[i] # t /\ Order[i] \in Targets
      BY <2>2, TargetsInOrder DEF ClientIInv, ClientTypeOK
    <3> QED
      BY <3>1, <3>2 DEF ClientIInv, ClientTypeOK, Ask, EstimatesAreValid
  <2> QED
    BY <2>1, <2>2
<1>5. NeverBelowMinimum'
  BY DEF ClientIInv, NeverBelowMinimum, Ask
<1> QED
  BY <1>2, <1>3, <1>4, <1>5 DEF ClientIInv

(* A store makes one estimate a rate. *)
LEMMA StoreStep ==
    ASSUME ClientIInv, Store
    PROVE  ClientIInv'
<1> DEFINE t == Order[poll.next]
<1>1. t \in Targets /\ estimate[t] \in Nat /\ estimate[t] >= MIN_FEERATE
  BY TargetsInOrder DEF ClientIInv, ClientTypeOK, Store, EstimatesAreValid
<1>2. ClientTypeOK'
  <2>1. fees' \in [Targets -> Nat] /\ stored' \in [Targets -> 0 .. MaxRounds]
    BY <1>1, BitcoindClientAssumption DEF ClientIInv, ClientTypeOK, Store
  <2> QED
    BY <2>1, AdvanceIsTyped DEF ClientIInv, ClientTypeOK, Store
<1>3. StoredInOrder'
  <2> SUFFICES ASSUME NEW i \in 1 .. 3
               PROVE  stored'[Order[i]] =
                        IF poll'.at = "sleep" \/ (poll'.at = "store" /\ i < poll'.next)
                        THEN poll'.round ELSE poll'.round - 1
    BY DEF StoredInOrder
  <2>1. CASE i = poll.next
    BY <1>1, <2>1 DEF ClientIInv, ClientTypeOK, Store, Advance
  <2>2. CASE i # poll.next
    <3>1. Order[i] # t /\ Order[i] \in Targets
      BY <2>2, TargetsInOrder DEF ClientIInv, ClientTypeOK
    <3>2. stored'[Order[i]] = stored[Order[i]]
      BY <3>1 DEF ClientIInv, ClientTypeOK, Store
    <3> QED
      BY <2>2, <3>2 DEF ClientIInv, ClientTypeOK, Store, Advance, StoredInOrder
  <2> QED
    BY <2>1, <2>2
<1>4. EstimatesAreValid'
  BY DEF ClientIInv, ClientTypeOK, EstimatesAreValid, Store, Advance
<1>5. NeverBelowMinimum'
  BY <1>1 DEF ClientIInv, ClientTypeOK, NeverBelowMinimum, Store
<1> QED
  BY <1>2, <1>3, <1>4, <1>5 DEF ClientIInv

(* The invariant holds in every state. *)
THEOREM ClientInvariance == ClientSpec => []ClientIInv
<1>0. ClientInit => ClientIInv
  BY ClientInitIInv
<1>1. ClientIInv /\ [ClientNext]_clientVars => ClientIInv'
  <2> SUFFICES ASSUME ClientIInv, [ClientNext]_clientVars PROVE ClientIInv'
    OBVIOUS
  <2> USE DEF ClientIInv, ClientTypeOK, StoredInOrder, EstimatesAreValid, NeverBelowMinimum
  <2>1. CASE AskFails
    BY <2>1 DEF AskFails
  <2>2. CASE Wake
    BY <2>2, BitcoindClientAssumption DEF Wake
  <2>3. CASE UNCHANGED clientVars
    BY <2>3 DEF clientVars
  <2> QED
    BY <2>1, <2>2, <2>3, AskStep, StoreStep DEF ClientNext
<1> QED
  BY <1>0, <1>1, PTL DEF ClientSpec

(* Rates, estimates and the task's position keep their types. *)
THEOREM ClientTypeCorrect == ClientSpec => []ClientTypeOK
<1>1. ClientIInv => ClientTypeOK
  BY DEF ClientIInv
<1> QED
  BY <1>1, ClientInvariance, PTL

(* Outside the three stores the rates of get_est_sat_per_1000_weight come  *)
(* from one poll, and always from this one or the one before.              *)
THEOREM RatesOfOnePollAlways == ClientSpec => []RatesOfOnePoll
<1>1. ClientIInv => RatesOfOnePoll
  BY TargetsInOrder DEF ClientIInv, ClientTypeOK, StoredInOrder, RatesOfOnePoll
<1> QED
  BY <1>1, ClientInvariance, PTL

(* No answer of Core makes a rate fall below the library's minimum.        *)
THEOREM NeverBelowMinimumAlways == ClientSpec => []NeverBelowMinimum
<1>1. ClientIInv => NeverBelowMinimum
  BY DEF ClientIInv
<1> QED
  BY <1>1, ClientInvariance, PTL
=============================================================================
