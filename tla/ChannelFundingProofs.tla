------------------------ MODULE ChannelFundingProofs ------------------------
(***************************************************************************)
(* Proofs about ChannelFunding for any channels, amounts, supply, outputs  *)
(* and restarts.                                                           *)
(*                                                                         *)
(* Three parts: what a total is, proved from its recursive definition; who *)
(* may find what (which change the balance misses, and why a coloured      *)
(* channel is funded without its asset); and the amounts (nothing is lost, *)
(* and what the balance check of the command is worth).                    *)
(***************************************************************************)
EXTENDS ChannelFunding, FiniteSetTheorems, TLAPS

-----------------------------------------------------------------------------
(* Totals. *)

(* The element a fold takes first. *)
Any(s) == CHOOSE x \in s : TRUE

(* What the sum function yields for s, by its own values for less. *)
SumStep(g, a, s) == IF s = {} THEN 0 ELSE a[Any(s)] + g[s \ {Any(s)}]

Sums(g, a, S) == g = [s \in SUBSET S |-> SumStep(g, a, s)]

(* Total is the fold of the community modules, a function chosen to satisfy  *)
(* its recursive equation.                                                 *)
LEMMA TotalIsSum ==
    ASSUME NEW a, NEW S
    PROVE  Total(a, S) = (CHOOSE g : Sums(g, a, S))[S]
BY DEF Total, MapThenSumSet, MapThenFoldSet, Sums, SumStep, Any

(* Every set of naturals has a least element. *)
LEMMA Least ==
    ASSUME NEW B \in SUBSET Nat, B # {}
    PROVE  \E n \in B : \A m \in B : n <= m
<1> DEFINE R == OpToRel(<, Nat)
<1>1. IsWellFoundedOn(R, Nat)
  BY NatLessThanWellFounded
<1>2. \A m, n \in Nat : <<m, n>> \in R <=> m < n
  BY DEF OpToRel
<1> HIDE DEF R
<1>3. PICK n \in B : \A m \in B : <<m, n>> \notin R
  BY <1>1, WFMin
<1>4. \A m \in B : ~ (m < n)
  BY <1>2, <1>3
<1> QED
  BY <1>4

(* Every set of finite sets has one that stays in it when no element is    *)
(* taken out: induction over finite sets, without an operator parameter.   *)
LEMMA LeastSet ==
    ASSUME NEW U, IsFiniteSet(U), NEW B \in SUBSET (SUBSET U), B # {}
    PROVE  \E s \in B : \A x \in s : s \ {x} \notin B
<1> DEFINE sizes == {Cardinality(s) : s \in B}
<1>1. \A s \in SUBSET U : IsFiniteSet(s) /\ Cardinality(s) \in Nat
  BY FS_Subset, FS_CardinalityType
<1>2. sizes \in SUBSET Nat /\ sizes # {}
  BY <1>1
<1> HIDE DEF sizes
<1>3. PICK n \in sizes : \A m \in sizes : n <= m
  BY <1>2, Least
<1>4. PICK s \in B : Cardinality(s) = n
  BY <1>3 DEF sizes
<1>5. ASSUME NEW x \in s, s \ {x} \in B PROVE FALSE
  <2>1. Cardinality(s \ {x}) = Cardinality(s) - 1
    BY <1>1, FS_RemoveElement
  <2>2. Cardinality(s \ {x}) \in sizes
    BY <1>5 DEF sizes
  <2> QED
    BY <1>1, <1>3, <1>4, <2>1, <2>2
<1> QED
  BY <1>5

(* A set that is not empty holds its first element. *)
LEMMA AnyIsOne == ASSUME NEW s, s # {} PROVE Any(s) \in s
BY DEF Any

(* The equation has a solution: one for sets of up to n elements gives one *)
(* for sets of up to n + 1.                                                *)
LEMMA SumExists ==
    ASSUME NEW U, IsFiniteSet(U), NEW a, \A x \in U : a[x] \in Nat
    PROVE  \E g \in [SUBSET U -> Nat] : Sums(g, a, U)
<1> DEFINE Good(n) == \E g \in [SUBSET U -> Nat] :
                        \A s \in SUBSET U : Cardinality(s) <= n => g[s] = SumStep(g, a, s)
           bad == {n \in Nat : ~ Good(n)}
<1>1. \A s \in SUBSET U : IsFiniteSet(s) /\ Cardinality(s) \in Nat /\ Cardinality(s) <= Cardinality(U)
  BY FS_Subset, FS_CardinalityType
<1>2. \A s \in SUBSET U : s # {} => /\ Any(s) \in s /\ a[Any(s)] \in Nat
                                   /\ Cardinality(s \ {Any(s)}) = Cardinality(s) - 1
                                   /\ s \ {Any(s)} \in SUBSET U
  BY <1>1, AnyIsOne, FS_RemoveElement
<1>3. Good(0)
  <2> DEFINE g == [s \in SUBSET U |-> 0]
  <2>1. g \in [SUBSET U -> Nat]
    OBVIOUS
  <2>2. \A s \in SUBSET U : Cardinality(s) <= 0 => s = {}
    BY <1>1, FS_EmptySet
  <2>3. \A s \in SUBSET U : Cardinality(s) <= 0 => g[s] = SumStep(g, a, s)
    BY <2>2 DEF SumStep
  <2> QED
    BY <2>1, <2>3
<1>4. ASSUME NEW n \in Nat, Good(n) PROVE Good(n + 1)
  <2>1. PICK g \in [SUBSET U -> Nat] :
          \A s \in SUBSET U : Cardinality(s) <= n => g[s] = SumStep(g, a, s)
    BY <1>4
  <2> DEFINE h == [s \in SUBSET U |-> SumStep(g, a, s)]
  <2>2. h \in [SUBSET U -> Nat]
    <3>1. ASSUME NEW s \in SUBSET U PROVE SumStep(g, a, s) \in Nat
      <4>1. CASE s = {}
        BY <4>1 DEF SumStep
      <4>2. CASE s # {}
        <5>1. a[Any(s)] \in Nat /\ g[s \ {Any(s)}] \in Nat
          BY <1>2, <4>2
        <5> QED
          BY <4>2, <5>1 DEF SumStep
      <4> QED
        BY <4>1, <4>2
    <3> QED
      BY <3>1
  <2>3. \A s \in SUBSET U : Cardinality(s) <= n => h[s] = g[s]
    BY <2>1
  <2>4. \A s \in SUBSET U : h[s] = SumStep(g, a, s)
    OBVIOUS
  <2> HIDE DEF h
  <2>5. \A s \in SUBSET U : Cardinality(s) <= n + 1 => h[s] = SumStep(h, a, s)
    BY <1>1, <1>2, <2>3, <2>4 DEF SumStep
  <2> QED
    BY <2>2, <2>5
<1> HIDE DEF Good
<1>5. \A n \in Nat : Good(n)
  <2> SUFFICES ASSUME bad # {} PROVE FALSE
    OBVIOUS
  <2>1. PICK n \in bad : \A m \in bad : n <= m
    BY Least
  <2>2. n \in Nat /\ ~ Good(n) /\ n # 0
    BY <1>3, <2>1
  <2>3. n - 1 \in Nat /\ n - 1 \notin bad
    BY <2>1, <2>2
  <2>4. Good(n - 1)
    BY <2>3
  <2>5. Good(n - 1 + 1)
    BY <1>4, <2>3, <2>4
  <2>6. n - 1 + 1 = n
    BY <2>2
  <2> QED
    BY <2>2, <2>5, <2>6
<1>6. Good(Cardinality(U)) 
  BY <1>1, <1>5
<1>7. PICK g \in [SUBSET U -> Nat] : \A s \in SUBSET U : g[s] = SumStep(g, a, s)
  BY <1>1, <1>6 DEF Good
<1> QED
  BY <1>7 DEF Sums

(* Solutions for a set and for a subset agree on the subset, if the        *)
(* amounts do.                                                             *)
LEMMA SumUnique ==
    ASSUME NEW U, IsFiniteSet(U), NEW a, NEW b, NEW g, Sums(g, a, U),
           NEW V \in SUBSET U, NEW h, Sums(h, b, V), \A x \in V : a[x] = b[x],
           NEW s \in SUBSET V
    PROVE  g[s] = h[s]
<1> DEFINE bad == {t \in SUBSET V : g[t] # h[t]}
<1> SUFFICES ASSUME bad # {} PROVE FALSE
  OBVIOUS
<1>1. IsFiniteSet(V)
  BY FS_Subset
<1>2. PICK t \in bad : \A x \in t : t \ {x} \notin bad
  BY <1>1, LeastSet
<1>3. t \in SUBSET V /\ t \in SUBSET U /\ g[t] # h[t]
  BY <1>2
<1>4. g[t] = SumStep(g, a, t) /\ h[t] = SumStep(h, b, t)
  BY <1>3 DEF Sums
<1>5. t # {}
  BY <1>3, <1>4 DEF SumStep
<1>6. Any(t) \in t /\ t \ {Any(t)} \in SUBSET V
  BY <1>3, <1>5, AnyIsOne
<1>7. g[t \ {Any(t)}] = h[t \ {Any(t)}]
  BY <1>2, <1>6
<1>8. a[Any(t)] = b[Any(t)]
  BY <1>3, <1>6
<1> QED
  BY <1>3, <1>4, <1>5, <1>7, <1>8 DEF SumStep

(* Total is the value of any solution for a larger set. *)
LEMMA TotalIs ==
    ASSUME NEW U, IsFiniteSet(U), NEW a, \A x \in U : a[x] \in Nat,
           NEW g, Sums(g, a, U), NEW T \in SUBSET U
    PROVE  Total(a, T) = g[T]
<1>1. IsFiniteSet(T) /\ \A x \in T : a[x] \in Nat
  BY FS_Subset
<1>2. PICK h \in [SUBSET T -> Nat] : Sums(h, a, T)
  BY <1>1, SumExists
<1> DEFINE f == CHOOSE f : Sums(f, a, T)
<1>3. Sums(f, a, T) /\ Total(a, T) = f[T]
  BY <1>2, TotalIsSum
<1> HIDE DEF f
<1> QED
  BY <1>3, SumUnique

(* The equation, for Total itself. *)
LEMMA TotalRemoveAny ==
    ASSUME NEW S, IsFiniteSet(S), NEW a, \A x \in S : a[x] \in Nat
    PROVE  /\ Total(a, S) \in Nat
           /\ S = {} => Total(a, S) = 0
           /\ S # {} => Total(a, S) = a[Any(S)] + Total(a, S \ {Any(S)})
<1>1. PICK g \in [SUBSET S -> Nat] : Sums(g, a, S)
  BY SumExists
<1>2. Total(a, S) = g[S] /\ Total(a, S \ {Any(S)}) = g[S \ {Any(S)}]
  BY <1>1, TotalIs
<1>3. g[S] = SumStep(g, a, S) /\ g[S] \in Nat
  BY <1>1 DEF Sums
<1> QED
  BY <1>2, <1>3 DEF SumStep

(* It does not matter which element is taken out first. *)
LEMMA TotalRemove ==
    ASSUME NEW S, IsFiniteSet(S), NEW a, \A x \in S : a[x] \in Nat, NEW e \in S
    PROVE  Total(a, S) = a[e] + Total(a, S \ {e})
<1> DEFINE Law(s) == \A x \in s : Total(a, s) = a[x] + Total(a, s \ {x})
           bad == {s \in SUBSET S : ~ Law(s)}
<1>0. \A s \in SUBSET S : IsFiniteSet(s) /\ (\A x \in s : a[x] \in Nat) /\ Total(a, s) \in Nat
  BY FS_Subset, TotalRemoveAny
<1> SUFFICES ASSUME bad # {} PROVE FALSE
  OBVIOUS
<1>1. PICK s \in bad : \A x \in s : s \ {x} \notin bad
  BY LeastSet
<1>2. s \in SUBSET S /\ \A x \in s : Law(s \ {x})
  BY <1>1
<1>3. PICK x \in s : Total(a, s) # a[x] + Total(a, s \ {x})
  BY <1>1
<1> DEFINE y == Any(s)
<1>4. y \in s /\ Total(a, s) = a[y] + Total(a, s \ {y})
  BY <1>0, <1>2, TotalRemoveAny, AnyIsOne
<1>5. x # y
  BY <1>3, <1>4
<1> HIDE DEF y
<1>6. Total(a, s \ {y}) = a[x] + Total(a, (s \ {y}) \ {x})
  BY <1>2, <1>4, <1>5
<1>7. Total(a, s \ {x}) = a[y] + Total(a, (s \ {x}) \ {y})
  BY <1>2, <1>4, <1>5
<1>8. (s \ {y}) \ {x} = (s \ {x}) \ {y} 
  OBVIOUS
<1>9. /\ a[x] \in Nat /\ a[y] \in Nat 
      /\ Total(a, (s \ {x}) \ {y}) \in Nat
  BY <1>0, <1>2, <1>4
<1> QED
  BY <1>3, <1>4, <1>6, <1>7, <1>8, <1>9

(* A total depends on the amounts of its set alone. *)
LEMMA TotalSame ==
    ASSUME NEW S, IsFiniteSet(S), NEW a, NEW b, \A x \in S : a[x] \in Nat /\ a[x] = b[x]
    PROVE  Total(a, S) = Total(b, S)
<1>1. PICK g \in [SUBSET S -> Nat] : Sums(g, a, S)
  BY SumExists
<1>2. PICK h \in [SUBSET S -> Nat] : Sums(h, b, S)
  BY SumExists
<1>3. Total(a, S) = g[S] /\ Total(b, S) = h[S]
  BY <1>1, <1>2, TotalIs
<1> QED
  BY <1>1, <1>2, <1>3, SumUnique

(* The total of a set is that of a part and that of the rest. *)
LEMMA TotalSplit ==
    ASSUME NEW S, IsFiniteSet(S), NEW a, \A x \in S : a[x] \in Nat, NEW T \in SUBSET S
    PROVE  Total(a, S) = Total(a, T) + Total(a, S \ T)
<1> DEFINE bad == {t \in SUBSET S : Total(a, S) # Total(a, t) + Total(a, S \ t)}
<1>0. \A s \in SUBSET S : IsFiniteSet(s) /\ (\A x \in s : a[x] \in Nat) /\ Total(a, s) \in Nat
  BY FS_Subset, TotalRemoveAny
<1> SUFFICES ASSUME bad # {} PROVE FALSE
  OBVIOUS
<1>1. PICK t \in bad : \A x \in t : t \ {x} \notin bad
  BY LeastSet
<1>2. t # {}
  <2>1. Total(a, {}) = 0 /\ S \ {} = S /\ Total(a, S) \in Nat
    BY <1>0, TotalRemoveAny
  <2>2. Total(a, S) = Total(a, {}) + Total(a, S \ {})
    BY <2>1
  <2> QED
    BY <1>1, <2>2
<1>3. PICK x : x \in t
  BY <1>2
<1>4. t \in SUBSET S /\ Total(a, S) # Total(a, t) + Total(a, S \ t)
  BY <1>1
<1>5. Total(a, S) = Total(a, t \ {x}) + Total(a, S \ (t \ {x}))
  BY <1>1, <1>3, <1>4
<1>6. Total(a, t) = a[x] + Total(a, t \ {x})
  BY <1>0, <1>3, <1>4, TotalRemove
<1>7. Total(a, S \ (t \ {x})) = a[x] + Total(a, S \ t)
  <2>1. x \in S \ (t \ {x}) /\ S \ (t \ {x}) \in SUBSET S /\ (S \ (t \ {x})) \ {x} = S \ t
    BY <1>3, <1>4
  <2> QED
    BY <1>0, <2>1, TotalRemove
<1>8. /\ a[x] \in Nat /\ Total(a, t \ {x}) \in Nat /\ Total(a, S \ t) \in Nat
  BY <1>0, <1>3, <1>4
<1> QED
  BY <1>4, <1>5, <1>6, <1>7, <1>8

-----------------------------------------------------------------------------
(* Who may find what. *)

(* As much typing as the proofs need: the channels' tables and the send.   *)
Tables ==
    /\ stage \in [Channels -> Stages]
    /\ DOMAIN funding = Channels
    /\ command \in Channels \cup {NoChannel}
    /\ send = [at |-> send.at, inputs |-> send.inputs, change |-> send.change,
               out |-> send.out, amount |-> send.amount]

(* Until the info file is written the command is not over. *)
FileIsLast ==
    \A ch \in Channels :
      stage[ch] \in {"opening", "generating"} /\ ch \notin info => command = ch

(* What goes through the task has inputs. *)
PostedIsColored ==
    \A ch \in Channels : stage[ch] = "posting" => funding[ch].colored

(* An output outside the contract's history is the change of a funding     *)
(* without ChannelReady, or of a send without accept_transfer.             *)
UnknownIsPending ==
    \A o \in unspent \ accepted :
      \/ \E ch \in Channels : /\ stage[ch] \in {"broadcast", "locked", "closed"}
                              /\ funding[ch].out = o
      \/ send.at = "accept" /\ send.out = o
      \/ o \in cut

IInv == Tables /\ FileIsLast /\ PostedIsColored /\ UnknownIsPending /\ VanillaOnlyIfHasty

(* No channel has the name that stands for none. *)
LEMMA NoChannelIsNone == NoChannel \notin Channels
BY ChannelFundingAssumption

USE NoChannelIsNone DEF IInv, Tables, FileIsLast, PostedIsColored,
    UnknownIsPending, VanillaOnlyIfHasty, Stages, wealth, cli, notes, Move

(* All of the supply is in the history. *)
LEMMA InitIInv == Init => IInv
BY DEF Init, NoFunding, NoSend

(* opencoloredchannel: the check, create_channel, the info file. *)
LEMMA CommandStep ==
    ASSUME IInv, NEW ch \in Channels,
           CheckBalance(ch) \/ open_channel(ch) \/ write_rgb_channel_info(ch)
    PROVE  IInv'
<1>1. CASE CheckBalance(ch)
  BY <1>1 DEF CheckBalance
<1>2. CASE open_channel(ch)
  BY <1>2 DEF open_channel
<1>3. CASE write_rgb_channel_info(ch)
  BY <1>3 DEF write_rgb_channel_info
<1> QED
  BY <1>1, <1>2, <1>3

(* A send adds the one output that it accepts next. *)
LEMMA SendStep ==
    ASSUME IInv,
           \/ \E amount \in 1 .. get_rgb_total_amount : sendasset(amount)
           \/ PostOfSendFails \/ broadcast_tx \/ accept_transfer \/ LeaveRuntimeOpen
    PROVE  IInv'
<1>1. ASSUME NEW amount, sendasset(amount) PROVE IInv'
  <2>1. PICK inputs : send' = [at |-> "post", inputs |-> inputs, out |-> next,
                               change |-> rgb_change_amount(inputs, amount),
                               amount |-> amount]
    BY <1>1 DEF sendasset
  <2>2. send = NoSend
    BY <1>1 DEF sendasset, RuntimeFree
  <2> QED
    BY <1>1, <2>1, <2>2 DEF sendasset, NoSend
<1>2. CASE PostOfSendFails
  BY <1>2 DEF PostOfSendFails, NoSend
<1>3. CASE broadcast_tx
  <2>1. CASE /\ unspent' = (unspent \ send.inputs) \cup {send.out}
             /\ send' = [send EXCEPT !.at = "accept"] /\ UNCHANGED <<hasty, cut>>
    <3>1. send'.at = "accept" /\ send'.out = send.out /\ send.at = "post"
      BY <1>3, <2>1 DEF broadcast_tx
    <3>2. send' = [at |-> "accept", inputs |-> send.inputs, change |-> send.change,
                   out |-> send.out, amount |-> send.amount]
      BY <2>1
    <3>3. /\ accepted' = accepted /\ stage' = stage /\ funding' = funding
          /\ info' = info /\ command' = command
      BY <1>3 DEF broadcast_tx
    <3>4. UnknownIsPending'
      BY <2>1, <3>1, <3>3
    <3>5. Tables'
      BY <3>2, <3>3
    <3> QED
      BY <2>1, <3>3, <3>4, <3>5
  <2>2. CASE UNCHANGED <<unspent, send, notes>>
    BY <1>3, <2>2 DEF broadcast_tx
  <2> QED
    BY <1>3, <2>1, <2>2 DEF broadcast_tx, Spend
<1>4. CASE accept_transfer
  BY <1>4 DEF accept_transfer, NoSend
<1>5. CASE LeaveRuntimeOpen
  BY <1>5 DEF LeaveRuntimeOpen
<1> QED
  BY <1>1, <1>2, <1>3, <1>4, <1>5

(* The event and its task, up to the broadcast. *)
LEMMA FundingStep ==
    ASSUME IInv, NEW ch \in Channels,
           \/ PeerAccepts(ch) \/ FundingGenerationReady(ch) \/ PostConsignment(ch)
           \/ FundingFails(ch)
    PROVE  IInv'
<1>1. CASE PeerAccepts(ch)
  BY <1>1 DEF PeerAccepts
<1>2. CASE FundingGenerationReady(ch)
  <2>1. CASE ch \notin info
    BY <1>2, <2>1 DEF FundingGenerationReady
  <2>2. CASE ch \in info /\ panic' = ch /\ UNCHANGED <<next, stage, funding>>
    BY <1>2, <2>2 DEF FundingGenerationReady
  <2>3. CASE ch \in info /\ stage' = [stage EXCEPT ![ch] = "posting"]
    <3>1. /\ DOMAIN funding' = Channels /\ funding'[ch].colored
          /\ \A c \in Channels \ {ch} : funding'[c] = funding[c]
      BY <1>2, <2>3 DEF FundingGenerationReady
    <3> QED
      BY <1>2, <2>3, <3>1 DEF FundingGenerationReady
  <2> QED
    BY <1>2, <2>1, <2>2, <2>3 DEF FundingGenerationReady
<1>3. CASE PostConsignment(ch)
  BY <1>3 DEF PostConsignment
<1>4. CASE FundingFails(ch)
  BY <1>4 DEF FundingFails
<1> QED
  BY <1>1, <1>2, <1>3, <1>4

(* The broadcast adds the one output that ChannelReady accepts. *)
LEMMA ChainStep ==
    ASSUME IInv, NEW ch \in Channels,
           \/ BroadcastFunding(ch) \/ ChannelReady(ch)
           \/ FundingLocked(ch) \/ ChannelCloses(ch)
    PROVE  IInv'
<1>1. CASE BroadcastFunding(ch)
  BY <1>1 DEF BroadcastFunding, Spend
<1>2. CASE ChannelReady(ch)
  BY <1>2 DEF ChannelReady
<1>3. CASE FundingLocked(ch)
  BY <1>3 DEF FundingLocked
<1>4. CASE ChannelCloses(ch)
  BY <1>4 DEF ChannelCloses
<1> QED
  BY <1>1, <1>2, <1>3, <1>4

(* A restart forgets what was not broadcast, and cuts off a send. *)
LEMMA RestartStep ==
    ASSUME IInv, Restart
    PROVE  IInv'
BY DEF Restart, NoSend

HIDE DEF IInv

(* The invariant holds in every state. *)
THEOREM Invariance == Spec => []IInv
<1>1. IInv /\ [Next]_vars => IInv'
  <2> SUFFICES ASSUME IInv, [Next]_vars PROVE IInv'
    OBVIOUS
  <2>1. CASE UNCHANGED vars
    BY <2>1 DEF vars, IInv
  <2> QED
    BY <2>1, CommandStep, SendStep, FundingStep, ChainStep, RestartStep DEF Next
<1> QED
  BY InitIInv, <1>1, PTL DEF Spec

(* opencoloredchannel funds a channel without its asset only when          *)
(* FundingGenerationReady overtakes the write of the info file.            *)
THEOREM VanillaOnlyIfHastyAlways == Spec => []VanillaOnlyIfHasty
<1>1. IInv => VanillaOnlyIfHasty
  BY DEF IInv
<1> QED
  BY <1>1, Invariance, PTL

(* The balance misses nothing but the change of fundings without           *)
(* ChannelReady and of sends between broadcast_tx and accept_transfer or   *)
(* cut off there.                                                          *)
THEOREM HiddenChangeHasCauseAlways == Spec => []HiddenChangeHasCause
<1>1. IInv => HiddenChangeHasCause
  BY DEF IInv, HiddenChangeHasCause
<1> QED
  BY <1>1, Invariance, PTL

-----------------------------------------------------------------------------
(* Amounts. *)

HIDE NoChannelIsNone DEF Tables, FileIsLast, PostedIsColored, UnknownIsPending,
    VanillaOnlyIfHasty, Stages, wealth, cli, notes, Move

(* Who spends: the fundings of channels, and the send in progress. *)
Payers == Channels \cup {Sending}

tx(x) == IF x = Sending THEN send ELSE funding[x]
Cost(x) == IF x = Sending THEN send.amount ELSE Amount[x]

(* A transaction that is built and not broadcast. *)
Pending(x) ==
    IF x = Sending THEN send.at = "post"
    ELSE stage[x] \in {"posting", "given"} /\ funding[x].colored

Late == {"broadcast", "locked", "ready", "closed"}
Funded == {ch \in Channels : stage[ch] \in Late /\ funding[ch].colored}

(* The change of a pending transaction goes to an output of its own, which *)
(* no other transaction made, makes or spends.                             *)
ChangeIsNew ==
    /\ \A o \in unspent : o < next
    /\ \A x \in Payers : Pending(x) =>
         /\ tx(x).out \in Outs \ unspent /\ tx(x).out < next
         /\ \A o \in tx(x).inputs : o < next
    /\ \A x, y \in Payers : Pending(x) /\ Pending(y) =>
         /\ tx(y).out \notin tx(x).inputs
         /\ x # y => tx(x).out # tx(y).out

(* As long as its inputs are there they hold what it takes. *)
PendingIsBalanced ==
    \A x \in Payers : Pending(x) /\ tx(x).inputs \subseteq unspent =>
      Total(alloc, tx(x).inputs) = Cost(x) + tx(x).change

(* A balance check is good until the asset is spent. *)
StillCovered ==
    \A ch \in Channels :
      stage[ch] \in {"checked", "opening", "generating"} /\ ch \notin spentSince =>
        Enough(Amount[ch])

(* Before FundingGenerationReady there is no transaction, after the        *)
(* broadcast it has a change output; so has a send.                        *)
Early == {"none", "checked", "opening", "generating"}
BuiltInTime ==
    /\ \A ch \in Channels : /\ stage[ch] \in Early => ~ funding[ch].colored
                            /\ stage[ch] \in Late => funding[ch].out \in Outs
    /\ send.at # "none" => send.out \in Outs

AInv ==
    /\ TypeOK /\ BuiltInTime /\ ChangeIsNew /\ PendingIsBalanced /\ StillCovered
    /\ IsFiniteSet(Funded)
    /\ NothingIsLost /\ UncoveredOnlyIfSpentSince

(* The laws of totals, for outputs. *)
LEMMA OutputTotals ==
    ASSUME NEW a \in [Outs -> Nat]
    PROVE  /\ \A S \in SUBSET Outs : Total(a, S) \in Nat
           /\ \A S \in SUBSET Outs : \A T \in SUBSET S :
                Total(a, S) = Total(a, T) + Total(a, S \ T)
           /\ \A S \in SUBSET Outs : \A x \in S :
                Total(a, S) = a[x] + Total(a, S \ {x})
<1>1. IsFiniteSet(Outs)
  BY ChannelFundingAssumption, FS_Interval DEF Outs
<1>2. \A S \in SUBSET Outs : IsFiniteSet(S) /\ \A x \in S : a[x] \in Nat
  BY <1>1, FS_Subset
<1> QED
  BY <1>2, TotalRemoveAny, TotalSplit, TotalRemove

(* Outputs whose allocations stay. *)
LEMMA SameOutputs ==
    ASSUME NEW a \in [Outs -> Nat], NEW b \in [Outs -> Nat], NEW S \in SUBSET Outs,
           \A x \in S : a[x] = b[x]
    PROVE  Total(a, S) = Total(b, S)
<1>1. IsFiniteSet(Outs)
  BY ChannelFundingAssumption, FS_Interval DEF Outs
<1>2. IsFiniteSet(S) /\ \A x \in S : a[x] \in Nat
  BY <1>1, FS_Subset
<1> QED
  BY <1>2, TotalSame

(* Inputs are outputs of the wallet, and after a good balance check they   *)
(* cover the amount whichever they are.                                    *)
LEMMA InputsCover ==
    ASSUME TypeOK, NEW amount \in Nat, NEW inputs \in rgb_inputs(amount)
    PROVE  /\ inputs \in SUBSET unspent /\ inputs \in SUBSET Outs
           /\ Total(alloc, inputs) \in Nat
           /\ Enough(amount) => Total(alloc, inputs) >= amount
<1>1. inputs \in SUBSET get_asset_owned_values
  BY DEF rgb_inputs
<1>2. inputs \in SUBSET unspent /\ inputs \in SUBSET Outs
  BY <1>1 DEF get_asset_owned_values, TypeOK
<1>3. Total(alloc, inputs) \in Nat
  BY <1>2, OutputTotals DEF TypeOK
<1>4. \/ Total(alloc, inputs) >= amount
      \/ inputs = get_asset_owned_values
  BY DEF rgb_inputs
<1>5. Enough(amount) => Total(alloc, inputs) >= amount
  BY <1>3, <1>4 DEF Enough, get_rgb_total_amount
<1> QED
  BY <1>2, <1>3, <1>5

(* What a broadcast does to the wallet's allocations. *)
LEMMA SpendTotals ==
    ASSUME TypeOK, NEW inputs \in SUBSET unspent, NEW out \in Outs \ unspent,
           NEW change \in Nat, Spend(inputs, out, change)
    PROVE  /\ alloc' \in [Outs -> Nat] /\ unspent' \in SUBSET Outs
           /\ unspent' = (unspent \ inputs) \cup {out} /\ spentSince' = Channels
           /\ hasty' = hasty /\ cut' = cut
           /\ \A S \in SUBSET (unspent \ inputs) : Total(alloc', S) = Total(alloc, S)
           /\ Total(alloc', unspent') + Total(alloc, inputs) = Total(alloc, unspent) + change
<1>1. alloc \in [Outs -> Nat] /\ unspent \in SUBSET Outs
  BY DEF TypeOK
<1>2. /\ unspent' = (unspent \ inputs) \cup {out} /\ spentSince' = Channels
      /\ hasty' = hasty /\ cut' = cut
      /\ alloc' = [o \in Outs |-> IF o \in inputs THEN 0
                                  ELSE IF o = out THEN change ELSE alloc[o]]
  BY DEF Spend
<1>3. /\ alloc' \in [Outs -> Nat] /\ unspent' \in SUBSET Outs
      /\ alloc'[out] = change
      /\ \A x \in unspent \ inputs : alloc'[x] = alloc[x]
  BY <1>1, <1>2
<1>4. \A S \in SUBSET (unspent \ inputs) : Total(alloc', S) = Total(alloc, S)
  <2> SUFFICES ASSUME NEW S \in SUBSET (unspent \ inputs)
               PROVE  Total(alloc', S) = Total(alloc, S)
    OBVIOUS
  <2>1. S \in SUBSET Outs /\ \A x \in S : alloc'[x] = alloc[x]
    BY <1>1, <1>3
  <2> QED
    BY <1>1, <1>3, <2>1, SameOutputs
<1>5. Total(alloc', unspent') = change + Total(alloc', unspent \ inputs)
  <2>1. out \in unspent' /\ unspent' \ {out} = unspent \ inputs
    BY <1>2
  <2> QED
    BY <1>3, <2>1, OutputTotals
<1>6. Total(alloc, unspent) = Total(alloc, inputs) + Total(alloc, unspent \ inputs)
  BY <1>1, OutputTotals
<1>7. Total(alloc', unspent \ inputs) = Total(alloc, unspent \ inputs)
  BY <1>4
<1>8. Total(alloc, inputs) \in Nat /\ Total(alloc, unspent \ inputs) \in Nat
  BY <1>1, OutputTotals
<1>9. Total(alloc', unspent') + Total(alloc, inputs) = Total(alloc, unspent) + change
  BY <1>5, <1>6, <1>7, <1>8
<1> QED
  BY <1>2, <1>3, <1>4, <1>9

(* A transaction is a transaction, whoever made it. *)
LEMMA TxType ==
    ASSUME TypeOK, NEW x \in Payers
    PROVE  /\ tx(x).inputs \in SUBSET Outs /\ tx(x).change \in Nat
           /\ Cost(x) \in Nat
BY ChannelFundingAssumption DEF TypeOK, Payers, tx, Cost, Fundings, Sends

(* A transaction is built: its change goes to the next output. *)
LEMMA BuildStep ==
    ASSUME TypeOK, ChangeIsNew, PendingIsBalanced, next <= MaxOut,
           alloc' = alloc, unspent' = unspent, next' = next + 1,
           NEW x \in Payers, tx(x)'.out = next, tx(x)'.inputs \in SUBSET unspent,
           Total(alloc, tx(x)'.inputs) = Cost(x)' + tx(x)'.change,
           \A y \in Payers : y # x =>
             (Pending(y)' => Pending(y)) /\ tx(y)' = tx(y) /\ Cost(y)' = Cost(y)
    PROVE  ChangeIsNew' /\ PendingIsBalanced'
<1>1. next \in Outs \ unspent /\ next \in Nat /\ next < next'
  BY ChannelFundingAssumption DEF TypeOK, ChangeIsNew, Outs
<1>2. \A o \in Outs : o < next => o < next'
  BY <1>1 DEF Outs
<1>3. \A y \in Payers : tx(y).inputs \in SUBSET Outs
  BY TxType
<1>4. \A o \in unspent : o \in Outs /\ o < next
  BY DEF TypeOK, ChangeIsNew
<1>5. \A y \in Payers : Pending(y)' =>
        /\ tx(y)'.out \in Outs \ unspent' /\ tx(y)'.out < next'
        /\ \A o \in tx(y)'.inputs : o < next'
  <2> SUFFICES ASSUME NEW y \in Payers, Pending(y)'
               PROVE  /\ tx(y)'.out \in Outs \ unspent' /\ tx(y)'.out < next'
                      /\ \A o \in tx(y)'.inputs : o < next'
    OBVIOUS
  <2>1. CASE y = x
    BY <1>1, <1>2, <1>4, <2>1
  <2>2. CASE y # x
    <3>1. /\ tx(y).out \in Outs \ unspent /\ tx(y).out < next
          /\ \A o \in tx(y).inputs : o < next
      BY <2>2 DEF ChangeIsNew
    <3> QED
      BY <1>2, <1>3, <2>2, <3>1
  <2> QED
    BY <2>1, <2>2
<1>6. \A y, z \in Payers : Pending(y)' /\ Pending(z)' =>
        /\ tx(z)'.out \notin tx(y)'.inputs
        /\ y # z => tx(y)'.out # tx(z)'.out
  <2> SUFFICES ASSUME NEW y \in Payers, NEW z \in Payers, Pending(y)', Pending(z)'
               PROVE  /\ tx(z)'.out \notin tx(y)'.inputs
                      /\ y # z => tx(y)'.out # tx(z)'.out
    OBVIOUS
  <2>0. \A w \in Payers : w # x /\ Pending(w)' =>
          /\ tx(w)' = tx(w) /\ Pending(w)
          /\ tx(w).out \in Outs \ unspent /\ tx(w).out < next
          /\ \A o \in tx(w).inputs : o < next
    BY DEF ChangeIsNew
  <2>1. CASE y = x /\ z = x
    BY <1>1, <2>1
  <2>2. CASE y = x /\ z # x
    <3>1. tx(z)' = tx(z) /\ tx(z).out \in Outs \ unspent /\ tx(z).out < next
      BY <2>0, <2>2
    <3>2. tx(z).out # next
      BY <1>1, <3>1 DEF Outs
    <3> QED
      BY <2>2, <3>1, <3>2
  <2>3. CASE y # x /\ z = x
    <3>1. /\ tx(y)' = tx(y) /\ tx(y).out \in Outs /\ tx(y).out < next
          /\ \A o \in tx(y).inputs : o \in Outs /\ o < next
      BY <1>3, <2>0, <2>3
    <3>2. \A o \in Outs : o < next => o # next
      BY <1>1 DEF Outs
    <3> QED
      BY <2>3, <3>1, <3>2
  <2>4. CASE y # x /\ z # x
    BY <2>0, <2>4 DEF ChangeIsNew
  <2> QED
    BY <2>1, <2>2, <2>3, <2>4
<1>7. ChangeIsNew'
  BY <1>2, <1>4, <1>5, <1>6 DEF ChangeIsNew
<1>8. PendingIsBalanced'
  <2> SUFFICES ASSUME NEW y \in Payers, Pending(y)', tx(y)'.inputs \subseteq unspent'
               PROVE  Total(alloc', tx(y)'.inputs) = Cost(y)' + tx(y)'.change
    BY DEF PendingIsBalanced
  <2>1. CASE y = x
    BY <2>1
  <2>2. CASE y # x
    BY <2>2 DEF PendingIsBalanced
  <2> QED
    BY <2>1, <2>2
<1> QED
  BY <1>7, <1>8

(* A transaction is broadcast: the wallet loses its cost. *)
LEMMA SpendStep ==
    ASSUME TypeOK, ChangeIsNew, PendingIsBalanced, next' = next,
           NEW x \in Payers, Pending(x), tx(x).inputs \subseteq unspent,
           Spend(tx(x).inputs, tx(x).out, tx(x).change),
           \A y \in Payers : Pending(y)' =>
             y # x /\ Pending(y) /\ tx(y)' = tx(y) /\ Cost(y)' = Cost(y)
    PROVE  /\ alloc' \in [Outs -> Nat] /\ unspent' \in SUBSET Outs
           /\ spentSince' = Channels /\ hasty' = hasty /\ cut' = cut
           /\ Total(alloc', unspent') + Cost(x) = Total(alloc, unspent)
           /\ ChangeIsNew' /\ PendingIsBalanced'
<1> DEFINE in == tx(x).inputs
           out == tx(x).out
           change == tx(x).change
<1>1. /\ in \in SUBSET unspent /\ out \in Outs \ unspent /\ out < next
      /\ change \in Nat /\ Spend(in, out, change) /\ Cost(x) \in Nat
  BY TxType DEF ChangeIsNew
<1>2. Total(alloc, in) = Cost(x) + change
  BY DEF PendingIsBalanced
<1>3. \A y \in Payers : Pending(y)' =>
        /\ tx(y)' = tx(y) /\ Cost(y)' = Cost(y) /\ Pending(y)
        /\ out \notin tx(y).inputs /\ tx(y).out # out
  BY DEF ChangeIsNew
<1> HIDE DEF in, out, change
<1>4. /\ alloc' \in [Outs -> Nat] /\ unspent' \in SUBSET Outs
      /\ unspent' = (unspent \ in) \cup {out} /\ spentSince' = Channels
      /\ hasty' = hasty /\ cut' = cut
      /\ \A S \in SUBSET (unspent \ in) : Total(alloc', S) = Total(alloc, S)
      /\ Total(alloc', unspent') + Total(alloc, in) = Total(alloc, unspent) + change
  BY <1>1, SpendTotals
<1>5. Total(alloc', unspent') + Cost(x) = Total(alloc, unspent)
  <2>1. Total(alloc, unspent) \in Nat /\ Total(alloc', unspent') \in Nat
    BY <1>4, OutputTotals DEF TypeOK
  <2> QED
    BY <1>1, <1>2, <1>4, <2>1
<1>6. ChangeIsNew'
  <2>1. \A o \in unspent' : o < next'
    BY <1>1, <1>4 DEF ChangeIsNew
  <2>2. \A y \in Payers : Pending(y)' =>
          /\ tx(y)'.out \in Outs \ unspent' /\ tx(y)'.out < next'
          /\ \A o \in tx(y)'.inputs : o < next'
    BY <1>3, <1>4 DEF ChangeIsNew
  <2>3. \A y, z \in Payers : Pending(y)' /\ Pending(z)' =>
          /\ tx(z)'.out \notin tx(y)'.inputs
          /\ y # z => tx(y)'.out # tx(z)'.out
    BY <1>3 DEF ChangeIsNew
  <2> QED
    BY <2>1, <2>2, <2>3 DEF ChangeIsNew
<1>7. PendingIsBalanced'
  <2> SUFFICES ASSUME NEW y \in Payers, Pending(y)', tx(y)'.inputs \subseteq unspent'
               PROVE  Total(alloc', tx(y)'.inputs) = Cost(y)' + tx(y)'.change
    BY DEF PendingIsBalanced
  <2>1. /\ tx(y)' = tx(y) /\ Cost(y)' = Cost(y) /\ Pending(y)
        /\ tx(y).inputs \in SUBSET (unspent \ in)
    BY <1>3, <1>4
  <2>2. tx(y).inputs \subseteq unspent
    BY <2>1
  <2>3. Total(alloc, tx(y).inputs) = Cost(y) + tx(y).change
    BY <2>1, <2>2 DEF PendingIsBalanced
  <2> QED
    BY <1>4, <2>1, <2>3
<1> QED
  BY <1>4, <1>5, <1>6, <1>7

(* The supply, and no channel. *)
LEMMA InitAInv == Init => AInv
<1> SUFFICES ASSUME Init PROVE AInv
  OBVIOUS
<1>1. /\ DOMAIN Supply = 1 .. Len(Supply) /\ DOMAIN Supply \in SUBSET Outs
      /\ Len(Supply) \in Nat /\ Len(Supply) + 1 \in 1 .. MaxOut + 1
      /\ \A o \in DOMAIN Supply : Supply[o] \in Nat
  BY ChannelFundingAssumption DEF Outs
<1>2. /\ NoFunding \in Fundings /\ NoFunding.colored = FALSE
      /\ NoSend \in Sends /\ NoSend.at = "none"
  BY ChannelFundingAssumption DEF NoFunding, Fundings, NoSend, Sends
<1>3. alloc \in [Outs -> Nat] /\ \A o \in DOMAIN Supply : alloc[o] = Supply[o]
  BY <1>1 DEF Init
<1>4. TypeOK
  <2>1. stage \in [Channels -> Stages] /\ funding \in [Channels -> Fundings]
    BY <1>2 DEF Init, Stages
  <2>2. lost \in BOOLEAN
    BY DEF Init
  <2>3. /\ unspent \in SUBSET Outs /\ accepted \in SUBSET Outs /\ sent \in Nat
        /\ next \in 1 .. MaxOut + 1 /\ restarts \in 0 .. MaxRestarts
    BY <1>1, ChannelFundingAssumption DEF Init
  <2>4. /\ command \in Channels \cup {NoChannel} /\ info \in SUBSET Channels
        /\ send \in Sends /\ panic \in Channels \cup {NoChannel, Sending}
        /\ spentSince \in SUBSET Channels /\ hasty \in SUBSET Channels
        /\ cut \in SUBSET Outs
    BY <1>2 DEF Init
  <2> QED
    BY <1>3, <2>1, <2>2, <2>3, <2>4 DEF TypeOK
<1>5. (\A x \in Payers : ~ Pending(x)) /\ Funded = {}
  BY <1>2 DEF Init, Payers, Pending, Funded, Late
<1>6. ChangeIsNew /\ PendingIsBalanced /\ StillCovered
  <2>1. unspent = 1 .. Len(Supply) /\ next = Len(Supply) + 1
    BY <1>1 DEF Init
  <2> QED
    BY <1>1, <1>5, <2>1 DEF Init, ChangeIsNew, PendingIsBalanced, StillCovered
<1>7. IsFiniteSet(Funded)
  BY <1>5, FS_EmptySet
<1>8. NothingIsLost
  <2>1. IsFiniteSet(DOMAIN Supply)
    BY <1>1, FS_Interval
  <2>2. Total(Supply, DOMAIN Supply) = Total(alloc, DOMAIN Supply)
    BY <1>1, <1>3, <2>1, TotalSame
  <2>3. Total(Supply, DOMAIN Supply) \in Nat
    BY <1>1, <2>1, TotalRemoveAny
  <2>4. InChannels = 0
    BY <1>5, <1>7, TotalRemoveAny DEF InChannels, Funded, Late
  <2> QED
    BY <2>2, <2>3, <2>4 DEF Init, NothingIsLost
<1>9. BuiltInTime
  BY <1>2 DEF Init, BuiltInTime, Late
<1> QED
  BY <1>4, <1>6, <1>7, <1>8, <1>9, NoChannelIsNone
     DEF AInv, Init, UncoveredOnlyIfSpentSince

(* A step that moves no asset and builds no transaction; a send may end. *)
LEMMA QuietStep ==
    ASSUME AInv, UNCHANGED <<alloc, unspent, sent, next, funding>>, TypeOK',
           send' = send \/ send' = NoSend,
           \A ch \in Channels : Pending(ch)' => Pending(ch),
           \A ch \in Channels : ch \in Funded' <=> ch \in Funded,
           \A ch \in Channels : /\ stage'[ch] \in Early => stage[ch] \in Early
                                /\ stage'[ch] \in Late => stage[ch] \in Late,
           StillCovered', UncoveredOnlyIfSpentSince'
    PROVE  AInv'
<1>1. Funded' = Funded
  BY DEF Funded
<1>2. \A x \in Payers : Pending(x)' =>
        Pending(x) /\ tx(x)' = tx(x) /\ Cost(x)' = Cost(x)
  <2> SUFFICES ASSUME NEW x \in Payers, Pending(x)'
               PROVE  Pending(x) /\ tx(x)' = tx(x) /\ Cost(x)' = Cost(x)
    OBVIOUS
  <2>1. CASE x = Sending
    <3>1. send' = send
      BY <2>1 DEF Pending, NoSend
    <3> QED
      BY <2>1, <3>1 DEF Pending, tx, Cost
  <2>2. CASE x # Sending
    BY <2>2 DEF Payers, tx, Cost
  <2> QED
    BY <2>1, <2>2
<1>3. ChangeIsNew'
  BY <1>2 DEF AInv, ChangeIsNew
<1>4. PendingIsBalanced'
  BY <1>2 DEF AInv, PendingIsBalanced
<1>5. NothingIsLost'
  BY <1>1 DEF AInv, NothingIsLost, InChannels, Funded, Late
<1>6. BuiltInTime'
  BY DEF AInv, BuiltInTime, NoSend
<1> QED
  BY <1>1, <1>3, <1>4, <1>5, <1>6 DEF AInv

(* The balance does not shrink when more of the history is known. *)
LEMMA BalanceGrows ==
    ASSUME TypeOK, TypeOK', UNCHANGED <<alloc, unspent>>, accepted \subseteq accepted',
           NEW amount \in Nat, Enough(amount)
    PROVE  Enough(amount)'
<1> DEFINE old == get_asset_owned_values
           new == get_asset_owned_values'
<1>1. old \in SUBSET new /\ new \in SUBSET Outs /\ alloc' = alloc
  BY DEF get_asset_owned_values, TypeOK
<1>2. amount <= Total(alloc, old)
  BY DEF Enough, get_rgb_total_amount
<1>3. Enough(amount)' <=> amount <= Total(alloc, new)
  BY <1>1 DEF Enough, get_rgb_total_amount
<1> HIDE DEF old, new
<1>4. Total(alloc, new) = Total(alloc, old) + Total(alloc, new \ old)
  <2>1. \A S \in SUBSET Outs : \A T \in SUBSET S :
          Total(alloc, S) = Total(alloc, T) + Total(alloc, S \ T)
    BY OutputTotals DEF TypeOK
  <2> QED
    BY <1>1, <2>1
<1>5. Total(alloc, old) \in Nat /\ Total(alloc, new \ old) \in Nat
  BY <1>1, OutputTotals DEF TypeOK
<1> QED
  BY <1>2, <1>3, <1>4, <1>5

(* Some channels move on, the wallet stays as it is. *)
LEMMA StageStep ==
    ASSUME AInv, UNCHANGED <<wealth, send, funding, spentSince>>, TypeOK',
           panic' = panic,
           \A c \in Channels :
             /\ stage'[c] \in {"posting", "given"} => stage[c] \in {"posting", "given"}
             /\ stage'[c] \in Late <=> stage[c] \in Late
             /\ stage'[c] \in {"checked", "opening", "generating"} =>
                  stage[c] \in {"checked", "opening", "generating"}
             /\ stage'[c] \in Early => stage[c] \in Early
    PROVE  AInv'
<1>1. /\ alloc' = alloc /\ unspent' = unspent /\ accepted' = accepted
      /\ sent' = sent /\ next' = next /\ funding' = funding
      /\ send' = send /\ spentSince' = spentSince
  BY DEF wealth
<1>2. \A c \in Channels : Pending(c)' => Pending(c)
  BY <1>1, ChannelFundingAssumption DEF Pending
<1>3. \A c \in Channels : c \in Funded' <=> c \in Funded
  BY <1>1 DEF Funded
<1>4. \A c \in Channels : Enough(Amount[c])' <=> Enough(Amount[c])
  BY <1>1 DEF Enough, get_rgb_total_amount, get_asset_owned_values
<1>5. StillCovered'
  BY <1>1, <1>4 DEF AInv, StillCovered
<1>6. UncoveredOnlyIfSpentSince'
  BY <1>1 DEF AInv, UncoveredOnlyIfSpentSince
<1> QED
  BY <1>1, <1>2, <1>3, <1>5, <1>6, QuietStep

(* Nothing happens. *)
LEMMA StutterAmounts ==
    ASSUME AInv, UNCHANGED vars
    PROVE  AInv'
<1>1. UNCHANGED <<wealth, send, funding, spentSince, panic, stage>>
  BY DEF vars, cli, notes
<1>2. TypeOK'
  BY DEF vars, wealth, cli, notes, AInv, TypeOK
<1> QED
  BY <1>1, <1>2, StageStep

(* opencoloredchannel. *)
LEMMA CommandAmounts ==
    ASSUME AInv, NEW ch \in Channels,
           CheckBalance(ch) \/ open_channel(ch) \/ write_rgb_channel_info(ch)
    PROVE  AInv'
<1>1. CASE CheckBalance(ch)
  <2>1. /\ alloc' = alloc /\ unspent' = unspent /\ accepted' = accepted
        /\ sent' = sent /\ next' = next /\ funding' = funding /\ send' = send
        /\ panic' = panic /\ Running /\ spentSince' = spentSince \ {ch}
        /\ stage[ch] = "none" /\ Enough(Amount[ch])
    BY <1>1 DEF CheckBalance, wealth
  <2>2. stage'[ch] = "checked" /\ \A c \in Channels \ {ch} : stage'[c] = stage[c]
    BY <1>1 DEF CheckBalance, AInv, TypeOK, Move
  <2>3. TypeOK'
    BY <1>1 DEF CheckBalance, AInv, TypeOK, Move, Stages, wealth
  <2>4. \A c \in Channels : Pending(c)' => Pending(c)
    BY <2>1, <2>2, ChannelFundingAssumption DEF Pending
  <2>5. \A c \in Channels : c \in Funded' <=> c \in Funded
    BY <2>1, <2>2 DEF Funded, Late
  <2>6. \A c \in Channels : Enough(Amount[c])' <=> Enough(Amount[c])
    BY <2>1 DEF Enough, get_rgb_total_amount, get_asset_owned_values
  <2>7. StillCovered'
    BY <2>1, <2>2, <2>6 DEF AInv, StillCovered
  <2>8. UncoveredOnlyIfSpentSince'
    BY <2>1, NoChannelIsNone DEF Running, UncoveredOnlyIfSpentSince
  <2> QED
    BY <2>1, <2>2, <2>3, <2>4, <2>5, <2>7, <2>8, QuietStep DEF Early, Late
<1>2. CASE open_channel(ch)
  <2>1. PICK s \in {"opening", "failed"} : Move(ch, s)
    BY <1>2 DEF open_channel
  <2>2. /\ stage[ch] = "checked"
        /\ UNCHANGED <<wealth, send, funding, panic, spentSince>>
    BY <1>2 DEF open_channel, notes
  <2>3. stage'[ch] = s /\ \A c \in Channels \ {ch} : stage'[c] = stage[c]
    BY <2>1 DEF AInv, TypeOK, Move
  <2>4. TypeOK'
    BY <1>2, <2>1 DEF open_channel, AInv, TypeOK, Move, Stages, wealth, notes
  <2> QED
    BY <2>2, <2>3, <2>4, StageStep DEF Early, Late
<1>3. CASE write_rgb_channel_info(ch)
  <2>1. UNCHANGED <<wealth, send, funding, panic, spentSince, stage>>
    BY <1>3 DEF write_rgb_channel_info, notes
  <2>2. TypeOK'
    BY <1>3 DEF write_rgb_channel_info, AInv, TypeOK, wealth, notes
  <2> QED
    BY <2>1, <2>2, StageStep
<1> QED
  BY <1>1, <1>2, <1>3

(* The peer's answers, the task, the chain, the end of a channel. *)
LEMMA PeerAmounts ==
    ASSUME AInv, NEW ch \in Channels,
           \/ PeerAccepts(ch) \/ PostConsignment(ch) \/ FundingFails(ch)
           \/ FundingLocked(ch) \/ ChannelCloses(ch)
    PROVE  AInv'
<1>1. PICK s \in {"generating", "given", "failed", "locked", "closed"} :
        /\ Move(ch, s)
        /\ s = "generating" => stage[ch] = "opening"
        /\ s = "given" => stage[ch] = "posting"
        /\ s = "failed" => stage[ch] \in {"posting", "opening", "generating", "given"}
        /\ s \in {"locked", "closed"} => stage[ch] = "broadcast"
  BY DEF PeerAccepts, PostConsignment, FundingFails, FundingLocked, ChannelCloses
<1>2. /\ UNCHANGED <<wealth, command, send, info, funding, panic, restarts, notes>>
      /\ lost' \in BOOLEAN
  BY DEF PeerAccepts, PostConsignment, FundingFails, FundingLocked, ChannelCloses,
         cli, AInv, TypeOK
<1>3. stage'[ch] = s /\ \A c \in Channels \ {ch} : stage'[c] = stage[c]
  BY <1>1 DEF AInv, TypeOK, Move
<1>4. TypeOK'
  BY <1>1, <1>2 DEF AInv, TypeOK, Move, Stages, wealth, notes
<1>5. UNCHANGED <<wealth, send, funding, panic, spentSince>>
  BY <1>2 DEF notes
<1>6. \A c \in Channels :
        /\ stage'[c] \in {"posting", "given"} => stage[c] \in {"posting", "given"}
        /\ stage'[c] \in Late <=> stage[c] \in Late
        /\ stage'[c] \in {"checked", "opening", "generating"} =>
             stage[c] \in {"checked", "opening", "generating"}
        /\ stage'[c] \in Early => stage[c] \in Early
  BY <1>1, <1>3 DEF Early, Late
<1> QED
  BY <1>4, <1>5, <1>6, StageStep

(* A send or another command ends: nothing moves, the balance may grow.    *)
LEMMA SendEndAmounts ==
    ASSUME AInv, PostOfSendFails \/ accept_transfer \/ LeaveRuntimeOpen
    PROVE  AInv'
<1>1. /\ alloc' = alloc /\ unspent' = unspent /\ sent' = sent /\ next' = next
      /\ command' = command /\ info' = info /\ stage' = stage /\ funding' = funding
      /\ panic' = panic /\ restarts' = restarts
      /\ spentSince' = spentSince /\ hasty' = hasty /\ cut' = cut
      /\ send' = send \/ send' = NoSend
  BY DEF PostOfSendFails, accept_transfer, LeaveRuntimeOpen, wealth, notes
<1>2. TypeOK
  BY DEF AInv
<1>3. accepted \subseteq accepted' /\ accepted' \in SUBSET Outs
  <2>1. send.at = "accept" => send.out \in Outs
    BY DEF AInv, BuiltInTime
  <2> QED
    BY <1>2, <2>1 DEF PostOfSendFails, accept_transfer, LeaveRuntimeOpen, wealth, TypeOK
<1>4. TypeOK'
  <2>1. NoSend \in Sends
    BY ChannelFundingAssumption DEF NoSend, Sends
  <2>2. lost' \in BOOLEAN
    BY <1>2 DEF PostOfSendFails, accept_transfer, LeaveRuntimeOpen, TypeOK
  <2> QED
    BY <1>1, <1>2, <1>3, <2>1, <2>2 DEF TypeOK
<1>5. \A c \in Channels : Pending(c)' => Pending(c)
  BY <1>1, ChannelFundingAssumption DEF Pending
<1>6. \A c \in Channels : c \in Funded' <=> c \in Funded
  BY <1>1 DEF Funded
<1>7. \A c \in Channels : Enough(Amount[c]) => Enough(Amount[c])'
  <2>1. \A c \in Channels : Amount[c] \in Nat
    BY ChannelFundingAssumption
  <2> QED
    BY <1>1, <1>2, <1>3, <1>4, <2>1, BalanceGrows
<1>8. StillCovered' /\ UncoveredOnlyIfSpentSince'
  BY <1>1, <1>7 DEF AInv, StillCovered, UncoveredOnlyIfSpentSince
<1> QED
  BY <1>1, <1>4, <1>5, <1>6, <1>8, QuietStep

(* A restart forgets transactions and moves nothing. *)
LEMMA RestartAmounts ==
    ASSUME AInv, Restart
    PROVE  AInv'
<1>1. /\ alloc' = alloc /\ unspent' = unspent /\ accepted' = accepted
      /\ sent' = sent /\ next' = next /\ funding' = funding /\ send' = NoSend
      /\ panic' = NoChannel /\ spentSince' = spentSince
      /\ \A c \in Channels : stage'[c] = IF stage[c] \in {"none"} \cup Late
                                          THEN stage[c] ELSE "failed"
  BY DEF Restart, wealth, Late
<1>2. TypeOK'
  <2>1. stage' \in [Channels -> Stages] /\ restarts' \in 0 .. MaxRestarts
    BY ChannelFundingAssumption DEF Restart, AInv, TypeOK, Stages
  <2>2. command' = NoChannel /\ info' = info /\ hasty' = hasty /\ lost' = FALSE
    BY DEF Restart
  <2>3. NoSend \in Sends
    BY ChannelFundingAssumption DEF NoSend, Sends
  <2>4. cut' \in SUBSET Outs
    <3>1. send.at = "accept" => send.out \in Outs
      BY DEF AInv, BuiltInTime
    <3> QED
      BY <3>1 DEF Restart, AInv, TypeOK
  <2> QED
    BY <1>1, <2>1, <2>2, <2>3, <2>4 DEF AInv, TypeOK
<1>3. \A c \in Channels : Pending(c)' => Pending(c)
  BY <1>1, ChannelFundingAssumption DEF Pending
<1>4. \A c \in Channels : c \in Funded' <=> c \in Funded
  BY <1>1 DEF Funded, Late
<1>5. StillCovered' /\ UncoveredOnlyIfSpentSince'
  <2>1. \A c \in Channels : stage'[c] \notin {"checked", "opening", "generating"}
    BY <1>1 DEF Late
  <2> QED
    BY <1>1, <2>1, NoChannelIsNone DEF StillCovered, UncoveredOnlyIfSpentSince
<1> QED
  BY <1>1, <1>2, <1>3, <1>4, <1>5, QuietStep DEF Early, Late

(* sendasset builds its transaction. *)
LEMMA SelectAmounts ==
    ASSUME AInv, NEW amount \in Nat, sendasset(amount)
    PROVE  AInv'
<1>1. PICK inputs \in rgb_inputs(amount) :
        send' = [at |-> "post", inputs |-> inputs, out |-> next,
                 change |-> rgb_change_amount(inputs, amount), amount |-> amount]
  BY DEF sendasset
<1>2. /\ next <= MaxOut /\ Enough(amount) /\ next' = next + 1
      /\ alloc' = alloc /\ unspent' = unspent /\ accepted' = accepted /\ sent' = sent
      /\ command' = command /\ lost' = lost /\ info' = info /\ stage' = stage
      /\ funding' = funding /\ panic' = panic /\ restarts' = restarts
      /\ spentSince' = spentSince /\ hasty' = hasty /\ cut' = cut
  BY DEF sendasset, notes
<1>3. TypeOK /\ ChangeIsNew /\ PendingIsBalanced
  BY DEF AInv
<1>4. /\ inputs \in SUBSET unspent /\ inputs \in SUBSET Outs
      /\ Total(alloc, inputs) \in Nat /\ Total(alloc, inputs) >= amount
  BY <1>2, <1>3, InputsCover
<1> DEFINE change == rgb_change_amount(inputs, amount)
<1>5. change \in Nat /\ change + amount = Total(alloc, inputs)
  BY <1>4 DEF rgb_change_amount
<1>6. next \in Outs
  BY <1>2, <1>3, ChannelFundingAssumption DEF TypeOK, Outs
<1>7. /\ send'.at = "post" /\ send'.inputs = inputs /\ send'.out = next
      /\ send'.change = change /\ send'.amount = amount
  BY <1>1
<1>8. send' \in Sends
  <2>1. next \in 0 .. MaxOut
    BY <1>6 DEF Outs
  <2> QED
    BY <1>1, <1>4, <1>5, <2>1 DEF Sends
<1> HIDE DEF change
<1>9. TypeOK'
  <2>1. next' \in 1 .. MaxOut + 1
    BY <1>2, <1>6, ChannelFundingAssumption DEF Outs
  <2> QED
    BY <1>2, <1>3, <1>8, <2>1 DEF TypeOK
<1>10. ChangeIsNew' /\ PendingIsBalanced'
  <2>1. Sending \in Payers /\ tx(Sending)' = send' /\ Cost(Sending)' = send'.amount
    BY DEF Payers, tx, Cost
  <2>2. \A y \in Payers : y # Sending =>
          (Pending(y)' => Pending(y)) /\ tx(y)' = tx(y) /\ Cost(y)' = Cost(y)
    BY <1>2 DEF Pending, tx, Cost
  <2>3. Total(alloc, send'.inputs) = send'.amount + send'.change
    BY <1>5, <1>7
  <2> QED
    BY <1>2, <1>3, <1>4, <1>7, <2>1, <2>2, <2>3, BuildStep
<1>11. Funded' = Funded /\ IsFiniteSet(Funded')
  BY <1>2 DEF Funded, AInv
<1>12. NothingIsLost'
  BY <1>2 DEF AInv, NothingIsLost, InChannels
<1>13. StillCovered' /\ UncoveredOnlyIfSpentSince'
  BY <1>2 DEF AInv, StillCovered, UncoveredOnlyIfSpentSince, Enough,
              get_rgb_total_amount, get_asset_owned_values
<1>14. BuiltInTime'
  BY <1>2, <1>6, <1>7 DEF AInv, BuiltInTime
<1> QED
  BY <1>9, <1>10, <1>11, <1>12, <1>13, <1>14 DEF AInv

(* The broadcast of a send: the wallet loses the amount, or the process    *)
(* aborts, or both.                                                        *)
LEMMA SendBroadcastAmounts ==
    ASSUME AInv, broadcast_tx
    PROVE  AInv'
<1>1. /\ Running /\ send.at = "post" /\ accepted' = accepted /\ next' = next
      /\ command' = command /\ lost' = lost /\ info' = info /\ stage' = stage
      /\ funding' = funding /\ restarts' = restarts
      /\ panic' \in {NoChannel, Sending}
  BY DEF broadcast_tx
<1>2. TypeOK /\ ChangeIsNew /\ PendingIsBalanced /\ IsFiniteSet(Funded)
  BY DEF AInv
<1>3. UncoveredOnlyIfSpentSince'
  BY <1>1, ChannelFundingAssumption DEF UncoveredOnlyIfSpentSince
<1>4. CASE /\ send.inputs \subseteq unspent
           /\ Spend(send.inputs, send.out, send.change)
           /\ sent' = sent + send.amount
           /\ send' = [send EXCEPT !.at = "accept"]
  <2>1. Sending \in Payers /\ tx(Sending) = send /\ Cost(Sending) = send.amount
    BY DEF Payers, tx, Cost
  <2>2. /\ send' \in Sends /\ send'.at = "accept" /\ send'.out = send.out
        /\ send.amount \in Nat
    BY <1>2, <1>4 DEF TypeOK, Sends
  <2>3. \A y \in Payers : Pending(y)' =>
          y # Sending /\ Pending(y) /\ tx(y)' = tx(y) /\ Cost(y)' = Cost(y)
    BY <1>1, <2>2 DEF Pending, tx, Cost
  <2>4. /\ alloc' \in [Outs -> Nat] /\ unspent' \in SUBSET Outs
        /\ spentSince' = Channels /\ hasty' = hasty /\ cut' = cut
        /\ Total(alloc', unspent') + send.amount = Total(alloc, unspent)
        /\ ChangeIsNew' /\ PendingIsBalanced'
    <3>1. Pending(Sending)
      BY <1>1 DEF Pending
    <3> QED
      BY <1>1, <1>2, <1>4, <2>1, <2>3, <3>1, SpendStep
  <2>5. sent' \in Nat
    BY <1>2, <1>4, <2>2 DEF TypeOK
  <2>6. TypeOK'
    BY <1>1, <1>2, <2>2, <2>4, <2>5 DEF TypeOK
  <2>7. Funded' = Funded
    BY <1>1 DEF Funded
  <2>8. InChannels' = InChannels /\ InChannels \in Nat
    BY <1>1, <1>2, <2>7, TotalRemoveAny, ChannelFundingAssumption
       DEF InChannels, Funded, Late
  <2>9. NothingIsLost'
    <3>1. Total(alloc, unspent) \in Nat /\ Total(alloc', unspent') \in Nat /\ sent \in Nat
      BY <1>2, <2>4, OutputTotals DEF TypeOK
    <3>2. Total(alloc, unspent) + sent + InChannels = Total(Supply, DOMAIN Supply)
      BY DEF AInv, NothingIsLost
    <3>3. Total(alloc', unspent') + sent' + InChannels' = Total(Supply, DOMAIN Supply)
      BY <1>4, <2>2, <2>4, <2>8, <3>1, <3>2
    <3> QED
      BY <3>3 DEF NothingIsLost
  <2>10. StillCovered'
    BY <2>4 DEF StillCovered
  <2>11. BuiltInTime'
    BY <1>1, <2>2 DEF AInv, BuiltInTime
  <2> QED
    BY <1>2, <1>3, <2>4, <2>6, <2>7, <2>9, <2>10, <2>11 DEF AInv
<1>5. CASE /\ panic' = Sending
           /\ UNCHANGED <<alloc, unspent, sent, send, notes>>
  <2>1. /\ alloc' = alloc /\ unspent' = unspent /\ sent' = sent /\ send' = send
        /\ spentSince' = spentSince /\ hasty' = hasty /\ cut' = cut
    BY <1>5 DEF notes
  <2>2. TypeOK'
    BY <1>1, <1>2, <2>1 DEF TypeOK
  <2>3. StillCovered'
    BY <1>1, <2>1 DEF AInv, StillCovered, Enough, get_rgb_total_amount,
                      get_asset_owned_values
  <2>4. \A c \in Channels : Pending(c)' => Pending(c)
    BY <1>1, <2>1 DEF Pending
  <2>5. \A c \in Channels : c \in Funded' <=> c \in Funded
    BY <1>1 DEF Funded
  <2> QED
    BY <1>1, <1>3, <2>1, <2>2, <2>3, <2>4, <2>5, QuietStep
<1> QED
  BY <1>4, <1>5 DEF broadcast_tx

(* FundingGenerationReady builds a funding with a new output, or panics.   *)
LEMMA GenerationAmounts ==
    ASSUME AInv, NEW ch \in Channels, FundingGenerationReady(ch)
    PROVE  AInv'
<1>1. /\ Running /\ stage[ch] = "generating"
      /\ alloc' = alloc /\ unspent' = unspent /\ accepted' = accepted
      /\ sent' = sent /\ command' = command /\ send' = send /\ lost' = lost
      /\ info' = info /\ restarts' = restarts /\ spentSince' = spentSince
      /\ cut' = cut /\ hasty' \in SUBSET Channels
  BY DEF FundingGenerationReady, AInv, TypeOK, cli
<1>2. TypeOK /\ ChangeIsNew /\ PendingIsBalanced
  BY DEF AInv
<1>3. \A c \in Channels : Enough(Amount[c])' <=> Enough(Amount[c])
  BY <1>1 DEF Enough, get_rgb_total_amount, get_asset_owned_values
<1>0. \A c \in Channels : c # Sending
  BY ChannelFundingAssumption
<1>4. CASE ch \notin info
  <2>1. Move(ch, "given") /\ next' = next /\ funding' = funding /\ panic' = panic
    BY <1>4 DEF FundingGenerationReady
  <2>2. stage'[ch] = "given" /\ \A c \in Channels \ {ch} : stage'[c] = stage[c]
    BY <1>2, <2>1 DEF TypeOK, Move
  <2>3. ~ funding[ch].colored
    BY <1>1 DEF AInv, BuiltInTime, Early, Late
  <2>4. TypeOK'
    BY <1>1, <1>2, <2>1 DEF TypeOK, Move, Stages
  <2>5. \A c \in Channels : Pending(c)' => Pending(c)
    BY <1>0, <2>1, <2>2, <2>3 DEF Pending
  <2>6. \A c \in Channels : c \in Funded' <=> c \in Funded
    BY <1>1, <2>1, <2>2 DEF Funded, Late
  <2>7. StillCovered' /\ UncoveredOnlyIfSpentSince'
    BY <1>1, <1>3, <2>1, <2>2 DEF AInv, StillCovered, UncoveredOnlyIfSpentSince
  <2> QED
    BY <1>1, <2>1, <2>2, <2>4, <2>5, <2>6, <2>7, QuietStep DEF Early, Late
<1>5. ASSUME ch \in info, NEW inputs \in rgb_inputs(Amount[ch]),
             ~ Subtracts(inputs, Amount[ch]), panic' = ch,
             UNCHANGED <<next, stage, funding>>
      PROVE  AInv'
  <2>1. Amount[ch] \in Nat
    BY ChannelFundingAssumption
  <2>2. ~ Enough(Amount[ch])
    BY <1>2, <1>5, <2>1, InputsCover DEF Subtracts
  <2>3. ch \in spentSince
    BY <1>1, <2>2 DEF AInv, StillCovered
  <2>4. TypeOK'
    BY <1>1, <1>2, <1>5 DEF TypeOK
  <2>5. StillCovered'
    BY <1>1, <1>3, <1>5 DEF AInv, StillCovered
  <2>6. UncoveredOnlyIfSpentSince'
    BY <1>1, <1>5, <2>3 DEF UncoveredOnlyIfSpentSince
  <2>7. \A c \in Channels : Pending(c)' => Pending(c)
    BY <1>0, <1>5 DEF Pending
  <2>8. \A c \in Channels : c \in Funded' <=> c \in Funded
    BY <1>5 DEF Funded
  <2> QED
    BY <1>1, <1>5, <2>4, <2>5, <2>6, <2>7, <2>8, QuietStep
<1>6. ASSUME ch \in info, next <= MaxOut, NEW inputs \in rgb_inputs(Amount[ch]),
             Subtracts(inputs, Amount[ch]),
             funding' = [funding EXCEPT ![ch] =
                          [colored |-> TRUE, inputs |-> inputs, out |-> next,
                           change |-> rgb_change_amount(inputs, Amount[ch])]],
             next' = next + 1, Move(ch, "posting"), panic' = panic
      PROVE  AInv'
  <2>1. Amount[ch] \in Nat
    BY ChannelFundingAssumption
  <2>2. /\ inputs \in SUBSET unspent /\ inputs \in SUBSET Outs
        /\ Total(alloc, inputs) \in Nat /\ Total(alloc, inputs) >= Amount[ch]
    BY <1>2, <1>6, <2>1, InputsCover DEF Subtracts
  <2> DEFINE new == [colored |-> TRUE, inputs |-> inputs, out |-> next,
                     change |-> rgb_change_amount(inputs, Amount[ch])]
  <2>3. new.change \in Nat /\ Amount[ch] + new.change = Total(alloc, inputs)
    BY <2>1, <2>2 DEF rgb_change_amount
  <2>4. next \in Outs
    BY <1>2, <1>6, ChannelFundingAssumption DEF TypeOK, Outs
  <2>5. new \in Fundings
    <3>1. next \in 0 .. MaxOut /\ TRUE \in BOOLEAN
      BY <2>4, ChannelFundingAssumption DEF Outs
    <3> QED
      BY <2>2, <2>3, <3>1 DEF Fundings
  <2>6. new.colored /\ new.inputs = inputs /\ new.out = next
    OBVIOUS
  <2>7. funding' = [funding EXCEPT ![ch] = new]
    BY <1>6
  <2> HIDE DEF new
  <2>8. /\ stage'[ch] = "posting" /\ \A c \in Channels \ {ch} : stage'[c] = stage[c]
        /\ funding'[ch] = new /\ \A c \in Channels \ {ch} : funding'[c] = funding[c]
    BY <1>2, <1>6, <2>7 DEF TypeOK, Move
  <2>9. TypeOK'
    <3>1. funding' \in [Channels -> Fundings] /\ stage' \in [Channels -> Stages]
      BY <1>2, <1>6, <2>5, <2>7 DEF TypeOK, Move, Stages
    <3>2. next' \in 1 .. MaxOut + 1
      BY <1>6, <2>4, ChannelFundingAssumption DEF Outs
    <3> QED
      BY <1>1, <1>2, <1>6, <3>1, <3>2 DEF TypeOK
  <2>10. ChangeIsNew' /\ PendingIsBalanced'
    <3>1. ch \in Payers /\ tx(ch)' = new /\ Cost(ch)' = Amount[ch]
      BY <1>0, <2>8 DEF Payers, tx, Cost
    <3>2. \A y \in Payers : y # ch =>
            (Pending(y)' => Pending(y)) /\ tx(y)' = tx(y) /\ Cost(y)' = Cost(y)
      BY <1>1, <2>8 DEF Payers, Pending, tx, Cost
    <3>3. Total(alloc, new.inputs) = Amount[ch] + new.change
      BY <2>3, <2>6
    <3> QED
      BY <1>1, <1>2, <1>6, <2>2, <2>6, <3>1, <3>2, <3>3, BuildStep
  <2>11. Funded' = Funded
    BY <1>1, <2>8 DEF Funded, Late
  <2>12. NothingIsLost'
    BY <1>1, <2>11 DEF AInv, NothingIsLost, InChannels, Funded, Late
  <2>13. StillCovered' /\ UncoveredOnlyIfSpentSince'
    BY <1>1, <1>3, <1>6, <2>8 DEF AInv, StillCovered, UncoveredOnlyIfSpentSince
  <2>14. BuiltInTime'
    BY <1>1, <2>8 DEF AInv, BuiltInTime, Early, Late
  <2> QED
    BY <2>9, <2>10, <2>11, <2>12, <2>13, <2>14 DEF AInv
<1> QED
  BY <1>4, <1>5, <1>6 DEF FundingGenerationReady

(* A funding is broadcast: the wallet loses what the channel gets. *)
LEMMA BroadcastAmounts ==
    ASSUME AInv, NEW ch \in Channels, BroadcastFunding(ch)
    PROVE  AInv'
<1>1. /\ Running /\ stage[ch] = "given" /\ funding[ch].colored
      /\ funding[ch].inputs \subseteq unspent /\ Move(ch, "broadcast")
      /\ Spend(funding[ch].inputs, funding[ch].out, funding[ch].change)
      /\ accepted' = accepted /\ sent' = sent /\ next' = next /\ command' = command
      /\ send' = send /\ lost' = lost /\ info' = info /\ funding' = funding
      /\ panic' = panic /\ restarts' = restarts
  BY DEF BroadcastFunding, cli
<1>2. TypeOK /\ ChangeIsNew /\ PendingIsBalanced
  BY DEF AInv
<1>3. ch # Sending /\ ch \in Payers /\ Amount[ch] \in Nat
  BY ChannelFundingAssumption DEF Payers
<1>4. /\ Pending(ch) /\ tx(ch) = funding[ch] /\ Cost(ch) = Amount[ch]
      /\ funding[ch].out \in Outs
  BY <1>1, <1>2, <1>3 DEF Pending, tx, Cost, ChangeIsNew
<1>5. stage'[ch] = "broadcast" /\ \A c \in Channels \ {ch} : stage'[c] = stage[c]
  BY <1>1, <1>2 DEF TypeOK, Move
<1>6. \A y \in Payers : Pending(y)' =>
        y # ch /\ Pending(y) /\ tx(y)' = tx(y) /\ Cost(y)' = Cost(y)
  BY <1>1, <1>3, <1>5 DEF Payers, Pending, tx, Cost
<1>7. /\ alloc' \in [Outs -> Nat] /\ unspent' \in SUBSET Outs
      /\ spentSince' = Channels /\ hasty' = hasty /\ cut' = cut
      /\ Total(alloc', unspent') + Amount[ch] = Total(alloc, unspent)
      /\ ChangeIsNew' /\ PendingIsBalanced'
  BY <1>1, <1>2, <1>3, <1>4, <1>6, SpendStep
<1>8. TypeOK'
  BY <1>1, <1>2, <1>7 DEF TypeOK, Move, Stages
<1>9. Funded' = Funded \cup {ch} /\ ch \notin Funded
  BY <1>1, <1>5 DEF Funded, Late
<1>10. IsFiniteSet(Funded) /\ IsFiniteSet(Funded')
  BY <1>9, FS_AddElement DEF AInv
<1>11. InChannels' = Amount[ch] + InChannels /\ InChannels \in Nat
  <2>1. Funded' \ {ch} = Funded /\ ch \in Funded'
    BY <1>9
  <2>2. \A c \in Funded' : Amount[c] \in Nat
    BY ChannelFundingAssumption DEF Funded
  <2>3. Total(Amount, Funded') = Amount[ch] + Total(Amount, Funded)
    BY <1>10, <2>1, <2>2, TotalRemove
  <2>4. Total(Amount, Funded) \in Nat
    BY <1>9, <1>10, <2>2, TotalRemoveAny
  <2> QED
    BY <2>3, <2>4 DEF InChannels, Funded, Late
<1>12. NothingIsLost'
  <2>1. Total(alloc, unspent) \in Nat /\ Total(alloc', unspent') \in Nat /\ sent \in Nat
    BY <1>2, <1>7, OutputTotals DEF TypeOK
  <2>2. Total(alloc, unspent) + sent + InChannels = Total(Supply, DOMAIN Supply)
    BY DEF AInv, NothingIsLost
  <2>3. Total(alloc', unspent') + sent' + InChannels' = Total(Supply, DOMAIN Supply)
    BY <1>1, <1>3, <1>7, <1>11, <2>1, <2>2
  <2> QED
    BY <2>3 DEF NothingIsLost
<1>13. StillCovered' /\ UncoveredOnlyIfSpentSince'
  BY <1>1, <1>7, NoChannelIsNone DEF StillCovered, UncoveredOnlyIfSpentSince, Running
<1>14. BuiltInTime'
  BY <1>1, <1>4, <1>5 DEF AInv, BuiltInTime, Early, Late
<1> QED
  BY <1>7, <1>8, <1>10, <1>12, <1>13, <1>14 DEF AInv

(* ChannelReady adds the change to the balance. *)
LEMMA ReadyAmounts ==
    ASSUME AInv, NEW ch \in Channels, ChannelReady(ch)
    PROVE  AInv'
<1>1. /\ stage[ch] = "locked" /\ Move(ch, "ready")
      /\ accepted' = accepted \cup {funding[ch].out}
      /\ alloc' = alloc /\ unspent' = unspent /\ sent' = sent /\ next' = next
      /\ command' = command /\ send' = send /\ lost' = lost /\ info' = info
      /\ funding' = funding /\ panic' = panic /\ restarts' = restarts
      /\ spentSince' = spentSince /\ hasty' = hasty /\ cut' = cut
  BY DEF ChannelReady, notes, cli
<1>2. TypeOK
  BY DEF AInv
<1>3. stage'[ch] = "ready" /\ \A c \in Channels \ {ch} : stage'[c] = stage[c]
  BY <1>1, <1>2 DEF TypeOK, Move
<1>4. TypeOK'
  <2>1. funding[ch].out \in Outs
    BY <1>1 DEF AInv, BuiltInTime, Late
  <2> QED
    BY <1>1, <1>2, <2>1 DEF TypeOK, Move, Stages
<1>5. \A c \in Channels : Pending(c)' => Pending(c)
  BY <1>1, <1>3, ChannelFundingAssumption DEF Pending
<1>6. \A c \in Channels : c \in Funded' <=> c \in Funded
  BY <1>1, <1>3 DEF Funded, Late
<1>7. \A c \in Channels : Enough(Amount[c]) => Enough(Amount[c])'
  <2>1. \A c \in Channels : Amount[c] \in Nat
    BY ChannelFundingAssumption
  <2> QED
    BY <1>1, <1>2, <1>4, <2>1, BalanceGrows
<1>8. StillCovered' /\ UncoveredOnlyIfSpentSince'
  BY <1>1, <1>3, <1>7 DEF AInv, StillCovered, UncoveredOnlyIfSpentSince
<1> QED
  BY <1>1, <1>3, <1>4, <1>5, <1>6, <1>8, QuietStep DEF Early, Late

(* The amounts are right in every state. *)
THEOREM AmountInvariance == Spec => []AInv
<1>1. AInv /\ [Next]_vars => AInv'
  <2> SUFFICES ASSUME AInv, [Next]_vars PROVE AInv'
    OBVIOUS
  <2>1. ASSUME NEW amount \in 1 .. get_rgb_total_amount, sendasset(amount)
        PROVE  AInv'
    <3>1. amount \in Nat
      <4>1. get_asset_owned_values \in SUBSET Outs
        BY DEF get_asset_owned_values, AInv, TypeOK
      <4>2. get_rgb_total_amount \in Nat
        BY <4>1, OutputTotals DEF get_rgb_total_amount, AInv, TypeOK
      <4> QED
        BY <4>2
    <3> QED
      BY <2>1, <3>1, SelectAmounts
  <2>2. CASE UNCHANGED vars
    BY <2>2, StutterAmounts
  <2> QED
    BY <2>1, <2>2, CommandAmounts, PeerAmounts, SendEndAmounts, GenerationAmounts,
       SendBroadcastAmounts, BroadcastAmounts, ReadyAmounts, RestartAmounts DEF Next
<1> QED
  BY InitAInv, <1>1, PTL DEF Spec

(* Allocations, outputs, stages and fundings keep their types: above all,  *)
(* no change is negative.                                                  *)
THEOREM TypeCorrect == Spec => []TypeOK
<1>1. AInv => TypeOK
  BY DEF AInv
<1> QED
  BY <1>1, AmountInvariance, PTL

(* Whatever commands, fundings, failures and restarts overlap, the supply  *)
(* is what the wallet holds, what was sent and what the channels hold.     *)
THEOREM NothingIsLostAlways == Spec => []NothingIsLost
<1>1. AInv => NothingIsLost
  BY DEF AInv
<1> QED
  BY <1>1, AmountInvariance, PTL

(* FundingGenerationReady subtracts below zero only for a channel after    *)
(* whose balance check the asset was spent.                                *)
THEOREM UncoveredOnlyIfSpentSinceAlways == Spec => []UncoveredOnlyIfSpentSince
<1>1. AInv => UncoveredOnlyIfSpentSince
  BY DEF AInv
<1> QED
  BY <1>1, AmountInvariance, PTL
=============================================================================
