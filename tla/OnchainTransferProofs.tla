------------------------ MODULE OnchainTransferProofs -----------------------
(***************************************************************************)
(* Proofs about OnchainTransfer for any number of blinded outputs,         *)
(* transfers and crashes.                                                  *)
(*                                                                         *)
(* The properties relate the payer's transactions, the proxy and the       *)
(* receiver's files.  IInv adds what each command relies on in the middle: *)
(* the payer's is about the last transfer made, which it posts before it   *)
(* broadcasts; what the proxy serves and refresh holds under a blinded     *)
(* output is a transfer to that output.                                    *)
(***************************************************************************)
EXTENDS OnchainTransfer, TLAPS

(* Transfers are made to blinded outputs that were handed out. *)
MadeToHanded == \A t \in Made : transfer[t].seal \in handed

(* The payer's command and its transfer. *)
PayerInStep ==
    /\ payer.at # "idle" => payer.transfer = tries /\ tries \in Made
    /\ payer.at \in {"post", "broadcast"} => transfer[tries].stage = "made"
    /\ payer.at = "broadcast" => proxy[transfer[tries].seal] = tries

(* What the proxy keeps under a blinded output. *)
ProxyInStep ==
    \A s \in Seals : proxy[s] # Nothing =>
                       proxy[s] \in Made /\ transfer[proxy[s]].seal = s

(* What refresh holds. *)
RefreshInStep ==
    /\ credited \subseteq Made
    /\ refresh.at = "get" => refresh.seal \in Seals
    /\ refresh.at \in {"got", "accepted"} =>
         /\ refresh.seal \in Seals
         /\ refresh.transfer \in Made
         /\ transfer[refresh.transfer].seal = refresh.seal
    /\ refresh.at = "accepted" =>
         /\ refresh.transfer \in credited
         /\ transfer[refresh.transfer].stage = "mined"

(* Change is missing from the payer's history because its command is about *)
(* to accept it or a crash kept it from doing so.                          *)
MissingChange ==
    \A o \in Sent :
      o \in history \cup hidden \/ payer = [at |-> "accept", transfer |-> o]

IInv ==
    /\ TypeOK
    /\ MadeToHanded /\ PayerInStep /\ ProxyInStep /\ RefreshInStep /\ MissingChange
    /\ PaidIsClaimable /\ DoneIsMined

USE OnchainTransferAssumption DEF Made, Transfers, Nothing, On, Sent, TriedAgain,
    Idle, NoRefresh

(* Nothing is made, posted or credited at first. *)
LEMMA InitIInv == Init => IInv
BY DEF Init, IInv, TypeOK, MadeToHanded, PayerInStep, ProxyInStep, RefreshInStep,
       MissingChange, PaidIsClaimable, DoneIsMined, Refreshes

(* The receiver hands out a blinded output. *)
LEMMA receiveassetStep ==
    ASSUME IInv, NEW s \in Seals, receiveasset(s)
    PROVE  IInv'
<1> USE DEF IInv, receiveasset
<1>1. TypeOK'
  BY DEF TypeOK
<1>2. MadeToHanded' /\ ProxyInStep' /\ PayerInStep' /\ RefreshInStep'
  BY DEF MadeToHanded, ProxyInStep, PayerInStep, RefreshInStep
<1>3. MissingChange' /\ PaidIsClaimable'
  BY DEF MissingChange, PaidIsClaimable
<1>4. DoneIsMined'
  BY DEF DoneIsMined
<1> QED
  BY <1>1, <1>2, <1>3, <1>4

(* The payer makes a transfer: all earlier ones stay as they are. *)
LEMMA sendassetStep ==
    ASSUME IInv, NEW s \in Seals, sendasset(s)
    PROVE  IInv'
<1> USE DEF IInv
<1>1. PICK o \in get_asset_owned_values :
        transfer' = [transfer EXCEPT ![tries + 1] =
          [seal |-> s, input |-> o, change |-> rgb_change_amount(o), stage |-> "made"]]
  BY DEF sendasset
<1>2. o \in 0 .. MaxSends /\ rgb_change_amount(o) \in 0 .. Supply
  BY DEF get_asset_owned_values, rgb_change_amount, Change, TypeOK
<1>3. /\ tries \in Nat /\ tries + 1 \in Transfers /\ tries' = tries + 1
      /\ transfer'[tries + 1].seal = s /\ transfer'[tries + 1].stage = "made"
      /\ \A t \in Made : t \in Transfers /\ t # tries + 1 /\ transfer'[t] = transfer[t]
      /\ Made' = Made \cup {tries + 1}
  BY <1>1 DEF TypeOK, sendasset
<1>4. TypeOK'
  <2>1. transfer' \in [Transfers ->
          [seal : Seals \cup {NoSeal}, input : 0 .. MaxSends, change : 0 .. Supply,
           stage : {"made", "broadcast", "mined"}]]
    BY <1>1, <1>2, <1>3 DEF TypeOK
  <2>2. payer' \in [at : {"idle", "post", "broadcast", "accept", "stuck"},
                    transfer : 0 .. MaxSends]
    BY <1>3 DEF TypeOK, sendasset
  <2> QED
    BY <1>3, <2>1, <2>2 DEF TypeOK, sendasset
<1>5. Sent' = Sent
  BY <1>3
<1>6. MadeToHanded' /\ ProxyInStep' /\ PayerInStep'
  BY <1>3 DEF MadeToHanded, ProxyInStep, PayerInStep, sendasset
<1>7. RefreshInStep' /\ DoneIsMined'
  BY <1>3 DEF RefreshInStep, DoneIsMined, sendasset
<1>8. MissingChange'
  BY <1>3, <1>5 DEF MissingChange, sendasset
<1>9. PaidIsClaimable'
  BY <1>3, <1>5 DEF PaidIsClaimable, sendasset
<1> QED
  BY <1>4, <1>6, <1>7, <1>8, <1>9

(* A step of transfer t to a later stage: seals, inputs and amounts stay. *)
LEMMA StageStep ==
    ASSUME TypeOK, NEW t \in Transfers, NEW stage \in {"broadcast", "mined"},
           transfer' = [transfer EXCEPT ![t].stage = stage]
    PROVE  /\ transfer' \in [Transfers ->
                [seal : Seals \cup {NoSeal}, input : 0 .. MaxSends,
                 change : 0 .. Supply, stage : {"made", "broadcast", "mined"}]]
           /\ \A u \in Transfers : transfer'[u].seal = transfer[u].seal
           /\ \A u \in Transfers : transfer'[u].stage =
                                    IF u = t THEN stage ELSE transfer[u].stage
BY DEF TypeOK

(* The post replaces what the proxy had under this blinded output:         *)
(* earlier transfers to it were tried again.                               *)
LEMMA postStep ==
    ASSUME IInv, NEW stored \in BOOLEAN, NEW answered \in BOOLEAN,
           post_consignment(stored, answered)
    PROVE  IInv'
<1> DEFINE s == transfer[tries].seal
<1> USE DEF IInv
<1>1. /\ payer.transfer = tries /\ tries \in Made /\ tries \in Transfers
      /\ s \in Seals /\ transfer[tries].stage = "made"
  BY DEF post_consignment, PayerInStep, MadeToHanded, TypeOK
<1>2. /\ proxy' = IF stored THEN [proxy EXCEPT ![s] = tries] ELSE proxy
      /\ payer' = [payer EXCEPT !.at = IF stored /\ answered THEN "broadcast" ELSE "stuck"]
      /\ UNCHANGED <<handed, files, tries, transfer, history, complete, credited,
                     refresh, crashes, hidden>>
  BY <1>1 DEF post_consignment
<1>3. /\ payer' \in [at : {"broadcast", "stuck"}, transfer : {tries}]
      /\ payer'.at = "broadcast" => stored
  BY <1>1, <1>2 DEF TypeOK
<1>4. TypeOK'
  BY <1>1, <1>2, <1>3 DEF TypeOK
<1>5. MadeToHanded' /\ ProxyInStep' /\ PayerInStep' /\ RefreshInStep'
  BY <1>1, <1>2, <1>3 DEF MadeToHanded, ProxyInStep, PayerInStep, RefreshInStep, TypeOK
<1>6. MissingChange' /\ DoneIsMined'
  BY <1>2, <1>3 DEF MissingChange, DoneIsMined, post_consignment
<1>7. PaidIsClaimable'
  <2> SUFFICES ASSUME NEW t \in Sent, ~ TriedAgain(t)
               PROVE  proxy'[transfer[t].seal] = t
    BY <1>2 DEF PaidIsClaimable
  <2>1. t \in Made /\ t # tries /\ t < tries
    BY <1>1 DEF TypeOK
  <2>2. transfer[t].seal # s
    BY <1>1, <2>1
  <2>3. proxy[transfer[t].seal] = t /\ transfer[t].seal \in Seals
    BY DEF PaidIsClaimable, MadeToHanded, TypeOK
  <2> QED
    BY <1>2, <2>2, <2>3 DEF TypeOK
<1> QED
  BY <1>4, <1>5, <1>6, <1>7

(* Only a posted transfer is broadcast. *)
LEMMA broadcastStep ==
    ASSUME IInv, broadcast_tx
    PROVE  IInv'
<1> USE DEF IInv
<1>1. /\ payer.transfer = tries /\ tries \in Made /\ tries \in Transfers
      /\ transfer[tries].stage = "made"
      /\ proxy[transfer[tries].seal] = tries
  BY DEF broadcast_tx, PayerInStep, TypeOK
<1>2. /\ transfer' \in [Transfers ->
                [seal : Seals \cup {NoSeal}, input : 0 .. MaxSends,
                 change : 0 .. Supply, stage : {"made", "broadcast", "mined"}]]
      /\ \A u \in Transfers : transfer'[u].seal = transfer[u].seal
      /\ \A u \in Transfers : transfer'[u].stage =
                              IF u = tries THEN "broadcast" ELSE transfer[u].stage
  BY <1>1, StageStep DEF broadcast_tx
<1>3. payer' = [at |-> "accept", transfer |-> tries]
  BY <1>1 DEF broadcast_tx, TypeOK
<1>4. /\ Sent' = Sent \cup {tries} /\ Made' = Made
      /\ Made \subseteq Transfers /\ Sent \subseteq Made
  BY <1>1, <1>2 DEF broadcast_tx, TypeOK
<1>5. TypeOK'
  BY <1>1, <1>2, <1>3 DEF TypeOK, broadcast_tx
<1>6. MadeToHanded' /\ ProxyInStep' /\ PayerInStep'
  BY <1>1, <1>2, <1>3, <1>4 DEF MadeToHanded, ProxyInStep, PayerInStep, broadcast_tx
<1>7. RefreshInStep' /\ DoneIsMined'
  BY <1>1, <1>2, <1>4 DEF RefreshInStep, DoneIsMined, broadcast_tx
<1>8. MissingChange'
  <2> SUFFICES ASSUME NEW o \in Sent'
               PROVE  o \in history \cup hidden \/ payer' = [at |-> "accept", transfer |-> o]
    BY DEF MissingChange, broadcast_tx
  <2>1. CASE o \in Sent
    <3>1. payer # [at |-> "accept", transfer |-> o]
      BY DEF broadcast_tx
    <3> QED
      BY <2>1, <3>1 DEF MissingChange
  <2> QED
    BY <1>3, <1>4, <2>1
<1>9. PaidIsClaimable'
  <2> SUFFICES ASSUME NEW t \in Sent'
               PROVE  TriedAgain(t)' \/ proxy[transfer[t].seal] = t
    BY <1>2, <1>4 DEF PaidIsClaimable, broadcast_tx
  <2>1. TriedAgain(t) => TriedAgain(t)'
    <3>1. t \in Transfers
      BY <1>1, <1>4
    <3>2. SUFFICES ASSUME NEW u \in Made, u > t, transfer[u].seal = transfer[t].seal
                   PROVE  u \in Made' /\ transfer'[u].seal = transfer'[t].seal
      OBVIOUS
    <3>3. u \in Transfers
      BY <1>4
    <3> QED
      BY <1>2, <1>4, <3>1, <3>2, <3>3
  <2> QED
    BY <1>1, <1>4, <2>1 DEF PaidIsClaimable
<1> QED
  BY <1>5, <1>6, <1>7, <1>8, <1>9

(* The payer accepts its own transfer. *)
LEMMA acceptStep ==
    ASSUME IInv, accept_transfer
    PROVE  IInv'
<1> USE DEF IInv
<1>1. payer.transfer = tries /\ tries \in Made /\ payer' = Idle
  BY DEF accept_transfer, PayerInStep, TypeOK
<1>2. TypeOK'
  <2>1. transfer[tries].seal \in handed /\ tries \in 0 .. MaxSends
    BY <1>1 DEF TypeOK, MadeToHanded
  <2>2. complete' \in SUBSET handed /\ history' \in SUBSET (0 .. MaxSends)
    BY <1>1, <2>1 DEF TypeOK, accept_transfer
  <2>3. Idle \in [at : {"idle", "post", "broadcast", "accept", "stuck"},
                  transfer : 0 .. MaxSends]
    OBVIOUS
  <2> QED
    BY <1>1, <2>2, <2>3 DEF TypeOK, accept_transfer
<1>3. MadeToHanded' /\ ProxyInStep' /\ PayerInStep' /\ RefreshInStep'
  BY <1>1 DEF MadeToHanded, ProxyInStep, PayerInStep, RefreshInStep, accept_transfer
<1>4. MissingChange'
  BY <1>1 DEF MissingChange, accept_transfer
<1>5. PaidIsClaimable' /\ DoneIsMined'
  BY DEF PaidIsClaimable, DoneIsMined, accept_transfer
<1> QED
  BY <1>2, <1>3, <1>4, <1>5

(* A cut-off command is noted when its change goes missing. *)
LEMMA PayerRestartsStep ==
    ASSUME IInv, PayerRestarts
    PROVE  IInv'
<1> USE DEF IInv
<1>1. payer.transfer = tries /\ tries \in Made /\ payer' = Idle
  BY DEF PayerRestarts, PayerInStep
<1>2. TypeOK'
  <2>1. hidden' \in SUBSET Transfers
    BY <1>1 DEF TypeOK, PayerRestarts
  <2>2. crashes' \in 0 .. MaxCrashes
    BY DEF TypeOK, PayerRestarts
  <2>3. Idle \in [at : {"idle", "post", "broadcast", "accept", "stuck"},
                  transfer : 0 .. MaxSends]
    OBVIOUS
  <2> QED
    BY <1>1, <2>1, <2>2, <2>3 DEF TypeOK, PayerRestarts
<1>3. MadeToHanded' /\ ProxyInStep' /\ PayerInStep' /\ RefreshInStep'
  BY <1>1 DEF MadeToHanded, ProxyInStep, PayerInStep, RefreshInStep, PayerRestarts
<1>4. MissingChange'
  BY <1>1 DEF MissingChange, PayerRestarts
<1>5. PaidIsClaimable' /\ DoneIsMined'
  BY DEF PaidIsClaimable, DoneIsMined, PayerRestarts
<1> QED
  BY <1>2, <1>3, <1>4, <1>5

(* Mining a transfer changes its stage only. *)
LEMMA MinedStep ==
    ASSUME IInv, NEW m \in Made, Mined(m)
    PROVE  IInv'
<1> USE DEF IInv
<1>1. /\ m \in Transfers /\ transfer[m].stage = "broadcast"
      /\ Made \subseteq Transfers /\ Made' = Made
  BY DEF Mined, TypeOK
<1>2. /\ transfer' \in [Transfers ->
                [seal : Seals \cup {NoSeal}, input : 0 .. MaxSends,
                 change : 0 .. Supply, stage : {"made", "broadcast", "mined"}]]
      /\ \A u \in Transfers : transfer'[u].seal = transfer[u].seal
      /\ \A u \in Transfers : transfer'[u].stage =
                              IF u = m THEN "mined" ELSE transfer[u].stage
  BY <1>1, StageStep DEF Mined
<1>3. Sent' = Sent
  BY <1>1, <1>2
<1>4. TypeOK'
  BY <1>2 DEF TypeOK, Mined
<1>5. MadeToHanded' /\ ProxyInStep' /\ PayerInStep'
  BY <1>1, <1>2 DEF MadeToHanded, ProxyInStep, PayerInStep, Mined
<1>6. RefreshInStep' /\ DoneIsMined'
  BY <1>1, <1>2 DEF RefreshInStep, DoneIsMined, Mined
<1>7. MissingChange'
  BY <1>3 DEF MissingChange, Mined
<1>8. PaidIsClaimable'
  BY <1>1, <1>2, <1>3 DEF PaidIsClaimable, Mined
<1> QED
  BY <1>4, <1>5, <1>6, <1>7, <1>8

(* Going on to the next file. *)
LEMMA ContinueType ==
    ASSUME refresh \in Refreshes
    PROVE  Continue \in Refreshes /\ Continue.at = "next"
BY DEF Continue, Refreshes

(* A step of the loop that changes refresh alone and ends before a file is *)
(* accepted.                                                               *)
LEMMA LoopStep ==
    ASSUME IInv,
           UNCHANGED <<handed, files, tries, transfer, history, complete, payer,
                       proxy, credited, crashes, hidden>>,
           refresh' \in Refreshes, refresh'.at # "accepted",
           refresh'.at = "get" => refresh'.seal \in Seals,
           refresh'.at = "got" => /\ refresh'.seal \in Seals
                                  /\ refresh'.transfer = proxy[refresh'.seal]
                                  /\ refresh'.transfer # Nothing
    PROVE  IInv'
<1> USE DEF IInv
<1>1. TypeOK'
  BY DEF TypeOK
<1>2. MadeToHanded' /\ ProxyInStep' /\ PayerInStep'
  BY DEF MadeToHanded, ProxyInStep, PayerInStep
<1>3. RefreshInStep'
  <2>1. refresh'.at = "get" => refresh'.seal \in Seals
    OBVIOUS
  <2>2. refresh'.at = "got" => /\ refresh'.seal \in Seals
                               /\ refresh'.transfer \in Made
                               /\ transfer[refresh'.transfer].seal = refresh'.seal
    BY DEF ProxyInStep
  <2> QED
    BY <2>1, <2>2 DEF RefreshInStep
<1>4. MissingChange' /\ PaidIsClaimable' /\ DoneIsMined'
  BY DEF MissingChange, PaidIsClaimable, DoneIsMined
<1> QED
  BY <1>1, <1>2, <1>3, <1>4

(* The files of the command are blinded outputs. *)
LEMMA read_dirStep ==
    ASSUME IInv, read_dir
    PROVE  IInv'
<1>1. refresh' = [at |-> "next", seal |-> NoSeal, transfer |-> Nothing,
                  todo |-> files, after |-> complete]
  BY DEF read_dir
<1>2. files \in SUBSET Seals /\ complete \in SUBSET Seals
  BY DEF IInv, TypeOK
<1> QED
  BY <1>1, <1>2, LoopStep DEF read_dir, Refreshes

(* The command comes to a file. *)
LEMMA NextFileStep ==
    ASSUME IInv, NEW s \in Seals, NextFile(s)
    PROVE  IInv'
<1>1. refresh' \in Refreshes /\ refresh'.at = "get" /\ refresh'.seal = s
  BY DEF NextFile, Refreshes, IInv, TypeOK
<1> QED
  BY <1>1, LoopStep DEF NextFile

(* The command fetches what the proxy serves. *)
LEMMA getStep ==
    ASSUME IInv, get_consignment
    PROVE  IInv'
<1>1. refresh \in Refreshes /\ proxy \in [Seals -> 0 .. MaxSends]
      /\ refresh.seal \in Seals
  BY DEF get_consignment, IInv, TypeOK, RefreshInStep
<1>2. /\ refresh' \in Refreshes /\ refresh'.at = "got"
      /\ refresh'.seal = refresh.seal /\ refresh'.transfer = proxy[refresh.seal]
  BY <1>1 DEF get_consignment, Refreshes
<1> QED
  BY <1>1, <1>2, LoopStep DEF get_consignment

(* The command goes on, or ends. *)
LEMMA ContinueStep ==
    ASSUME IInv, unable_to_get \/ refresh_complete
    PROVE  IInv'
<1>1. Continue \in Refreshes /\ Continue.at = "next"
  BY ContinueType DEF IInv, TypeOK
<1>2. NoRefresh \in Refreshes /\ NoRefresh.at = "idle"
  BY DEF Refreshes
<1> QED
  BY <1>1, <1>2, LoopStep DEF unable_to_get, refresh_complete

(* refresh accepts it, for good if it is mined. *)
LEMMA refreshStep ==
    ASSUME IInv, refresh_accept
    PROVE  IInv'
<1> DEFINE t == refresh.transfer
<1> USE DEF IInv
<1>1. t \in Made /\ t \in Transfers /\ transfer[t].seal = refresh.seal
  BY DEF refresh_accept, RefreshInStep, TypeOK
<1>2. credited' \in {credited, credited \cup {t}}
  BY DEF refresh_accept
<1>3. \/ refresh' = [refresh EXCEPT !.at = "accepted"] /\ Valid(t) /\ t \in credited'
      \/ refresh' = Continue
      \/ refresh' = [NoRefresh EXCEPT !.at = "aborted"]
  BY DEF refresh_accept
<1>4. TypeOK'
  <2>1. refresh' \in Refreshes
    <3>1. CASE refresh' = [refresh EXCEPT !.at = "accepted"]
      BY <3>1 DEF TypeOK, Refreshes
    <3>2. CASE refresh' = Continue
      BY <3>2, ContinueType DEF TypeOK
    <3>3. CASE refresh' = [NoRefresh EXCEPT !.at = "aborted"]
      <4>1. refresh' = [at |-> "aborted", seal |-> NoSeal, transfer |-> Nothing,
                        todo |-> {}, after |-> {}]
        BY <3>3
      <4> QED
        BY <4>1 DEF Refreshes
    <3> QED
      BY <1>3, <3>1, <3>2, <3>3
  <2>2. credited' \in SUBSET Transfers
    BY <1>1, <1>2 DEF TypeOK
  <2> QED
    BY <2>1, <2>2 DEF TypeOK, refresh_accept
<1>5. MadeToHanded' /\ ProxyInStep' /\ PayerInStep'
  BY DEF MadeToHanded, ProxyInStep, PayerInStep, refresh_accept
<1>6. RefreshInStep'
  BY <1>1, <1>2, <1>3 DEF RefreshInStep, TypeOK, Refreshes, Continue, Valid, refresh_accept
<1>7. MissingChange' /\ PaidIsClaimable'
  BY DEF MissingChange, PaidIsClaimable, refresh_accept
<1>8. DoneIsMined'
  BY <1>2 DEF DoneIsMined, refresh_accept
<1> QED
  BY <1>4, <1>5, <1>6, <1>7, <1>8

(* The file goes last. *)
LEMMA removeStep ==
    ASSUME IInv, remove_file
    PROVE  IInv'
<1> USE DEF IInv
<1>0. refresh' = Continue /\ Continue \in Refreshes /\ Continue.at = "next"
  BY ContinueType DEF TypeOK, remove_file
<1>1. TypeOK'
  BY <1>0 DEF TypeOK, remove_file
<1>2. MadeToHanded' /\ ProxyInStep' /\ PayerInStep' /\ RefreshInStep'
  BY <1>0 DEF MadeToHanded, ProxyInStep, PayerInStep, RefreshInStep, remove_file
<1>3. MissingChange' /\ PaidIsClaimable'
  BY DEF MissingChange, PaidIsClaimable, remove_file
<1>4. DoneIsMined'
  BY DEF DoneIsMined, RefreshInStep, remove_file
<1> QED
  BY <1>1, <1>2, <1>3, <1>4

(* The receiver's files and history outlive it. *)
LEMMA ReceiverRestartsStep ==
    ASSUME IInv, ReceiverRestarts
    PROVE  IInv'
<1> USE DEF IInv
<1>1. TypeOK'
  <2>1. NoRefresh \in Refreshes /\ crashes' \in 0 .. MaxCrashes
    BY DEF TypeOK, Refreshes, ReceiverRestarts
  <2> QED
    BY <2>1 DEF TypeOK, ReceiverRestarts
<1>2. MadeToHanded' /\ ProxyInStep' /\ PayerInStep' /\ RefreshInStep'
  BY DEF MadeToHanded, ProxyInStep, PayerInStep, RefreshInStep, ReceiverRestarts
<1>3. MissingChange' /\ PaidIsClaimable' /\ DoneIsMined'
  BY DEF MissingChange, PaidIsClaimable, DoneIsMined, ReceiverRestarts
<1> QED
  BY <1>1, <1>2, <1>3

(* The invariant holds in every state. *)
THEOREM Invariance == Spec => []IInv
<1>1. IInv /\ [Next]_vars => IInv'
  <2> SUFFICES ASSUME IInv, [Next]_vars PROVE IInv'
    OBVIOUS
  <2>1. CASE UNCHANGED vars
    <3>1. TypeOK'
      BY <2>1 DEF vars, IInv, TypeOK
    <3>2. MadeToHanded' /\ ProxyInStep' /\ PayerInStep' /\ RefreshInStep'
      BY <2>1 DEF vars, IInv, MadeToHanded, ProxyInStep, PayerInStep, RefreshInStep
    <3>3. MissingChange' /\ PaidIsClaimable' /\ DoneIsMined'
      BY <2>1 DEF vars, IInv, MissingChange, PaidIsClaimable, DoneIsMined
    <3> QED
      BY <3>1, <3>2, <3>3 DEF IInv
  <2> QED
    BY <2>1, receiveassetStep, sendassetStep, postStep, broadcastStep, acceptStep,
       PayerRestartsStep, MinedStep, read_dirStep, NextFileStep, getStep,
       ContinueStep, refreshStep, removeStep, ReceiverRestartsStep DEF Next
<1> QED
  BY InitIInv, <1>1, PTL DEF Spec

(* Transfers, commands and files keep their types. *)
THEOREM TypeCorrect == Spec => []TypeOK
<1>1. IInv => TypeOK
  BY DEF IInv
<1> QED
  BY <1>1, Invariance, PTL

(* What sendasset broadcasts can be fetched from the proxy under the       *)
(* receiver's blinded output, unless the user has sent to it again.        *)
THEOREM PaidIsClaimableAlways == Spec => []PaidIsClaimable
<1>1. IInv => PaidIsClaimable
  BY DEF IInv
<1> QED
  BY <1>1, Invariance, PTL

(* refresh removes the file of a blinded output only after it has accepted *)
(* a mined transfer to it.                                                 *)
THEOREM DoneIsMinedAlways == Spec => []DoneIsMined
<1>1. IInv => DoneIsMined
  BY DEF IInv
<1> QED
  BY <1>1, Invariance, PTL

(* Change that sendasset leaves out of the balance was cut off by a crash  *)
(* between its broadcast and its acceptance, or is just being accepted.    *)
THEOREM HiddenChangeNeedsCrashAlways == Spec => []HiddenChangeNeedsCrash
<1>1. IInv => HiddenChangeNeedsCrash
  BY DEF IInv, MissingChange, HiddenChangeNeedsCrash
<1> QED
  BY <1>1, Invariance, PTL
=============================================================================
