------------------------- MODULE RuntimeLockProofs --------------------------
(***************************************************************************)
(* Proofs about RuntimeLock for any operations, outcomes, tasks and number *)
(* of swept outputs.                                                       *)
(*                                                                         *)
(* The properties speak of one lock operation, a path of all of them.      *)
(* What carries over from step to step is that the rest of a thread's path *)
(* is lawful for the locks the thread holds: there is a sequence of        *)
(* holdings, beginning with its own, in which every lock operation is a    *)
(* legal move.                                                             *)
(***************************************************************************)
EXTENDS RuntimeLock, TLAPS

LockSteps == {GetRuntime, DropRuntime, LockWallet, DropWallet}

Holdings == {"none", "runtime", "wallet", "both"}

(* The locks of a thread. *)
Held(t) ==
    IF runtime = t THEN IF wallet = t THEN "both" ELSE "runtime"
                   ELSE IF wallet = t THEN "wallet" ELSE "none"

(* What operation o may do while it holds h, and what it holds then.  Only *)
(* the funding of a coloured channel opens the runtime under the wallet.   *)
Move(o, h, step, g) ==
    \/ step = GetRuntime /\ h = "none" /\ g = "runtime"
    \/ step = GetRuntime /\ h = "wallet" /\ g = "both" /\ o = "FundingColored"
    \/ step = DropRuntime /\ h = "runtime" /\ g = "none"
    \/ step = DropRuntime /\ h = "both" /\ g = "wallet"
    \/ step = LockWallet /\ h = "none" /\ g = "wallet"
    \/ step = LockWallet /\ h = "runtime" /\ g = "both"
    \/ step = DropWallet /\ h = "wallet" /\ g = "none"
    \/ step = DropWallet /\ h = "both" /\ g = "runtime"

(* What it may still hold at its end. *)
End(o, k, h) == h = "none" \/ (h = "runtime" /\ o \in LeavesRuntimeOpen /\ k = "err")

(* A path of o that begins with h and ends with g. *)
Leads(path, o, h, g) ==
    \E held \in [1 .. Len(path) + 1 -> Holdings] :
      /\ held[1] = h /\ held[Len(path) + 1] = g
      /\ \A i \in 1 .. Len(path) : Move(o, held[i], path[i], held[i + 1])

Lawful(path, h, o, k) ==
    \E g \in Holdings : Leads(path, o, h, g) /\ End(o, k, g)

IInv ==
    /\ TypeOK
    /\ todo \in [Threads -> Seq(LockSteps)]
    /\ \A t \in Threads : op[t] = "idle" => Held(t) = "none"
    /\ \A t \in Threads : op[t] # "idle" => Lawful(todo[t], Held(t), op[t], exit[t])
    /\ RuntimeLostOnlyThere

-----------------------------------------------------------------------------
(* Paths. *)

(* One path after the other. *)
LEMMA LeadsConcat ==
    ASSUME NEW p \in Seq(LockSteps), NEW q \in Seq(LockSteps), NEW o,
           NEW h, NEW g, NEW f, Leads(p, o, h, g), Leads(q, o, g, f)
    PROVE  p \o q \in Seq(LockSteps) /\ Leads(p \o q, o, h, f)
<1>1. PICK a \in [1 .. Len(p) + 1 -> Holdings] :
        /\ a[1] = h /\ a[Len(p) + 1] = g
        /\ \A i \in 1 .. Len(p) : Move(o, a[i], p[i], a[i + 1])
  BY DEF Leads
<1>2. PICK b \in [1 .. Len(q) + 1 -> Holdings] :
        /\ b[1] = g /\ b[Len(q) + 1] = f
        /\ \A i \in 1 .. Len(q) : Move(o, b[i], q[i], b[i + 1])
  BY DEF Leads
<1> DEFINE r == p \o q
           c == [i \in 1 .. Len(r) + 1 |-> IF i <= Len(p) THEN a[i] ELSE b[i - Len(p)]]
<1>3. /\ r \in Seq(LockSteps) /\ Len(p) \in Nat /\ Len(q) \in Nat
      /\ Len(r) = Len(p) + Len(q)
      /\ \A i \in 1 .. Len(p) : r[i] = p[i]
      /\ \A i \in Len(p) + 1 .. Len(r) : r[i] = q[i - Len(p)]
  OBVIOUS
<1> HIDE DEF r
<1>4. c \in [1 .. Len(r) + 1 -> Holdings]
  BY <1>3
<1>5. c[1] = h /\ c[Len(r) + 1] = f
  BY <1>1, <1>2, <1>3
<1>6. ASSUME NEW i \in 1 .. Len(r) PROVE Move(o, c[i], r[i], c[i + 1])
  <2>1. CASE i < Len(p)
    <3>1. c[i] = a[i] /\ c[i + 1] = a[i + 1] /\ r[i] = p[i] /\ i \in 1 .. Len(p)
      BY <1>3, <2>1
    <3> QED
      BY <1>1, <3>1
  <2>2. CASE i = Len(p)
    <3>1. c[i] = a[i] /\ c[i + 1] = b[1] /\ r[i] = p[i] /\ i \in 1 .. Len(p)
      BY <1>3, <2>2
    <3>2. b[1] = a[i + 1]
      BY <1>1, <1>2, <2>2
    <3> QED
      BY <1>1, <3>1, <3>2
  <2>3. CASE i > Len(p)
    <3> DEFINE j == i - Len(p)
    <3>1. /\ j \in 1 .. Len(q) /\ c[i] = b[j] /\ r[i] = q[j]
          /\ c[i + 1] = b[j + 1]
      BY <1>3, <2>3
    <3> HIDE DEF j
    <3> QED
      BY <1>2, <3>1
  <2> QED
    BY <1>3, <2>1, <2>2, <2>3
<1> HIDE DEF c
<1>7. Leads(r, o, h, f)
  BY <1>4, <1>5, <1>6 DEF Leads
<1> QED
  BY <1>3, <1>7 DEF r

(* Paths of no, one and two operations. *)
LEMMA LeadsNowhere ==
    ASSUME NEW o, NEW h \in Holdings
    PROVE  <<>> \in Seq(LockSteps) /\ Leads(<<>>, o, h, h)
<1> DEFINE held == [i \in 1 .. 1 |-> h]
<1>1. held \in [1 .. Len(<<>>) + 1 -> Holdings] /\ held[1] = h /\ held[Len(<<>>) + 1] = h
  OBVIOUS
<1>2. \A i \in 1 .. Len(<<>>) : Move(o, held[i], <<>>[i], held[i + 1])
  OBVIOUS
<1>3. <<>> \in Seq(LockSteps)
  OBVIOUS
<1> HIDE DEF held
<1>4. \E a \in [1 .. Len(<<>>) + 1 -> Holdings] :
        /\ a[1] = h /\ a[Len(<<>>) + 1] = h
        /\ \A i \in 1 .. Len(<<>>) : Move(o, a[i], <<>>[i], a[i + 1])
  BY <1>1, <1>2
<1> QED
  BY <1>3, <1>4 DEF Leads

(* A path of one operation. *)
LEMMA LeadsOne ==
    ASSUME NEW o, NEW step \in LockSteps, NEW h \in Holdings, NEW g \in Holdings,
           Move(o, h, step, g)
    PROVE  <<step>> \in Seq(LockSteps) /\ Leads(<<step>>, o, h, g)
<1> DEFINE held == [i \in 1 .. 2 |-> IF i = 1 THEN h ELSE g]
<1>1. /\ held \in [1 .. Len(<<step>>) + 1 -> Holdings] /\ held[1] = h
      /\ held[Len(<<step>>) + 1] = g /\ held[2] = g
  OBVIOUS
<1>2. \A i \in 1 .. Len(<<step>>) : i = 1 /\ <<step>>[i] = step
  OBVIOUS
<1> HIDE DEF held
<1>3. \A i \in 1 .. Len(<<step>>) : Move(o, held[i], <<step>>[i], held[i + 1])
  BY <1>1, <1>2
<1> QED
  BY <1>1, <1>3 DEF Leads

(* A path of two operations. *)
LEMMA LeadsTwo ==
    ASSUME NEW o, NEW s1 \in LockSteps, NEW s2 \in LockSteps,
           NEW h \in Holdings, NEW g \in Holdings, NEW f \in Holdings,
           Move(o, h, s1, g), Move(o, g, s2, f)
    PROVE  <<s1, s2>> \in Seq(LockSteps) /\ Leads(<<s1, s2>>, o, h, f)
<1> DEFINE held == [i \in 1 .. 3 |-> IF i = 1 THEN h ELSE IF i = 2 THEN g ELSE f]
<1>1. /\ held \in [1 .. Len(<<s1, s2>>) + 1 -> Holdings] /\ held[1] = h
      /\ held[Len(<<s1, s2>>) + 1] = f /\ held[2] = g /\ held[3] = f
  OBVIOUS
<1>2. /\ Len(<<s1, s2>>) = 2 /\ <<s1, s2>>[1] = s1 /\ <<s1, s2>>[2] = s2
  OBVIOUS
<1> HIDE DEF held
<1>3. \A i \in 1 .. Len(<<s1, s2>>) : Move(o, held[i], <<s1, s2>>[i], held[i + 1])
  <2> SUFFICES ASSUME NEW i \in 1 .. Len(<<s1, s2>>)
               PROVE  Move(o, held[i], <<s1, s2>>[i], held[i + 1])
    OBVIOUS
  <2>1. CASE i = 1
    BY <1>1, <1>2, <2>1
  <2>2. CASE i = 2
    BY <1>1, <1>2, <2>2
  <2> QED
    BY <1>2, <2>1, <2>2
<1> QED
  BY <1>1, <1>3 DEF Leads

(* A lock operation is done: the rest leads on from what is held now. *)
LEMMA LeadsTail ==
    ASSUME NEW path \in Seq(LockSteps), path # <<>>, NEW o, NEW h, NEW g,
           Leads(path, o, h, g)
    PROVE  /\ Tail(path) \in Seq(LockSteps)
           /\ \E f \in Holdings : Move(o, h, Head(path), f) /\ Leads(Tail(path), o, f, g)
<1> DEFINE rest == Tail(path)
<1>1. PICK a \in [1 .. Len(path) + 1 -> Holdings] :
        /\ a[1] = h /\ a[Len(path) + 1] = g
        /\ \A i \in 1 .. Len(path) : Move(o, a[i], path[i], a[i + 1])
  BY DEF Leads
<1>2. /\ rest \in Seq(LockSteps) /\ Len(path) \in Nat \ {0} /\ Len(rest) = Len(path) - 1
      /\ \A i \in 1 .. Len(rest) : rest[i] = path[i + 1]
      /\ Head(path) = path[1]
  OBVIOUS
<1> DEFINE b == [i \in 1 .. Len(rest) + 1 |-> a[i + 1]]
<1> HIDE DEF rest
<1>3. b \in [1 .. Len(rest) + 1 -> Holdings] /\ b[1] = a[2] /\ b[Len(rest) + 1] = g
  BY <1>1, <1>2
<1>4. ASSUME NEW i \in 1 .. Len(rest) PROVE Move(o, b[i], rest[i], b[i + 1])
  <2>1. /\ b[i] = a[i + 1] /\ b[i + 1] = a[i + 1 + 1] /\ rest[i] = path[i + 1]
        /\ i + 1 \in 1 .. Len(path)
    BY <1>2
  <2> QED
    BY <1>1, <2>1
<1>5. Move(o, h, path[1], a[2]) /\ a[2] \in Holdings
  BY <1>1, <1>2
<1> HIDE DEF b
<1>6. Leads(rest, o, a[2], g)
  BY <1>3, <1>4 DEF Leads
<1> QED
  BY <1>2, <1>5, <1>6 DEF rest

-----------------------------------------------------------------------------
(* The paths of the operations. *)

(* A path of LockSteps from h to g. *)
Path(path, o, h, g) == path \in Seq(LockSteps) /\ Leads(path, o, h, g)

(* The lock operations and the holdings are what they are called. *)
LEMMA Atoms ==
    /\ GetRuntime \in LockSteps /\ DropRuntime \in LockSteps
    /\ LockWallet \in LockSteps /\ DropWallet \in LockSteps
    /\ "none" \in Holdings /\ "runtime" \in Holdings
    /\ "wallet" \in Holdings /\ "both" \in Holdings
BY DEF LockSteps, Holdings

(* The parts that operations share. *)
LEMMA Parts ==
    ASSUME NEW o
    PROVE  /\ Path(<<>>, o, "none", "none")
           /\ Path(<<GetRuntime>>, o, "none", "runtime")
           /\ Path(<<DropRuntime>>, o, "runtime", "none")
           /\ Path(<<GetRuntime, DropRuntime>>, o, "none", "none")
           /\ Path(<<LockWallet, DropWallet>>, o, "none", "none")
           /\ Path(<<LockWallet, DropWallet>>, o, "runtime", "runtime")
<1>1. Path(<<>>, o, "none", "none")
  BY Atoms, LeadsNowhere DEF Path
<1>2. Path(<<GetRuntime>>, o, "none", "runtime")
  <2>1. Move(o, "none", GetRuntime, "runtime")
    BY DEF Move
  <2> QED
    BY <2>1, Atoms, LeadsOne DEF Path
<1>3. Path(<<DropRuntime>>, o, "runtime", "none")
  <2>1. Move(o, "runtime", DropRuntime, "none")
    BY DEF Move
  <2> QED
    BY <2>1, Atoms, LeadsOne DEF Path
<1>4. Path(<<GetRuntime, DropRuntime>>, o, "none", "none")
  <2>1. Move(o, "none", GetRuntime, "runtime") /\ Move(o, "runtime", DropRuntime, "none")
    BY DEF Move
  <2> QED
    BY <2>1, Atoms, LeadsTwo DEF Path
<1>5. Path(<<LockWallet, DropWallet>>, o, "none", "none")
  <2>1. Move(o, "none", LockWallet, "wallet") /\ Move(o, "wallet", DropWallet, "none")
    BY DEF Move
  <2> QED
    BY <2>1, Atoms, LeadsTwo DEF Path
<1>6. Path(<<LockWallet, DropWallet>>, o, "runtime", "runtime")
  <2>1. Move(o, "runtime", LockWallet, "both") /\ Move(o, "both", DropWallet, "runtime")
    BY DEF Move
  <2> QED
    BY <2>1, Atoms, LeadsTwo DEF Path
<1> QED
  BY <1>1, <1>2, <1>3, <1>4, <1>5, <1>6

(* Paths are put together. *)
LEMMA PathConcat ==
    ASSUME NEW p, NEW q, NEW o, NEW h, NEW g, NEW f, Path(p, o, h, g), Path(q, o, g, f)
    PROVE  Path(p \o q, o, h, f)
BY LeadsConcat DEF Path

(* The balance check and the inputs of sendasset. *)
LEMMA Balances ==
    ASSUME NEW o
    PROVE  /\ Path(BalanceOk, o, "none", "none")
           /\ Path(BalanceErr, o, "none", "runtime")
           /\ Path(SendAssetInputs, o, "none", "runtime")
           /\ Path(open_channel, o, "none", "none")
<1>1. Path(OwnedValues, o, "runtime", "runtime") /\ Path(open_channel, o, "none", "none")
  BY Parts DEF OwnedValues, open_channel
<1>2. Path(BalanceErr, o, "none", "runtime")
  BY <1>1, Parts, PathConcat DEF BalanceErr
<1>3. Path(BalanceOk, o, "none", "none")
  BY <1>2, Parts, PathConcat DEF BalanceOk, BalanceErr
<1>4. Path(SendAssetInputs, o, "none", "runtime")
  BY <1>1, <1>2, PathConcat DEF SendAssetInputs, BalanceErr
<1> QED
  BY <1>1, <1>2, <1>3, <1>4

(* sendasset's last part: the runtime is dropped before the wallet's guard. *)
LEMMA SendPart ==
    ASSUME NEW o
    PROVE  Path(<<LockWallet, DropRuntime, DropWallet>>, o, "runtime", "none")
<1> DEFINE p == <<LockWallet, DropRuntime, DropWallet>>
           held == [i \in 1 .. 4 |-> IF i = 1 THEN "runtime" ELSE IF i = 2 THEN "both"
                                      ELSE IF i = 3 THEN "wallet" ELSE "none"]
<1>1. /\ Len(p) = 3 /\ p \in Seq(LockSteps)
      /\ p[1] = LockWallet /\ p[2] = DropRuntime /\ p[3] = DropWallet
  BY Atoms
<1>2. held \in [1 .. 4 -> Holdings]
  BY Atoms
<1>3. Move(o, held[1], p[1], held[2]) /\ Move(o, held[2], p[2], held[3])
      /\ Move(o, held[3], p[3], held[4])
  BY <1>1 DEF Move
<1>4. held[1] = "runtime" /\ held[4] = "none"
  OBVIOUS
<1> HIDE DEF p, held
<1>5. \A i \in 1 .. 3 : Move(o, held[i], p[i], held[i + 1])
  <2> SUFFICES ASSUME NEW i \in 1 .. 3 PROVE Move(o, held[i], p[i], held[i + 1])
    OBVIOUS
  <2>1. i = 1 \/ i = 2 \/ i = 3
    OBVIOUS
  <2> QED
    BY <1>3, <2>1
<1>6. Leads(p, o, "runtime", "none")
  <2>1. held \in [1 .. Len(p) + 1 -> Holdings] /\ held[Len(p) + 1] = "none"
    BY <1>1, <1>2, <1>4
  <2>2. \A i \in 1 .. Len(p) : Move(o, held[i], p[i], held[i + 1])
    BY <1>1, <1>5
  <2> QED
    BY <1>4, <2>1, <2>2 DEF Leads
<1> QED
  BY <1>1, <1>6 DEF Path, p

(* The second round of a coloured funding: the runtime under the wallet. *)
LEMMA FundingPart ==
    Path(<<LockWallet, GetRuntime, DropRuntime, DropWallet>>, "FundingColored",
         "none", "none")
<1> DEFINE o == "FundingColored"
           p == <<LockWallet, GetRuntime, DropRuntime, DropWallet>>
           held == [i \in 1 .. 5 |-> IF i = 1 \/ i = 5 THEN "none"
                                      ELSE IF i = 3 THEN "both" ELSE "wallet"]
<1>1. /\ Len(p) = 4 /\ p \in Seq(LockSteps)
      /\ p[1] = LockWallet /\ p[2] = GetRuntime /\ p[3] = DropRuntime
      /\ p[4] = DropWallet
  BY Atoms
<1>2. held \in [1 .. 5 -> Holdings]
  BY Atoms
<1>3. Move(o, held[1], p[1], held[2]) /\ Move(o, held[2], p[2], held[3])
      /\ Move(o, held[3], p[3], held[4]) /\ Move(o, held[4], p[4], held[5])
  BY <1>1 DEF Move
<1>4. held[1] = "none" /\ held[5] = "none"
  OBVIOUS
<1> HIDE DEF o, p, held
<1>5. \A i \in 1 .. 4 : Move(o, held[i], p[i], held[i + 1])
  <2> SUFFICES ASSUME NEW i \in 1 .. 4 PROVE Move(o, held[i], p[i], held[i + 1])
    OBVIOUS
  <2>1. i = 1 \/ i = 2 \/ i = 3 \/ i = 4
    OBVIOUS
  <2> QED
    BY <1>3, <2>1
<1>6. Leads(p, o, "none", "none")
  <2>1. held \in [1 .. Len(p) + 1 -> Holdings] /\ held[Len(p) + 1] = "none"
    BY <1>1, <1>2, <1>4
  <2>2. \A i \in 1 .. Len(p) : Move(o, held[i], p[i], held[i + 1])
    BY <1>1, <1>5
  <2> QED
    BY <1>4, <2>1, <2>2 DEF Leads
<1> QED
  BY <1>1, <1>6 DEF Path, p, o

(* refresh accepts a transfer and then syncs the wallet. *)
LEMMA RefreshPart ==
    ASSUME NEW o
    PROVE  Path(<<GetRuntime, DropRuntime, LockWallet, DropWallet>>, o, "none", "none")
<1> DEFINE p == <<GetRuntime, DropRuntime, LockWallet, DropWallet>>
           held == [i \in 1 .. 5 |-> IF i = 2 THEN "runtime"
                                      ELSE IF i = 4 THEN "wallet" ELSE "none"]
<1>1. /\ Len(p) = 4 /\ p \in Seq(LockSteps)
      /\ p[1] = GetRuntime /\ p[2] = DropRuntime /\ p[3] = LockWallet
      /\ p[4] = DropWallet
  BY Atoms
<1>2. held \in [1 .. 5 -> Holdings]
  BY Atoms
<1>3. Move(o, held[1], p[1], held[2]) /\ Move(o, held[2], p[2], held[3])
      /\ Move(o, held[3], p[3], held[4]) /\ Move(o, held[4], p[4], held[5])
  BY <1>1 DEF Move
<1>4. held[1] = "none" /\ held[5] = "none"
  OBVIOUS
<1> HIDE DEF p, held
<1>5. \A i \in 1 .. 4 : Move(o, held[i], p[i], held[i + 1])
  <2> SUFFICES ASSUME NEW i \in 1 .. 4 PROVE Move(o, held[i], p[i], held[i + 1])
    OBVIOUS
  <2>1. i = 1 \/ i = 2 \/ i = 3 \/ i = 4
    OBVIOUS
  <2> QED
    BY <1>3, <2>1
<1>6. Leads(p, o, "none", "none")
  <2>1. held \in [1 .. Len(p) + 1 -> Holdings] /\ held[Len(p) + 1] = "none"
    BY <1>1, <1>2, <1>4
  <2>2. \A i \in 1 .. Len(p) : Move(o, held[i], p[i], held[i + 1])
    BY <1>1, <1>5
  <2> QED
    BY <1>4, <2>1, <2>2 DEF Leads
<1> QED
  BY <1>1, <1>6 DEF Path, p

(* A sweep of n outputs locks and unlocks the wallet n times. *)
LEMMA SweepPart ==
    ASSUME NEW o, NEW n \in Nat
    PROVE  Path([i \in 1 .. 2 * n |-> IF i % 2 = 1 THEN LockWallet ELSE DropWallet],
                o, "runtime", "runtime")
<1> DEFINE p == [i \in 1 .. 2 * n |-> IF i % 2 = 1 THEN LockWallet ELSE DropWallet]
           held == [i \in 1 .. 2 * n + 1 |-> IF i % 2 = 1 THEN "runtime" ELSE "both"]
<1>1. p \in [1 .. 2 * n -> LockSteps] /\ 2 * n \in Nat
  BY Atoms
<1>2. p \in Seq(LockSteps) /\ Len(p) = 2 * n
  <2> HIDE DEF p
  <2> QED
    BY <1>1
<1>3. held \in [1 .. 2 * n + 1 -> Holdings]
  BY Atoms
<1>4. held[1] = "runtime" /\ held[2 * n + 1] = "runtime"
  <2>1. 1 % 2 = 1 /\ (2 * n + 1) % 2 = 1
    OBVIOUS
  <2>2. 1 \in 1 .. 2 * n + 1 /\ 2 * n + 1 \in 1 .. 2 * n + 1
    BY <1>1
  <2> QED
    BY <2>1, <2>2
<1>5. ASSUME NEW i \in 1 .. 2 * n PROVE Move(o, held[i], p[i], held[i + 1])
  <2>1. i \in 1 .. 2 * n + 1 /\ i + 1 \in 1 .. 2 * n + 1 /\ i \in Nat
    BY <1>1
  <2>2. CASE i % 2 = 1
    <3>1. (i + 1) % 2 = 0
      BY <2>1, <2>2
    <3>2. held[i] = "runtime" /\ p[i] = LockWallet /\ held[i + 1] = "both"
      BY <2>1, <2>2, <3>1
    <3> QED
      BY <3>2 DEF Move
  <2>3. CASE i % 2 # 1
    <3>1. (i + 1) % 2 = 1
      BY <2>1, <2>3
    <3>2. held[i] = "both" /\ p[i] = DropWallet /\ held[i + 1] = "runtime"
      BY <2>1, <2>3, <3>1
    <3> QED
      BY <3>2 DEF Move
  <2> QED
    BY <2>2, <2>3
<1> HIDE DEF p, held
<1>6. Leads(p, o, "runtime", "runtime")
  <2>1. held \in [1 .. Len(p) + 1 -> Holdings] /\ held[Len(p) + 1] = "runtime"
    BY <1>2, <1>3, <1>4
  <2>2. \A i \in 1 .. Len(p) : Move(o, held[i], p[i], held[i + 1])
    BY <1>2, <1>5
  <2> QED
    BY <1>4, <2>1, <2>2 DEF Leads
<1> QED
  BY <1>2, <1>6 DEF Path, p

(* A path to the end gives back both locks; an exit with an error may keep *)
(* the runtime where LeavesRuntimeOpen says so.                            *)
LEMMA ProgramsAreLawful ==
    ASSUME NEW o \in DOMAIN Programs, NEW k \in {"ok", "err"}, NEW path \in Programs[o][k]
    PROVE  path \in Seq(LockSteps) /\ Lawful(path, "none", o, k)
<1>1. SUFFICES \/ Path(path, o, "none", "none")
               \/ /\ Path(path, o, "none", "runtime")
                  /\ o \in LeavesRuntimeOpen /\ k = "err"
  BY Atoms DEF Path, Lawful, End
<1> USE Parts, Balances, PathConcat DEF LeavesRuntimeOpen
<1>2. CASE o = "listunspent"
  <2>1. path \in listunspent[k]
    BY <1>2 DEF Programs
  <2> QED
    BY <1>2, <2>1 DEF listunspent
<1>3. CASE o = "getaddress"
  <2>1. path \in getaddress[k]
    BY <1>3 DEF Programs
  <2> QED
    BY <1>3, <2>1 DEF getaddress
<1>4. CASE o = "createutxos"
  <2>1. path \in createutxos[k]
    BY <1>4 DEF Programs
  <2> QED
    BY <1>4, <2>1 DEF createutxos
<1>5. CASE o = "issueasset"
  <2>1. path \in issueasset[k]
    BY <1>5 DEF Programs
  <2> QED
    BY <1>5, <2>1 DEF issueasset
<1>6. CASE o = "assetbalance"
  <2>1. path \in assetbalance[k]
    BY <1>6 DEF Programs
  <2> QED
    BY <1>6, <2>1 DEF assetbalance
<1>7. CASE o = "sendasset"
  <2>1. path \in sendasset[k]
    BY <1>7 DEF Programs
  <2> DEFINE sent == SendAssetInputs \o <<LockWallet, DropRuntime, DropWallet>>
             refused == SendAssetInputs \o <<LockWallet, DropWallet>>
  <2>2. Path(sent, o, "none", "none")
    BY SendPart
  <2>3. Path(refused, o, "none", "runtime")
    OBVIOUS
  <2>4. sendasset = [ok |-> {sent}, err |-> {BalanceErr, SendAssetInputs, refused}]
    BY DEF sendasset
  <2> HIDE DEF sent, refused
  <2> QED
    BY <1>7, <2>1, <2>2, <2>3, <2>4
<1>8. CASE o = "receiveasset"
  <2>1. path \in receiveasset[k]
    BY <1>8 DEF Programs
  <2> QED
    BY <1>8, <2>1 DEF receiveasset
<1>9. CASE o = "refresh"
  <2>1. path \in refresh[k]
    BY <1>9 DEF Programs
  <2>2. Path(<<GetRuntime, DropRuntime, LockWallet, DropWallet>>, o, "none", "none")
    BY RefreshPart
  <2> QED
    BY <2>1, <2>2 DEF refresh
<1>10. CASE o = "openchannel"
  <2>1. path \in openchannel[k]
    BY <1>10 DEF Programs
  <2> QED
    BY <1>10, <2>1 DEF openchannel
<1>11. CASE o = "opencoloredchannel"
  <2>1. path \in opencoloredchannel[k]
    BY <1>11 DEF Programs
  <2> DEFINE opened == BalanceOk \o open_channel
  <2>2. Path(opened, o, "none", "none")
    OBVIOUS
  <2>3. opencoloredchannel = [ok |-> {opened}, err |-> {BalanceErr, BalanceOk, opened}]
    BY DEF opencoloredchannel
  <2> HIDE DEF opened
  <2> QED
    BY <1>11, <2>1, <2>2, <2>3
<1>12. CASE o = "makerinit"
  <2>1. path \in makerinit[k]
    BY <1>12 DEF Programs
  <2> QED
    BY <1>12, <2>1 DEF makerinit
<1>13. CASE o = "taker"
  <2>1. path \in taker[k]
    BY <1>13 DEF Programs
  <2> QED
    BY <1>13, <2>1 DEF taker
<1>14. CASE o = "FundingVanilla"
  <2>1. path \in FundingVanilla[k]
    BY <1>14 DEF Programs
  <2> QED
    BY <1>14, <2>1 DEF FundingVanilla
<1>15. CASE o = "FundingColored"
  <2>1. path \in FundingColored[k]
    BY <1>15 DEF Programs
  <2> DEFINE funded == BalanceOk \o <<LockWallet, GetRuntime, DropRuntime, DropWallet>>
  <2>2. Path(funded, o, "none", "none")
    BY <1>15, FundingPart
  <2>3. FundingColored = [ok |-> {funded}, err |-> {}]
    BY DEF FundingColored
  <2> HIDE DEF funded
  <2> QED
    BY <2>1, <2>2, <2>3
<1>16. CASE o = "FundingTask"
  <2>1. path \in FundingTask[k]
    BY <1>16 DEF Programs
  <2> QED
    BY <1>16, <2>1 DEF FundingTask
<1>17. CASE o = "SpendableOutputs"
  <2>1. path \in SpendableOutputs[k]
    BY <1>17 DEF Programs
  <2>2. CASE k = "ok"
    <3>1. PICK n \in 0 .. MaxOutputs :
            path = <<GetRuntime>>
                   \o [i \in 1 .. 2 * n |-> IF i % 2 = 1 THEN LockWallet ELSE DropWallet]
                   \o <<DropRuntime>>
      BY <2>1, <2>2 DEF SpendableOutputs
    <3> DEFINE sweep == [i \in 1 .. 2 * n |-> IF i % 2 = 1 THEN LockWallet ELSE DropWallet]
    <3>2. Path(sweep, o, "runtime", "runtime")
      BY SweepPart, RuntimeLockAssumption
    <3> HIDE DEF sweep
    <3>3. Path(<<GetRuntime>> \o sweep, o, "none", "runtime")
      BY <3>2
    <3>4. Path(<<GetRuntime>> \o sweep \o <<DropRuntime>>, o, "none", "none")
      BY <3>3
    <3> QED
      BY <3>1, <3>4 DEF sweep
  <2>3. CASE k = "err"
    BY <2>1, <2>3 DEF SpendableOutputs
  <2> QED
    BY <2>2, <2>3
<1>18. CASE o = "ChannelReady"
  <2>1. path \in ChannelReady[k]
    BY <1>18 DEF Programs
  <2> QED
    BY <1>18, <2>1 DEF ChannelReady
<1> QED
  BY <1>2, <1>3, <1>4, <1>5, <1>6, <1>7, <1>8, <1>9, <1>10, <1>11, <1>12, <1>13, <1>14, <1>15, <1>16, <1>17, <1>18 DEF Programs

-----------------------------------------------------------------------------
(* The invariant. *)

(* No thread holds a lock at the start. *)
LEMMA InitIInv == Init => IInv
<1> SUFFICES ASSUME Init PROVE IInv
  OBVIOUS
<1>1. \A t \in Threads : todo[t] = <<>> /\ op[t] = "idle"
  BY DEF Init
<1>2. todo \in [Threads -> Seq(LockSteps)]
  BY DEF Init
<1>3. TypeOK
  <2>1. \A t \in Threads : todo[t] \in Seq(LockSteps)
    BY <1>2
  <2> QED
    BY <2>1 DEF Init, TypeOK, LockSteps
<1>4. "free" \notin Threads
  BY RuntimeLockAssumption DEF Threads
<1> QED
  BY <1>1, <1>2, <1>3, <1>4 DEF Init, IInv, Held, RuntimeLostOnlyThere

(* "free" and "nobody" are no threads. *)
LEMMA ThreadNames == "free" \notin Threads /\ "nobody" \notin Threads
BY RuntimeLockAssumption DEF Threads

(* An operation starts on an idle thread. *)
LEMMA StartStep ==
    ASSUME IInv, NEW t \in Threads, NEW o \in DOMAIN Programs, NEW k \in {"ok", "err"},
           NEW path \in Programs[o][k], Start(t, o, k, path)
    PROVE  IInv'
<1>1. path \in Seq(LockSteps) /\ Lawful(path, "none", o, k)
  BY ProgramsAreLawful
<1>2. /\ op[t] = "idle"
      /\ op' = [op EXCEPT ![t] = o] /\ exit' = [exit EXCEPT ![t] = k]
      /\ todo' = [todo EXCEPT ![t] = path]
      /\ UNCHANGED <<runtime, wallet, lost>>
  BY DEF Start
<1>3. TypeOK /\ todo \in [Threads -> Seq(LockSteps)]
  BY DEF IInv
<1>4. todo' \in [Threads -> Seq(LockSteps)]
  BY <1>1, <1>2, <1>3
<1>5. /\ \A u \in Threads : Held(u)' = Held(u)
      /\ op' \in [Threads -> DOMAIN Programs \cup {"idle"}]
      /\ exit' \in [Threads -> {"ok", "err"}]
      /\ op'[t] = o /\ exit'[t] = k /\ todo'[t] = path
      /\ \A u \in Threads \ {t} : /\ op'[u] = op[u] /\ exit'[u] = exit[u]
                                   /\ todo'[u] = todo[u]
  BY <1>2, <1>3 DEF TypeOK, Held
<1>6. TypeOK'
  BY <1>2, <1>3, <1>4, <1>5 DEF TypeOK, LockSteps
<1>7. Held(t) = "none" /\ o # "idle"
  BY <1>2 DEF IInv, Programs
<1>8. \A u \in Threads : op'[u] = "idle" => Held(u)' = "none"
  BY <1>5, <1>7 DEF IInv
<1>9. \A u \in Threads : op'[u] # "idle" => Lawful(todo'[u], Held(u)', op'[u], exit'[u])
  BY <1>1, <1>5, <1>7 DEF IInv
<1>10. RuntimeLostOnlyThere'
  BY <1>2 DEF IInv, RuntimeLostOnlyThere
<1> QED
  BY <1>4, <1>6, <1>8, <1>9, <1>10 DEF IInv

(* What a lock operation of t needs and leaves. *)
LEMMA MoveOf ==
    ASSUME IInv, NEW t \in Threads, NEW step, Wants(t, step)
    PROVE  /\ Tail(todo[t]) \in Seq(LockSteps)
           /\ \E f \in Holdings : /\ Move(op[t], Held(t), step, f)
                                  /\ Lawful(Tail(todo[t]), f, op[t], exit[t])
<1>1. /\ todo[t] \in Seq(LockSteps) /\ todo[t] # <<>> /\ Head(todo[t]) = step
      /\ Lawful(todo[t], Held(t), op[t], exit[t])
  BY DEF IInv, Wants
<1>2. PICK g \in Holdings : Leads(todo[t], op[t], Held(t), g) /\ End(op[t], exit[t], g)
  BY <1>1 DEF Lawful
<1>3. /\ Tail(todo[t]) \in Seq(LockSteps)
      /\ \E f \in Holdings : /\ Move(op[t], Held(t), Head(todo[t]), f)
                             /\ Leads(Tail(todo[t]), op[t], f, g)
  BY <1>1, <1>2, LeadsTail
<1> QED
  BY <1>1, <1>2, <1>3 DEF Lawful

(* A lock operation of t that is a legal move for t and leaves the other   *)
(* threads what they hold.                                                 *)
LEMMA LockedStep ==
    ASSUME IInv, NEW t \in Threads, NEW step, Wants(t, step), Consume(t),
           UNCHANGED <<op, exit, lost>>,
           runtime' \in Threads \cup {"free", "nobody"}, wallet' \in Threads \cup {"free"},
           runtime' = "nobody" => runtime = "nobody",
           \A f : Move(op[t], Held(t), step, f) => Held(t)' = f,
           \A u \in Threads \ {t} : Held(u)' = Held(u)
    PROVE  IInv'
<1>1. PICK f \in Holdings : /\ Move(op[t], Held(t), step, f)
                            /\ Lawful(Tail(todo[t]), f, op[t], exit[t])
  BY MoveOf
<1>2. Held(t)' = f /\ op[t] # "idle"
  BY <1>1 DEF Wants
<1>3. TypeOK /\ todo \in [Threads -> Seq(LockSteps)] /\ Tail(todo[t]) \in Seq(LockSteps)
  BY MoveOf DEF IInv
<1>4. /\ todo' \in [Threads -> Seq(LockSteps)] /\ todo'[t] = Tail(todo[t])
      /\ \A u \in Threads \ {t} : todo'[u] = todo[u]
  BY <1>3 DEF Consume
<1>5. TypeOK'
  BY <1>3, <1>4 DEF TypeOK, LockSteps
<1>6. \A u \in Threads : op'[u] = "idle" => Held(u)' = "none"
  BY <1>2 DEF IInv
<1>7. \A u \in Threads : op'[u] # "idle" => Lawful(todo'[u], Held(u)', op'[u], exit'[u])
  BY <1>1, <1>2, <1>4 DEF IInv
<1>8. RuntimeLostOnlyThere'
  BY DEF IInv, RuntimeLostOnlyThere
<1> QED
  BY <1>4, <1>5, <1>6, <1>7, <1>8 DEF IInv

(* The four lock operations. *)
LEMMA LockStepKeeps ==
    ASSUME IInv, NEW t \in Threads, LockStep(t)
    PROVE  IInv'
<1> USE ThreadNames
<1>1. runtime \in Threads \cup {"free", "nobody"} /\ wallet \in Threads \cup {"free"}
  BY DEF IInv, TypeOK
<1>2. CASE get_rgb_runtime(t)
  <2>1. /\ Wants(t, GetRuntime) /\ Consume(t) /\ UNCHANGED <<op, exit, lost>>
        /\ runtime = "free" /\ runtime' = t /\ wallet' = wallet
    BY <1>2 DEF get_rgb_runtime
  <2>2. \A f : Move(op[t], Held(t), GetRuntime, f) => Held(t)' = f
    BY <2>1 DEF Move, Held, GetRuntime, DropRuntime, LockWallet, DropWallet
  <2>3. \A u \in Threads \ {t} : Held(u)' = Held(u)
    BY <2>1 DEF Held
  <2> QED
    BY <1>1, <2>1, <2>2, <2>3, LockedStep
<1>3. CASE drop_rgb_runtime(t)
  <2>1. /\ Wants(t, DropRuntime) /\ Consume(t) /\ UNCHANGED <<op, exit, lost>>
        /\ runtime' = "free" /\ wallet' = wallet
    BY <1>3 DEF drop_rgb_runtime
  <2>2. \A f : Move(op[t], Held(t), DropRuntime, f) => Held(t)' = f
    BY <2>1 DEF Move, Held, GetRuntime, DropRuntime, LockWallet, DropWallet
  <2>3. runtime = t
    <3>1. \E f \in Holdings : Move(op[t], Held(t), DropRuntime, f)
      BY <2>1, MoveOf
    <3> QED
      BY <3>1 DEF Move, Held, GetRuntime, DropRuntime, LockWallet, DropWallet
  <2>4. \A u \in Threads \ {t} : Held(u)' = Held(u)
    BY <2>1, <2>3 DEF Held
  <2> QED
    BY <1>1, <2>1, <2>2, <2>4, LockedStep
<1>4. CASE lock_wallet(t)
  <2>1. /\ Wants(t, LockWallet) /\ Consume(t) /\ UNCHANGED <<op, exit, lost>>
        /\ wallet = "free" /\ wallet' = t /\ runtime' = runtime
    BY <1>4 DEF lock_wallet
  <2>2. \A f : Move(op[t], Held(t), LockWallet, f) => Held(t)' = f
    BY <2>1 DEF Move, Held, GetRuntime, DropRuntime, LockWallet, DropWallet
  <2>3. \A u \in Threads \ {t} : Held(u)' = Held(u)
    BY <2>1 DEF Held
  <2> QED
    BY <1>1, <2>1, <2>2, <2>3, LockedStep
<1>5. CASE drop_wallet(t)
  <2>1. /\ Wants(t, DropWallet) /\ Consume(t) /\ UNCHANGED <<op, exit, lost>>
        /\ wallet' = "free" /\ runtime' = runtime
    BY <1>5 DEF drop_wallet
  <2>2. \A f : Move(op[t], Held(t), DropWallet, f) => Held(t)' = f
    BY <2>1 DEF Move, Held, GetRuntime, DropRuntime, LockWallet, DropWallet
  <2>3. wallet = t
    <3>1. \E f \in Holdings : Move(op[t], Held(t), DropWallet, f)
      BY <2>1, MoveOf
    <3> QED
      BY <3>1 DEF Move, Held, GetRuntime, DropRuntime, LockWallet, DropWallet
  <2>4. \A u \in Threads \ {t} : Held(u)' = Held(u)
    BY <2>1, <2>3 DEF Held
  <2> QED
    BY <1>1, <2>1, <2>2, <2>4, LockedStep
<1> QED
  BY <1>2, <1>3, <1>4, <1>5 DEF LockStep

(* A path of no operations ends with what it begins with. *)
LEMMA EmptyIsOver ==
    ASSUME NEW o, NEW k, NEW h, Lawful(<<>>, h, o, k)
    PROVE  End(o, k, h)
<1>1. PICK g \in Holdings : Leads(<<>>, o, h, g) /\ End(o, k, g)
  BY DEF Lawful
<1>2. PICK held \in [1 .. Len(<<>>) + 1 -> Holdings] :
        held[1] = h /\ held[Len(<<>>) + 1] = g
  BY <1>1 DEF Leads
<1>3. Len(<<>>) + 1 = 1
  OBVIOUS
<1> QED
  BY <1>1, <1>2, <1>3

(* An operation that returns holds nothing, or the runtime where the list  *)
(* says so; the task it leaves behind starts on an idle thread.            *)
LEMMA ReturnStep ==
    ASSUME IInv, NEW t \in Threads, Return(t)
    PROVE  IInv'
<1> USE ThreadNames
<1>1. /\ op[t] # "idle" /\ todo[t] = <<>> /\ wallet' = wallet
      /\ runtime' = IF runtime = t THEN "nobody" ELSE runtime
      /\ lost' = IF runtime = t THEN <<op[t], exit[t]>> ELSE lost
  BY DEF Return
<1>2. TypeOK /\ todo \in [Threads -> Seq(LockSteps)]
  BY DEF IInv
<1>3. End(op[t], exit[t], Held(t))
  <2>1. Lawful(<<>>, Held(t), op[t], exit[t])
    BY <1>1 DEF IInv
  <2> QED
    BY <2>1, EmptyIsOver
<1>4. wallet # t /\ (runtime = t => op[t] \in LeavesRuntimeOpen /\ exit[t] = "err")
  BY <1>3 DEF End, Held
<1>5. Held(t)' = "none" /\ \A u \in Threads \ {t} : Held(u)' = Held(u)
  BY <1>1, <1>4 DEF Held
<1>6. RuntimeLostOnlyThere'
  BY <1>1, <1>4 DEF IInv, RuntimeLostOnlyThere
<1>7. /\ runtime' \in Threads \cup {"free", "nobody"} /\ wallet' \in Threads \cup {"free"}
      /\ lost' \in ((DOMAIN Programs) \X {"ok", "err"}) \cup {NotLost}
  BY <1>1, <1>2 DEF TypeOK
<1>8. /\ op \in [Threads -> DOMAIN Programs \cup {"idle"}]
      /\ exit \in [Threads -> {"ok", "err"}]
  BY <1>2 DEF TypeOK
<1>9. CASE op[t] = "FundingColored"
  <2>1. PICK task \in IdleTasks, k \in Outcomes :
          \E path \in FundingTask[k] :
            /\ op' = [op EXCEPT ![t] = "idle", ![task] = "FundingTask"]
            /\ exit' = [exit EXCEPT ![t] = "ok", ![task] = k]
            /\ todo' = [todo EXCEPT ![task] = path]
    BY <1>9 DEF Return
  <2>2. PICK path \in FundingTask[k] :
          /\ op' = [op EXCEPT ![t] = "idle", ![task] = "FundingTask"]
          /\ exit' = [exit EXCEPT ![t] = "ok", ![task] = k]
          /\ todo' = [todo EXCEPT ![task] = path]
    BY <2>1
  <2>3. task \in Threads /\ op[task] = "idle" /\ task # t /\ k \in {"ok", "err"}
    BY <1>1, RuntimeLockAssumption DEF IdleTasks, Threads
  <2>4. "FundingTask" \in DOMAIN Programs /\ path \in Programs["FundingTask"][k]
    BY DEF Programs
  <2>5. path \in Seq(LockSteps) /\ Lawful(path, "none", "FundingTask", k)
    BY <2>3, <2>4, ProgramsAreLawful
  <2>6. /\ op' \in [Threads -> DOMAIN Programs \cup {"idle"}]
        /\ exit' \in [Threads -> {"ok", "err"}]
        /\ todo' \in [Threads -> Seq(LockSteps)]
    BY <1>2, <1>8, <2>2, <2>3, <2>4, <2>5
  <2>7. /\ op'[t] = "idle"
        /\ op'[task] = "FundingTask" /\ exit'[task] = k /\ todo'[task] = path
        /\ \A u \in Threads \ {t, task} : /\ op'[u] = op[u] /\ exit'[u] = exit[u]
                                           /\ todo'[u] = todo[u]
    BY <1>2, <1>8, <2>2, <2>3
  <2>8. Held(task)' = "none"
    BY <1>5, <2>3 DEF IInv
  <2>9. \A u \in Threads : op'[u] = "idle" => Held(u)' = "none"
    BY <1>5, <2>7, <2>8 DEF IInv
  <2>10. \A u \in Threads : op'[u] # "idle" => Lawful(todo'[u], Held(u)', op'[u], exit'[u])
    BY <1>5, <2>5, <2>7, <2>8 DEF IInv
  <2>11. TypeOK'
    BY <1>7, <2>6 DEF TypeOK, LockSteps
  <2> QED
    BY <1>6, <2>6, <2>9, <2>10, <2>11 DEF IInv
<1>10. CASE op[t] # "FundingColored"
  <2>1. /\ op' = [op EXCEPT ![t] = "idle"] /\ exit' = [exit EXCEPT ![t] = "ok"]
        /\ todo' = todo
    BY <1>10 DEF Return
  <2>2. /\ op' \in [Threads -> DOMAIN Programs \cup {"idle"}]
        /\ exit' \in [Threads -> {"ok", "err"}]
        /\ op'[t] = "idle"
        /\ \A u \in Threads \ {t} : op'[u] = op[u] /\ exit'[u] = exit[u]
    BY <1>8, <2>1
  <2>3. \A u \in Threads : op'[u] = "idle" => Held(u)' = "none"
    BY <1>5, <2>2 DEF IInv
  <2>4. \A u \in Threads : op'[u] # "idle" => Lawful(todo'[u], Held(u)', op'[u], exit'[u])
    BY <1>5, <2>1, <2>2 DEF IInv
  <2>5. TypeOK'
    BY <1>2, <1>7, <2>1, <2>2 DEF TypeOK, LockSteps
  <2> QED
    BY <1>2, <1>6, <2>1, <2>3, <2>4, <2>5 DEF IInv
<1> QED
  BY <1>9, <1>10

(* The invariant holds in every state. *)
THEOREM Invariance == Spec => []IInv
<1>1. IInv /\ [Next]_vars => IInv'
  <2> SUFFICES ASSUME IInv, [Next]_vars PROVE IInv'
    OBVIOUS
  <2>1. {"cli", "events"} \subseteq Threads /\ Outcomes \subseteq {"ok", "err"}
    BY RuntimeLockAssumption DEF Threads
  <2>2. Commands \subseteq DOMAIN Programs /\ Events \subseteq DOMAIN Programs
    BY DEF Commands, Events, Programs
  <2>3. ASSUME NEW o \in Operations \cap Commands, NEW k \in Outcomes,
               NEW path \in Programs[o][k], Start("cli", o, k, path)
        PROVE  IInv'
    BY <2>1, <2>2, <2>3, StartStep
  <2>4. ASSUME NEW o \in Operations \cap Events, NEW k \in Outcomes,
               NEW path \in Programs[o][k], Start("events", o, k, path)
        PROVE  IInv'
    BY <2>1, <2>2, <2>4, StartStep
  <2>5. ASSUME NEW t \in Threads, LockStep(t) \/ Return(t)
        PROVE  IInv'
    BY <2>5, LockStepKeeps, ReturnStep
  <2>6. CASE UNCHANGED vars
    <3>1. TypeOK'
      BY <2>6 DEF IInv, TypeOK, vars
    <3> QED
      BY <2>6, <3>1 DEF IInv, vars, Held, Lawful, RuntimeLostOnlyThere
  <2> QED
    BY <2>3, <2>4, <2>5, <2>6 DEF Next
<1> QED
  BY InitIInv, <1>1, PTL DEF Spec

-----------------------------------------------------------------------------
(* What follows from it. *)

(* Owners of the locks, operations and remaining paths keep their types. *)
THEOREM TypeCorrect == Spec => []TypeOK
<1>1. IInv => TypeOK
  BY DEF IInv
<1> QED
  BY <1>1, Invariance, PTL

(* No command, event or task gives back a lock that it does not hold: the  *)
(* unguarded drop_rgb_runtime never frees the runtime of another thread.   *)
THEOREM DropsOnlyItsOwnAlways == Spec => []DropsOnlyItsOwn
<1>1. IInv => DropsOnlyItsOwn
  <2> SUFFICES ASSUME IInv, NEW t \in Threads
               PROVE  /\ Wants(t, DropRuntime) => runtime = t
                      /\ Wants(t, DropWallet) => wallet = t
    BY DEF DropsOnlyItsOwn
  <2>1. ASSUME Wants(t, DropRuntime) PROVE runtime = t
    <3>1. \E f \in Holdings : Move(op[t], Held(t), DropRuntime, f)
      BY <2>1, MoveOf
    <3> QED
      BY <3>1 DEF Move, Held, GetRuntime, DropRuntime, LockWallet, DropWallet
  <2>2. ASSUME Wants(t, DropWallet) PROVE wallet = t
    <3>1. \E f \in Holdings : Move(op[t], Held(t), DropWallet, f)
      BY <2>2, MoveOf
    <3> QED
      BY <3>1 DEF Move, Held, GetRuntime, DropRuntime, LockWallet, DropWallet
  <2> QED
    BY <2>1, <2>2
<1> QED
  BY <1>1, Invariance, PTL

(* With any number of tasks, two threads wait for each other's lock only   *)
(* if the one with the wallet is funding a coloured channel.               *)
THEOREM DeadlockNeedsColoredFundingAlways == Spec => []DeadlockNeedsColoredFunding
<1>1. IInv => DeadlockNeedsColoredFunding
  <2> SUFFICES ASSUME IInv, NEW t \in Threads, NEW u \in Threads, WaitCycle(t, u)
               PROVE  op[u] = "FundingColored"
    BY DEF DeadlockNeedsColoredFunding
  <2>1. wallet = u /\ Wants(u, GetRuntime)
    BY DEF WaitCycle
  <2>2. \E f \in Holdings : Move(op[u], Held(u), GetRuntime, f)
    BY <2>1, MoveOf
  <2> QED
    BY <2>1, <2>2 DEF Move, Held, GetRuntime, DropRuntime, LockWallet, DropWallet
<1> QED
  BY <1>1, Invariance, PTL

(* The runtime is left open only by the error exits of six operations.     *)
THEOREM RuntimeLostOnlyThereAlways == Spec => []RuntimeLostOnlyThere
<1>1. IInv => RuntimeLostOnlyThere
  BY DEF IInv
<1> QED
  BY <1>1, Invariance, PTL
=============================================================================
