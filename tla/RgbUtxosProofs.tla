--------------------------- MODULE RgbUtxosProofs ---------------------------
(***************************************************************************)
(* Proofs about RgbUtxos for any contracts, outputs, UTXO_NUM and crashes. *)
(*                                                                         *)
(* None of the properties is inductive.  What an operation may do to the   *)
(* file and to the chain depends on when it chose its outputs, so IInv     *)
(* follows an output from its number (Fresh) over the list (Listing) and   *)
(* the commands that reserved it (Reserved) to the transactions that name  *)
(* it (Chosen).  All of that holds only until a copy of the file is used   *)
(* after the file has changed, which `stale' remembers.                    *)
(***************************************************************************)
EXTENDS RgbUtxos, TLAPS

cli == thread["cli"]
events == thread["events"]

(* The local variables of a command at each of its steps. *)
CliShape ==
    /\ cli.at \in {"idle", "create", "created", "check", "get", "mark", "write",
                   "seal", "build", "post"}
    /\ cli.at \in {"idle", "create", "check", "get"} => cli.out = 0
    /\ cli.at \in {"created", "mark", "write", "seal"} => cli.out # 0
    /\ cli.at \in {"mark", "write"} /\ cli.op = "sendasset" => cli.change
    /\ cli.at \in {"check", "get"} /\ cli.op = "sendasset" => cli.change
    /\ cli.at \in {"build", "post"} => cli.op = "sendasset" /\ (cli.change <=> cli.out # 0)
    /\ cli.at = "seal" => cli.op # "sendasset"
    /\ cli.op # "sendasset" => cli.picked = {}
    /\ cli.op \in {"sendasset", "issueasset"} => cli.kind \in Contracts
    /\ cli.at = "created" => cli.out + UTXO_NUM <= MaxOut
    /\ cli.at = "write" => cli.out \in cli.copy.listed

(* The same for an event. *)
EventsShape ==
    /\ events.at \in {"idle", "read", "fund", "send", "swept", "sweptread"}
    /\ events.at = "idle" => events.picked = {}
    /\ events.op = "sweep" <=> events.at \in {"swept", "sweptread"}
    /\ events.op = "sweep" => events.picked = {}
    /\ events.change => events.kind \in Contracts
    /\ events.at \in {"send", "swept", "sweptread"} => events.out # 0
    /\ events.op = "sweep" => events.kind \in Contracts

(* Only a coloured funding has a change. *)
PendingShape == \A f \in pending : f.change => f.kind \in Contracts

(* The wallet's mutex is held between the broadcast of createutxos, of a   *)
(* sweep or the building of a funding and the write of the file.           *)
WalletHeld ==
    /\ wallet = "cli" <=> cli.at \in {"create", "created", "post"}
    /\ wallet = "events" <=> events.at \in {"send", "swept", "sweptread"}

(* The outputs of createutxos that are not on the list yet. *)
Made == IF cli.at = "created" THEN cli.out .. cli.out + UTXO_NUM - 1 ELSE {}

(* The output of an event that is not on the list yet. *)
Coming == IF events.at \in {"send", "swept", "sweptread"} THEN {events.out} ELSE {}

(* Outputs of transactions that are not broadcast. *)
Ahead(o) ==
    \/ o >= next
    \/ events.at = "send" /\ o = events.out
    \/ \E f \in pending : o = f.out

(* Every output has one number, and what is not broadcast is not chosen. *)
Fresh ==
    /\ \A o \in unspent \cup view \cup cli.picked \cup events.picked : ~ Ahead(o)
    /\ events.at = "send" => \A o \in events.inputs : ~ Ahead(o)
    /\ \A f \in pending : /\ \A o \in f.inputs \cup f.picked : ~ Ahead(o)
                          /\ f.out < next /\ f.out \notin Coming
                          /\ f.inputs \cap (Made \cup Coming) = {}
    /\ \A f, g \in pending : f.out = g.out => f = g
    /\ \A o \in file.listed \cup orphaned \cup Made \cup Coming : o < next

(* What is on the list, and what is not. *)
Listing ==
    /\ (Made \cup Coming \cup orphaned) \cap file.listed = {}
    /\ (Made \cup Coming) \cap orphaned = {}
    /\ Made \subseteq unspent
    /\ Uncolored(file) \subseteq unspent
    /\ \A f \in pending : IF f.change THEN f.out \in file.colored
                                      ELSE f.out \notin file.listed

(* An output that will take an allocation is coloured, unspent and empty. *)
Vacant(o) == o \in file.colored /\ o \in unspent /\ holds[o] = {}

Reserved ==
    /\ \A o \in promised : Vacant(o)
    /\ cli.at \in {"mark", "write"} => cli.out \in Uncolored(file)
    /\ cli.at \in {"seal", "build", "post"} /\ cli.out # 0 =>
         Vacant(cli.out) /\ cli.out \notin promised

(* Outputs that were chosen for an allocation of `kind' have it as long as *)
(* they are unspent.                                                       *)
ChosenFor(picked, kind) ==
    /\ picked \subseteq file.colored \cup orphaned
    /\ \A o \in picked \cap unspent : kind \in holds[o]

(* A funding takes nothing else from the list. *)
Chosen ==
    /\ ChosenFor(cli.picked, cli.kind)
    /\ ChosenFor(events.picked, events.kind)
    /\ events.at = "send" => (events.inputs \ events.picked) \cap file.listed = {}
    /\ \A f \in pending : /\ ChosenFor(f.picked, f.kind)
                          /\ (f.inputs \ f.picked) \cap file.listed = {}

(* Where the allocations are. *)
Allocated ==
    /\ \A o \in Outs : holds[o] # {} =>
         /\ o \in unspent
         /\ \/ o \in file.colored
            \/ events.op = "sweep" /\ events.out = o
            \/ o \in orphaned
    /\ \A o \in Outs : \A c, d \in holds[o] : c = d
    /\ events.op = "sweep" => holds[events.out] # {}

Sound ==
    Fresh /\ Listing /\ Reserved /\ Chosen /\ Allocated

Promised ==
    /\ ~ reused
    /\ burnt => orphaned # {}
    /\ MarkedIsUsed

Typed == TypeOK /\ CliShape /\ EventsShape /\ WalletHeld

IInv ==
    /\ Typed /\ PendingShape
    /\ stale \/ (Sound /\ Promised)

-----------------------------------------------------------------------------
(* The local variables of an operation after each step. *)

IsFrame(fr, at, op, kind, copy, out, picked, inputs, change) ==
    /\ fr.at = at /\ fr.op = op /\ fr.kind = kind /\ fr.copy = copy /\ fr.out = out
    /\ fr.picked = picked /\ fr.inputs = inputs /\ fr.change = change

USE RgbUtxosAssumption DEF Outs, Kinds, Threads, Files, Running, chain, seals,
    ldk, locks, faults, marks

(* An operation starts from these. *)
LEMMA IdleFields ==
    /\ Idle \in Frames
    /\ IsFrame(Idle, "idle", "none", NoAsset, NoFile, 0, {}, {}, FALSE)
<1>1. NoFile \in Files
  BY DEF NoFile
<1>2. Idle \in Frames
  BY <1>1 DEF Idle, Frames, Steps, Commands
<1>3. IsFrame(Idle, "idle", "none", NoAsset, NoFile, 0, {}, {}, FALSE)
  BY DEF Idle, IsFrame
<1> QED
  BY <1>2, <1>3

(* An operation ends. *)
LEMMA FinishLocals ==
    ASSUME TypeOK, NEW t \in Threads, Finish(t)
    PROVE  /\ thread' \in [Threads -> Frames]
           /\ IsFrame(thread'[t], "idle", "none", NoAsset, NoFile, 0, {}, {}, FALSE)
           /\ \A u \in Threads \ {t} : thread'[u] = thread[u]
BY IdleFields DEF TypeOK, Finish

(* One thread's local variables are replaced. *)
LEMMA ThreadUpdate ==
    ASSUME TypeOK, NEW t \in Threads, NEW fr \in Frames,
           thread' = [thread EXCEPT ![t] = fr]
    PROVE  /\ thread' \in [Threads -> Frames]
           /\ thread'[t] = fr
           /\ \A u \in Threads \ {t} : thread'[u] = thread[u]
BY DEF TypeOK

(* Only the step changes. *)
LEMMA GotoLocals ==
    ASSUME TypeOK, NEW t \in Threads, NEW at \in Steps,
           Goto(t, at)
    PROVE  LET me == thread[t] IN
           /\ thread' \in [Threads -> Frames]
           /\ IsFrame(thread'[t], at, me.op, me.kind, me.copy, me.out, me.picked,
                      me.inputs, me.change)
           /\ \A u \in Threads \ {t} : thread'[u] = thread[u]
<1> DEFINE me == thread[t]
           fr == [me EXCEPT !.at = at]
<1>1. me \in Frames
  BY DEF TypeOK
<1>2. fr \in Frames /\ IsFrame(fr, at, me.op, me.kind, me.copy, me.out, me.picked,
                      me.inputs, me.change)
  <2> HIDE DEF me
  <2> QED
    BY <1>1 DEF Frames, IsFrame
<1>3. thread' = [thread EXCEPT ![t] = fr]
  BY DEF Goto, TypeOK
<1> HIDE DEF me, fr
<1>4. IsFrame(thread'[t], at, me.op, me.kind, me.copy, me.out, me.picked,
                      me.inputs, me.change)
  BY <1>2, <1>3, ThreadUpdate
<1> QED
  BY <1>2, <1>3, <1>4, ThreadUpdate DEF me

(* A copy of the file is read. *)
LEMMA ReadLocals ==
    ASSUME TypeOK, NEW t \in Threads, NEW at \in Steps,
           thread' = [thread EXCEPT ![t].at = at, ![t].copy = file]
    PROVE  LET me == thread[t] IN
           /\ thread' \in [Threads -> Frames]
           /\ IsFrame(thread'[t], at, me.op, me.kind, file, me.out, me.picked,
                      me.inputs, me.change)
           /\ \A u \in Threads \ {t} : thread'[u] = thread[u]
<1> DEFINE me == thread[t]
           fr == [me EXCEPT !.at = at, !.copy = file]
<1>1. me \in Frames /\ file \in Files
  BY DEF TypeOK
<1>2. fr \in Frames /\ IsFrame(fr, at, me.op, me.kind, file, me.out, me.picked,
                      me.inputs, me.change)
  <2> HIDE DEF me
  <2> QED
    BY <1>1 DEF Frames, IsFrame
<1>3. thread' = [thread EXCEPT ![t] = fr]
  BY DEF Goto, TypeOK
<1> HIDE DEF me, fr
<1>4. IsFrame(thread'[t], at, me.op, me.kind, file, me.out, me.picked,
                      me.inputs, me.change)
  BY <1>2, <1>3, ThreadUpdate
<1> QED
  BY <1>2, <1>3, <1>4, ThreadUpdate DEF me

(* An output is chosen. *)
LEMMA OutLocals ==
    ASSUME TypeOK, NEW t \in Threads, NEW at \in Steps, NEW o \in 0 .. MaxOut,
           thread' = [thread EXCEPT ![t].at = at, ![t].out = o]
    PROVE  LET me == thread[t] IN
           /\ thread' \in [Threads -> Frames]
           /\ IsFrame(thread'[t], at, me.op, me.kind, me.copy, o, me.picked,
                      me.inputs, me.change)
           /\ \A u \in Threads \ {t} : thread'[u] = thread[u]
<1> DEFINE me == thread[t]
           fr == [me EXCEPT !.at = at, !.out = o]
<1>1. me \in Frames
  BY DEF TypeOK
<1>2. fr \in Frames /\ IsFrame(fr, at, me.op, me.kind, me.copy, o, me.picked,
                      me.inputs, me.change)
  <2> HIDE DEF me
  <2> QED
    BY <1>1 DEF Frames, IsFrame
<1>3. thread' = [thread EXCEPT ![t] = fr]
  BY DEF Goto, TypeOK
<1> HIDE DEF me, fr
<1>4. IsFrame(thread'[t], at, me.op, me.kind, me.copy, o, me.picked,
                      me.inputs, me.change)
  BY <1>2, <1>3, ThreadUpdate
<1> QED
  BY <1>2, <1>3, <1>4, ThreadUpdate DEF me

(* Output and inputs of a funding are chosen. *)
LEMMA InputsLocals ==
    ASSUME TypeOK, NEW t \in Threads, NEW at \in Steps, NEW o \in 0 .. MaxOut,
           NEW inputs \in SUBSET Outs,
           thread' = [thread EXCEPT ![t].at = at, ![t].out = o, ![t].inputs = inputs]
    PROVE  LET me == thread[t] IN
           /\ thread' \in [Threads -> Frames]
           /\ IsFrame(thread'[t], at, me.op, me.kind, me.copy, o, me.picked,
                      inputs, me.change)
           /\ \A u \in Threads \ {t} : thread'[u] = thread[u]
<1> DEFINE me == thread[t]
           fr == [me EXCEPT !.at = at, !.out = o, !.inputs = inputs]
<1>1. me \in Frames
  BY DEF TypeOK
<1>2. fr \in Frames /\ IsFrame(fr, at, me.op, me.kind, me.copy, o, me.picked,
                      inputs, me.change)
  <2> HIDE DEF me
  <2> QED
    BY <1>1 DEF Frames, IsFrame
<1>3. thread' = [thread EXCEPT ![t] = fr]
  BY DEF Goto, TypeOK
<1> HIDE DEF me, fr
<1>4. IsFrame(thread'[t], at, me.op, me.kind, me.copy, o, me.picked,
                      inputs, me.change)
  BY <1>2, <1>3, ThreadUpdate
<1> QED
  BY <1>2, <1>3, <1>4, ThreadUpdate DEF me

(* An operation starts. *)
LEMMA StartLocals ==
    ASSUME TypeOK, NEW t \in Threads, NEW at \in Steps, NEW op \in Commands,
           thread' = [thread EXCEPT ![t] =
                        [Idle EXCEPT !.at = at, !.op = op]]
    PROVE  /\ thread' \in [Threads -> Frames]
           /\ IsFrame(thread'[t], at, op, NoAsset, NoFile, 0, {}, {}, FALSE)
           /\ \A u \in Threads \ {t} : thread'[u] = thread[u]
<1> DEFINE fr == [Idle EXCEPT !.at = at, !.op = op]
<1>1. fr \in Frames /\ IsFrame(fr, at, op, NoAsset, NoFile, 0, {}, {}, FALSE)
  BY IdleFields DEF Frames, IsFrame
<1> HIDE DEF fr
<1>2. thread' = [thread EXCEPT ![t] = fr]
  BY DEF fr
<1>3. IsFrame(thread'[t], at, op, NoAsset, NoFile, 0, {}, {}, FALSE)
  BY <1>1, <1>2, ThreadUpdate
<1> QED
  BY <1>1, <1>2, <1>3, ThreadUpdate

(* An operation starts with a copy of the file. *)
LEMMA StartCopyLocals ==
    ASSUME TypeOK, NEW t \in Threads, NEW at \in Steps, NEW op \in Commands, NEW copy \in Files,
           thread' = [thread EXCEPT ![t] =
                        [Idle EXCEPT !.at = at, !.op = op, !.copy = copy]]
    PROVE  /\ thread' \in [Threads -> Frames]
           /\ IsFrame(thread'[t], at, op, NoAsset, copy, 0, {}, {}, FALSE)
           /\ \A u \in Threads \ {t} : thread'[u] = thread[u]
<1> DEFINE fr == [Idle EXCEPT !.at = at, !.op = op, !.copy = copy]
<1>1. fr \in Frames /\ IsFrame(fr, at, op, NoAsset, copy, 0, {}, {}, FALSE)
  BY IdleFields DEF Frames, IsFrame
<1> HIDE DEF fr
<1>2. thread' = [thread EXCEPT ![t] = fr]
  BY DEF fr
<1>3. IsFrame(thread'[t], at, op, NoAsset, copy, 0, {}, {}, FALSE)
  BY <1>1, <1>2, ThreadUpdate
<1> QED
  BY <1>1, <1>2, <1>3, ThreadUpdate

(* An operation starts for a contract. *)
LEMMA StartKindLocals ==
    ASSUME TypeOK, NEW t \in Threads, NEW at \in Steps, NEW op \in Commands, NEW kind \in Kinds,
           thread' = [thread EXCEPT ![t] =
                        [Idle EXCEPT !.at = at, !.op = op, !.kind = kind]]
    PROVE  /\ thread' \in [Threads -> Frames]
           /\ IsFrame(thread'[t], at, op, kind, NoFile, 0, {}, {}, FALSE)
           /\ \A u \in Threads \ {t} : thread'[u] = thread[u]
<1> DEFINE fr == [Idle EXCEPT !.at = at, !.op = op, !.kind = kind]
<1>1. fr \in Frames /\ IsFrame(fr, at, op, kind, NoFile, 0, {}, {}, FALSE)
  BY IdleFields DEF Frames, IsFrame
<1> HIDE DEF fr
<1>2. thread' = [thread EXCEPT ![t] = fr]
  BY DEF fr
<1>3. IsFrame(thread'[t], at, op, kind, NoFile, 0, {}, {}, FALSE)
  BY <1>1, <1>2, ThreadUpdate
<1> QED
  BY <1>1, <1>2, <1>3, ThreadUpdate

(* A sweep goes on with its output. *)
LEMMA StartOutLocals ==
    ASSUME TypeOK, NEW t \in Threads, NEW at \in Steps, NEW op \in Commands,
           NEW kind \in Kinds, NEW out \in 0 .. MaxOut,
           thread' = [thread EXCEPT ![t] =
                        [Idle EXCEPT !.at = at, !.op = op, !.kind = kind, !.out = out]]
    PROVE  /\ thread' \in [Threads -> Frames]
           /\ IsFrame(thread'[t], at, op, kind, NoFile, out, {}, {}, FALSE)
           /\ \A u \in Threads \ {t} : thread'[u] = thread[u]
<1> DEFINE fr == [Idle EXCEPT !.at = at, !.op = op, !.kind = kind, !.out = out]
<1>1. fr \in Frames /\ IsFrame(fr, at, op, kind, NoFile, out, {}, {}, FALSE)
  BY IdleFields DEF Frames, IsFrame
<1> HIDE DEF fr
<1>2. thread' = [thread EXCEPT ![t] = fr]
  BY DEF fr
<1>3. IsFrame(thread'[t], at, op, kind, NoFile, out, {}, {}, FALSE)
  BY <1>1, <1>2, ThreadUpdate
<1> QED
  BY <1>1, <1>2, <1>3, ThreadUpdate

-----------------------------------------------------------------------------
(* Types, and which local variables are set at which step. *)

(* A failed expect() changes nothing else. *)
LEMMA AbortTyped ==
    ASSUME Typed, NEW message \in Panics, Abort(message)
    PROVE  Typed'
BY DEF Typed, Abort, TypeOK, CliShape, EventsShape, WalletHeld, cli, events

(* A transaction leaves allocations of contracts on outputs. *)
LEMMA TransactType ==
    ASSUME TypeOK, NEW inputs, NEW outs \in SUBSET Outs, NEW picked, NEW kind, NEW dest,
           dest \in Outs => kind \in Contracts,
           Transact(inputs, outs, picked, kind, dest)
    PROVE  /\ unspent' \in SUBSET Outs
           /\ holds' \in [Outs -> SUBSET Contracts]
           /\ burnt' \in BOOLEAN
BY DEF TypeOK, Transact

(* createutxos. *)
LEMMA CreateTyped ==
    ASSUME Typed, CreateRead \/ CreateBroadcast \/ CreateWrite
    PROVE  Typed'
<1> USE DEF Typed, cli, events
<1>1. CASE CreateRead
  <2>1. CASE UNCHANGED <<wallet, thread>>
    BY <1>1, <2>1 DEF CreateRead, TypeOK, CliShape, EventsShape, WalletHeld
  <2>2. CASE thread' = [thread EXCEPT !["cli"] =
                          [Idle EXCEPT !.at = "create", !.op = "createutxos",
                                       !.copy = file]]
             /\ wallet' = "cli"
    <3>1. /\ thread' \in [Threads -> Frames]
          /\ IsFrame(cli', "create", "createutxos", NoAsset, file, 0, {}, {}, FALSE)
          /\ events' = events
      <4>1. "create" \in Steps /\ "createutxos" \in Commands /\ file \in Files
        BY DEF Steps, Commands, TypeOK
      <4> QED
        BY <2>2, <4>1, StartCopyLocals
    <3>2. TypeOK'
      BY <1>1, <2>2, <3>1 DEF CreateRead, TypeOK
    <3>3. CliShape' /\ EventsShape' /\ WalletHeld'
      BY <1>1, <2>2, <3>1 DEF CreateRead, CliShape, EventsShape, WalletHeld, IsFrame
    <3> QED
      BY <3>2, <3>3
  <2> QED
    BY <1>1, <2>1, <2>2 DEF CreateRead
<1>2. CASE CreateBroadcast
  <2>1. CASE Abort("able to broadcast")
    BY <2>1, AbortTyped DEF Panics
  <2>2. CASE ~ Abort("able to broadcast")
    <3>1. PICK coin \in Spendable(cli.copy) :
            /\ next + UTXO_NUM <= MaxOut
            /\ Transact({coin}, next .. next + UTXO_NUM, {}, NoAsset, 0)
            /\ next' = next + UTXO_NUM + 1
            /\ thread' = [thread EXCEPT !["cli"].at = "created", !["cli"].out = next]
            /\ NotesStale("cli")
            /\ UNCHANGED <<file, view, seals, ldk, locks, faults, marks>>
      BY <1>2, <2>2 DEF CreateBroadcast
    <3>2. /\ thread' \in [Threads -> Frames]
          /\ IsFrame(cli', "created", cli.op, cli.kind, cli.copy, next, cli.picked,
                     cli.inputs, cli.change)
          /\ events' = events
      <4>1. next \in 0 .. MaxOut
        BY <3>1 DEF TypeOK
      <4> QED
        BY <3>1, <4>1, OutLocals DEF Steps
    <3>3. /\ unspent' \in SUBSET Outs /\ holds' \in [Outs -> SUBSET Contracts]
          /\ burnt' \in BOOLEAN
      <4>1. next .. next + UTXO_NUM \in SUBSET Outs
        BY <3>1 DEF TypeOK
      <4>2. 0 \notin Outs
        OBVIOUS
      <4> QED
        BY <3>1, <4>1, <4>2, TransactType
    <3>4. /\ UNCHANGED <<file, view, seals, ldk, locks, faults, marks>>
          /\ next' = next + UTXO_NUM + 1 /\ next + UTXO_NUM <= MaxOut
          /\ stale' \in BOOLEAN
      BY <3>1 DEF NotesStale
    <3>5. TypeOK'
      BY <3>2, <3>3, <3>4 DEF TypeOK
    <3>6. next \in Nat \ {0}
      BY DEF TypeOK
    <3>7. CliShape'
      BY <1>2, <3>2, <3>4, <3>6 DEF CreateBroadcast, CliShape, IsFrame
    <3>8. EventsShape' /\ WalletHeld'
      BY <1>2, <3>2, <3>4 DEF CreateBroadcast, EventsShape, WalletHeld, IsFrame
    <3> QED
      BY <3>5, <3>7, <3>8
  <2> QED
    BY <2>1, <2>2
<1>3. CASE CreateWrite
  <2>1. /\ thread' \in [Threads -> Frames]
        /\ IsFrame(cli', "idle", "none", NoAsset, NoFile, 0, {}, {}, FALSE)
        /\ events' = events
    BY <1>3, FinishLocals DEF CreateWrite
  <2>2. file' \in Files
    <3>1. /\ cli.copy \in Files
          /\ cli.out .. cli.out + UTXO_NUM - 1 \in SUBSET Outs
      BY <1>3 DEF CreateWrite, TypeOK, CliShape, Frames
    <3> QED
      BY <1>3, <3>1 DEF CreateWrite, Push
  <2>3. TypeOK'
    BY <1>3, <2>1, <2>2 DEF CreateWrite, TypeOK, NotesStale
  <2>4. CliShape' /\ EventsShape' /\ WalletHeld'
    BY <1>3, <2>1 DEF CreateWrite, CliShape, EventsShape, WalletHeld, IsFrame
  <2> QED
    BY <2>3, <2>4
<1> QED
  BY <1>1, <1>2, <1>3

(* The commands that need an output, up to the mark. *)
LEMMA MarkTyped ==
    ASSUME Typed,
           \/ \E c \in Contracts : issueasset(c)
           \/ receiveasset \/ check_uncolored_utxos \/ get_utxo \/ MarkRead \/ MarkWrite
    PROVE  Typed'
<1> USE DEF Typed, cli, events
<1>1. ASSUME NEW c \in Contracts, issueasset(c) PROVE Typed'
  <2>1. /\ thread' \in [Threads -> Frames]
        /\ IsFrame(cli', "check", "issueasset", c, NoFile, 0, {}, {}, FALSE)
        /\ events' = events
    <3>1. "check" \in Steps /\ "issueasset" \in Commands /\ c \in Kinds
      BY DEF Steps, Commands
    <3> QED
      BY <1>1, <3>1, StartKindLocals DEF issueasset
  <2>2. TypeOK'
    BY <1>1, <2>1 DEF issueasset, TypeOK
  <2>3. CliShape' /\ EventsShape' /\ WalletHeld'
    BY <1>1, <2>1 DEF issueasset, CliShape, EventsShape, WalletHeld, IsFrame
  <2> QED
    BY <2>2, <2>3
<1>2. CASE receiveasset
  <2>1. /\ thread' \in [Threads -> Frames]
        /\ IsFrame(cli', "check", "receiveasset", NoAsset, NoFile, 0, {}, {}, FALSE)
        /\ events' = events
    <3>1. "check" \in Steps /\ "receiveasset" \in Commands
      BY DEF Steps, Commands
    <3> QED
      BY <1>2, <3>1, StartLocals DEF receiveasset
  <2> QED
    BY <1>2, <2>1 DEF receiveasset, TypeOK, CliShape, EventsShape, WalletHeld, IsFrame
<1>3. CASE check_uncolored_utxos
  <2>1. CASE Goto("cli", "get") /\ UNCHANGED runtime
    <3>1. /\ thread' \in [Threads -> Frames]
          /\ IsFrame(cli', "get", cli.op, cli.kind, cli.copy, cli.out, cli.picked,
                     cli.inputs, cli.change)
          /\ events' = events
      BY <2>1, GotoLocals DEF Steps
    <3> QED
      BY <1>3, <2>1, <3>1 DEF check_uncolored_utxos, TypeOK, CliShape, EventsShape,
                              WalletHeld, IsFrame
  <2>2. CASE Finish("cli") /\ runtime' = IF runtime = "cli" THEN "nobody" ELSE runtime
    <3>1. /\ thread' \in [Threads -> Frames]
          /\ IsFrame(cli', "idle", "none", NoAsset, NoFile, 0, {}, {}, FALSE)
          /\ events' = events
      BY <2>2, FinishLocals
    <3> QED
      BY <1>3, <2>2, <3>1 DEF check_uncolored_utxos, TypeOK, CliShape, EventsShape,
                              WalletHeld, IsFrame
  <2> QED
    BY <1>3, <2>1, <2>2 DEF check_uncolored_utxos
<1>4. CASE get_utxo
  <2>1. CASE Abort("at least one unlocked UTXO")
    BY <2>1, AbortTyped DEF Panics
  <2>2. ASSUME NEW o \in Uncolored(file),
               thread' = [thread EXCEPT !["cli"].at = "mark", !["cli"].out = o],
               UNCHANGED <<file, chain, view, seals, next, ldk, locks, faults,
                           stale, marks>>
        PROVE  Typed'
    <3>1. o \in Outs /\ o \in 0 .. MaxOut
      BY DEF TypeOK, Uncolored
    <3>2. /\ thread' \in [Threads -> Frames]
          /\ IsFrame(cli', "mark", cli.op, cli.kind, cli.copy, o, cli.picked,
                     cli.inputs, cli.change)
          /\ events' = events
      BY <2>2, <3>1, OutLocals DEF Steps
    <3>3. TypeOK'
      BY <2>2, <3>2 DEF TypeOK
    <3>4. cli.at = "get" /\ wallet' = wallet
      BY <1>4, <2>2 DEF get_utxo
    <3>5. CliShape' /\ EventsShape' /\ WalletHeld'
      BY <3>1, <3>2, <3>4 DEF CliShape, EventsShape, WalletHeld, IsFrame
    <3> QED
      BY <3>3, <3>5
  <2> QED
    BY <1>4, <2>1, <2>2 DEF get_utxo
<1>5. CASE MarkRead
  <2>1. CASE Abort("UTXO found")
    BY <2>1, AbortTyped DEF Panics
  <2>2. CASE ~ Abort("UTXO found")
    <3>1. /\ cli.out \in file.listed
          /\ thread' = [thread EXCEPT !["cli"].at = "write", !["cli"].copy = file]
          /\ UNCHANGED <<file, chain, view, seals, next, ldk, locks, faults,
                         stale, marks>>
      BY <1>5, <2>2 DEF MarkRead
    <3>2. /\ thread' \in [Threads -> Frames]
          /\ IsFrame(cli', "write", cli.op, cli.kind, file, cli.out, cli.picked,
                     cli.inputs, cli.change)
          /\ events' = events
      BY <3>1, ReadLocals DEF Steps
    <3> QED
      BY <1>5, <3>1, <3>2 DEF MarkRead, TypeOK, CliShape, EventsShape, WalletHeld, IsFrame
  <2> QED
    BY <2>1, <2>2
<1>6. CASE MarkWrite
  <2>1. /\ thread' \in [Threads -> Frames]
        /\ IsFrame(cli', IF cli.op = "sendasset" THEN "build" ELSE "seal", cli.op,
                   cli.kind, cli.copy, cli.out, cli.picked, cli.inputs, cli.change)
        /\ events' = events
    BY <1>6, GotoLocals DEF MarkWrite, Steps
  <2>2. file' \in Files
    <3>1. /\ cli.copy \in Files /\ cli.out \in cli.copy.listed
      BY <1>6 DEF MarkWrite, TypeOK, CliShape, Frames
    <3> QED
      BY <1>6, <3>1 DEF MarkWrite, Mark
  <2>3. TypeOK'
    BY <1>6, <2>1, <2>2 DEF MarkWrite, TypeOK, NotesStale
  <2>4. CliShape' /\ EventsShape' /\ WalletHeld'
    BY <1>6, <2>1 DEF MarkWrite, TypeOK, CliShape, EventsShape, WalletHeld, IsFrame
  <2> QED
    BY <2>3, <2>4
<1> QED
  BY <1>1, <1>2, <1>3, <1>4, <1>5, <1>6

(* The output is used, and sendasset. *)
LEMMA SendTyped ==
    ASSUME Typed,
           \/ Seal \/ SendBuild \/ SendPost
           \/ \E c \in Contracts : SendSelect(c)
           \/ \E o \in Outs, c \in Contracts : TransferArrives(o, c)
    PROVE  Typed'
<1> USE DEF Typed, cli, events
<1>1. CASE Seal
  <2>1. /\ thread' \in [Threads -> Frames]
        /\ IsFrame(cli', "idle", "none", NoAsset, NoFile, 0, {}, {}, FALSE)
        /\ events' = events
    BY <1>1, FinishLocals DEF Seal
  <2>2. /\ unspent' \in SUBSET Outs /\ holds' \in [Outs -> SUBSET Contracts]
        /\ burnt' \in BOOLEAN
        /\ promised' \in SUBSET Outs /\ issued' \in SUBSET Contracts
    <3>1. cli.out \in Outs /\ {} \in SUBSET Outs
      BY <1>1 DEF Seal, TypeOK, CliShape, Frames
    <3>2. CASE cli.op = "issueasset"
      <4>1. Transact({}, {}, {}, cli.kind, cli.out) /\ cli.kind \in Contracts
            /\ issued' = issued \cup {cli.kind} /\ UNCHANGED promised
        BY <1>1, <3>2 DEF Seal, issue_contract, CliShape
      <4>2. /\ unspent' \in SUBSET Outs /\ holds' \in [Outs -> SUBSET Contracts]
            /\ burnt' \in BOOLEAN
        BY <3>1, <4>1, TransactType
      <4> QED
        BY <4>1, <4>2 DEF TypeOK
    <3>3. CASE cli.op # "issueasset"
      BY <1>1, <3>1, <3>3 DEF Seal, Promise, TypeOK
    <3> QED
      BY <3>2, <3>3
  <2>3. TypeOK'
    BY <1>1, <2>1, <2>2 DEF Seal, TypeOK
  <2>4. CliShape' /\ EventsShape' /\ WalletHeld'
    BY <1>1, <2>1 DEF Seal, CliShape, EventsShape, WalletHeld, IsFrame
  <2> QED
    BY <2>3, <2>4
<1>2. CASE SendBuild
  <2>1. CASE Abort("valid utxos")
    BY <2>1, AbortTyped DEF Panics
  <2>2. CASE ~ Abort("valid utxos")
    <3>1. /\ cli.at = "build" /\ wallet = "free" /\ wallet' = "cli" /\ Goto("cli", "post")
          /\ UNCHANGED <<file, chain, view, seals, next, ldk, runtime, faults,
                         stale, marks>>
      BY <1>2, <2>2 DEF SendBuild
    <3>2. /\ thread' \in [Threads -> Frames]
          /\ IsFrame(cli', "post", cli.op, cli.kind, cli.copy, cli.out, cli.picked,
                     cli.inputs, cli.change)
          /\ events' = events
      BY <3>1, GotoLocals DEF Steps
    <3>3. TypeOK'
      BY <3>1, <3>2 DEF TypeOK
    <3>4. CliShape' /\ EventsShape' /\ WalletHeld'
      BY <3>1, <3>2 DEF CliShape, EventsShape, WalletHeld, IsFrame
    <3> QED
      BY <3>3, <3>4
  <2> QED
    BY <2>1, <2>2
<1>3. CASE SendPost
  <2>1. CASE Abort("able to broadcast")
    BY <2>1, AbortTyped DEF Panics
  <2>2. CASE ~ Abort("able to broadcast")
    <3>1. /\ cli.at = "post" /\ wallet' = "free" /\ Finish("cli")
          /\ runtime' \in {"free", "nobody"}
          /\ UNCHANGED <<file, seals, ldk, faults, stale, reused>>
      BY <1>3, <2>2 DEF SendPost
    <3>2. /\ thread' \in [Threads -> Frames]
          /\ IsFrame(cli', "idle", "none", NoAsset, NoFile, 0, {}, {}, FALSE)
          /\ events' = events
      BY <3>1, FinishLocals
    <3>3. /\ unspent' \in SUBSET Outs /\ holds' \in [Outs -> SUBSET Contracts]
          /\ burnt' \in BOOLEAN /\ view' \in SUBSET Outs
          /\ next' \in 1 .. MaxOut + 1 /\ wasted' \in SUBSET Outs
      <4>1. cli.out \in 0 .. MaxOut /\ (cli.change <=> cli.out # 0)
            /\ cli.kind \in Contracts
        BY <3>1 DEF TypeOK, Frames, CliShape
      <4>2. CASE UNCHANGED <<chain, view, next>>
                 /\ wasted' = wasted \cup (IF cli.change THEN {cli.out} ELSE {})
        BY <4>1, <4>2 DEF TypeOK
      <4>3. CASE /\ Transact(cli.picked, {next}, cli.picked, cli.kind, cli.out)
                 /\ next <= MaxOut /\ next' = next + 1 /\ view' = unspent'
                 /\ UNCHANGED wasted
        <5>1. {next} \in SUBSET Outs
          BY <4>3 DEF TypeOK
        <5>2. /\ unspent' \in SUBSET Outs /\ holds' \in [Outs -> SUBSET Contracts]
              /\ burnt' \in BOOLEAN
          BY <4>1, <4>3, <5>1, TransactType
        <5> QED
          BY <4>3, <5>2 DEF TypeOK
      <4> QED
        BY <1>3, <2>2, <4>2, <4>3 DEF SendPost
    <3>4. TypeOK'
      BY <3>1, <3>2, <3>3 DEF TypeOK
    <3>5. CliShape' /\ EventsShape' /\ WalletHeld'
      BY <3>1, <3>2 DEF CliShape, EventsShape, WalletHeld, IsFrame
    <3> QED
      BY <3>4, <3>5
  <2> QED
    BY <2>1, <2>2
<1>4. ASSUME NEW c \in Contracts, SendSelect(c) PROVE Typed'
  <2>1. /\ cli.at = "idle" /\ wallet = "free" /\ view' = unspent
        /\ runtime' \in {"nobody", "cli"}
        /\ UNCHANGED <<file, chain, seals, next, ldk, wallet, faults, stale, marks>>
    BY <1>4 DEF SendSelect
  <2>2. CASE UNCHANGED thread
    BY <2>1, <2>2 DEF TypeOK, CliShape, EventsShape, WalletHeld
  <2>3. ASSUME NEW picked \in SUBSET Owned(c) \ {{}}, NEW change \in BOOLEAN,
               NEW at, at = IF change THEN "check" ELSE "build",
               NEW fr, fr = [Idle EXCEPT !.at = at, !.op = "sendasset", !.kind = c,
                                         !.picked = picked, !.change = change],
               thread' = [thread EXCEPT !["cli"] = fr]
        PROVE  Typed'
    <3>1. /\ at \in Steps
          /\ "sendasset" \in Commands /\ c \in Kinds /\ picked \in SUBSET Outs
      BY <2>3 DEF Steps, Commands, Owned, TypeOK
    <3>2. /\ thread' \in [Threads -> Frames]
          /\ IsFrame(cli', at, "sendasset", c, NoFile, 0, picked, {}, change)
          /\ events' = events
      <4>1. fr \in Frames /\ IsFrame(fr, at, "sendasset", c, NoFile, 0, picked, {}, change)
        BY <2>3, <3>1, IdleFields DEF Frames, IsFrame
      <4> QED
        BY <2>3, <4>1, ThreadUpdate
    <3>3. TypeOK'
      BY <2>1, <3>2 DEF TypeOK
    <3>4. CliShape' /\ EventsShape' /\ WalletHeld'
      BY <2>1, <2>3, <3>2 DEF CliShape, EventsShape, WalletHeld, IsFrame
    <3> QED
      BY <3>3, <3>4
  <2> QED
    BY <1>4, <2>2, <2>3 DEF SendSelect
<1>5. ASSUME NEW o \in Outs, NEW c \in Contracts, TransferArrives(o, c) PROVE Typed'
  <2>1. /\ unspent' \in SUBSET Outs /\ holds' \in [Outs -> SUBSET Contracts]
        /\ burnt' \in BOOLEAN
    <3>1. {} \in SUBSET Outs /\ Transact({}, {}, {}, c, o)
      BY <1>5 DEF TransferArrives
    <3> QED
      BY <3>1, TransactType
  <2>2. TypeOK'
    BY <1>5, <2>1 DEF TransferArrives, TypeOK
  <2>3. UNCHANGED <<thread, wallet>>
    BY <1>5 DEF TransferArrives
  <2> QED
    BY <2>2, <2>3 DEF CliShape, EventsShape, WalletHeld
<1> QED
  BY <1>1, <1>2, <1>3, <1>4, <1>5

(* Channels. *)
LEMMA FundingTyped ==
    ASSUME Typed, PendingShape,
           \/ \E kind \in Kinds : open_channel(kind) \/ FundingSelect(kind)
           \/ FundingRead \/ FundingBuild \/ FundingSend
           \/ \E f \in pending : FundingAbandoned(f) \/ FundingBroadcast(f)
    PROVE  Typed'
<1> USE DEF Typed, cli, events
<1>1. ASSUME NEW kind \in Kinds, open_channel(kind) PROVE Typed'
  <2>1. TypeOK'
    BY <1>1 DEF open_channel, TypeOK
  <2>2. UNCHANGED <<thread, wallet>>
    BY <1>1 DEF open_channel
  <2> QED
    BY <2>1, <2>2 DEF CliShape, EventsShape, WalletHeld
<1>2. ASSUME NEW kind \in Kinds, FundingSelect(kind) PROVE Typed'
  <2>1. CASE Abort("subtract with overflow")
    BY <2>1, AbortTyped DEF Panics
  <2>2. CASE ~ Abort("subtract with overflow")
    <3>1. /\ events.at = "idle" /\ opening' = opening \ {kind}
          /\ view' \in {view, unspent}
          /\ UNCHANGED <<file, chain, seals, next, pending, locks, faults, stale, marks>>
      BY <1>2, <2>2 DEF FundingSelect
    <3>2. PICK picked \in SUBSET Outs, change \in BOOLEAN :
            /\ thread' \in [Threads -> Frames]
            /\ IsFrame(events', "read", "funding", kind, NoFile, 0, picked, {}, change)
            /\ change => kind \in Contracts
            /\ cli' = cli
      <4>1. "read" \in Steps /\ "funding" \in Commands
        BY DEF Steps, Commands
      <4>2. CASE kind = NoAsset
        <5>1. thread' = [thread EXCEPT !["events"] =
                           [Idle EXCEPT !.at = "read", !.op = "funding"]]
          BY <1>2, <2>2, <4>2 DEF FundingSelect
        <5>2. /\ thread' \in [Threads -> Frames]
              /\ IsFrame(events', "read", "funding", NoAsset, NoFile, 0, {}, {}, FALSE)
              /\ cli' = cli
          BY <4>1, <5>1, StartLocals
        <5> QED
          BY <4>2, <5>2
      <4>3. CASE kind # NoAsset
        <5>1. PICK picked \in SUBSET Owned(kind) \ {{}}, change \in BOOLEAN :
                thread' = [thread EXCEPT !["events"] =
                  [Idle EXCEPT !.at = "read", !.op = "funding", !.kind = kind,
                               !.picked = picked, !.change = change]]
          BY <1>2, <2>2, <4>3 DEF FundingSelect
        <5> DEFINE fr == [Idle EXCEPT !.at = "read", !.op = "funding", !.kind = kind,
                                     !.picked = picked, !.change = change]
        <5>0. thread' = [thread EXCEPT !["events"] = fr]
          BY <5>1
        <5>2. picked \in SUBSET Outs /\ kind \in Contracts
          BY <4>3 DEF Owned, TypeOK
        <5>3. /\ thread' \in [Threads -> Frames]
              /\ IsFrame(events', "read", "funding", kind, NoFile, 0, picked, {}, change)
              /\ cli' = cli
          <6>1. fr \in Frames
                /\ IsFrame(fr, "read", "funding", kind, NoFile, 0, picked, {}, change)
            BY <4>1, <5>2, IdleFields DEF Frames, IsFrame
          <6> HIDE DEF fr
          <6> QED
            BY <5>0, <6>1, ThreadUpdate
        <5> QED
          BY <5>2, <5>3
      <4> QED
        BY <4>2, <4>3
    <3>3. TypeOK'
      BY <3>1, <3>2 DEF TypeOK
    <3>4. CliShape' /\ EventsShape' /\ WalletHeld'
      BY <3>1, <3>2 DEF CliShape, EventsShape, WalletHeld, IsFrame
    <3> QED
      BY <3>3, <3>4
  <2> QED
    BY <2>1, <2>2
<1>3. CASE FundingRead
  <2>1. /\ events.at = "read"
        /\ thread' = [thread EXCEPT !["events"].at = "fund", !["events"].copy = file]
        /\ UNCHANGED <<file, chain, view, seals, next, ldk, locks, faults, stale, marks>>
    BY <1>3 DEF FundingRead
  <2>2. /\ thread' \in [Threads -> Frames]
        /\ IsFrame(events', "fund", events.op, events.kind, file, events.out,
                   events.picked, events.inputs, events.change)
        /\ cli' = cli
    BY <2>1, ReadLocals DEF Steps
  <2>3. TypeOK'
    BY <2>1, <2>2 DEF TypeOK
  <2>4. CliShape' /\ EventsShape' /\ WalletHeld'
    BY <2>1, <2>2 DEF CliShape, EventsShape, WalletHeld, IsFrame
  <2> QED
    BY <2>3, <2>4
<1>4. CASE FundingBuild
  <2>1. CASE Abort("valid utxos") \/ Abort("valid psbt finish")
    BY <2>1, AbortTyped DEF Panics
  <2>2. CASE ~ Abort("valid utxos") /\ ~ Abort("valid psbt finish")
    <3>1. /\ events.at = "fund" /\ next <= MaxOut /\ events.picked \subseteq view
          /\ next' = next + 1 /\ wallet = "free" /\ wallet' = "events"
          /\ NotesStale("events")
          /\ UNCHANGED <<file, chain, view, seals, ldk, runtime, faults, marks>>
      BY <1>4, <2>2 DEF FundingBuild
    <3>2. PICK extra \in SUBSET view :
            thread' = [thread EXCEPT
                    !["events"].at = "send", !["events"].out = next,
                    !["events"].inputs = events.picked \cup extra]
      <4> DEFINE coins == view \ (unspendable_utxos(events.copy, events.picked)
                                    \cup events.picked)
      <4>1. PICK extra \in {{}} \cup {{o} : o \in coins} :
              thread' = [thread EXCEPT
                    !["events"].at = "send", !["events"].out = next,
                    !["events"].inputs = events.picked \cup extra]
        BY <1>4, <2>2 DEF FundingBuild
      <4> QED
        BY <4>1
    <3>3. /\ next \in 0 .. MaxOut /\ next # 0
          /\ events.picked \cup extra \in SUBSET Outs /\ stale' \in BOOLEAN
      BY <3>1, <3>2 DEF TypeOK, NotesStale
    <3>4. /\ thread' \in [Threads -> Frames]
          /\ IsFrame(events', "send", events.op, events.kind, events.copy, next,
                     events.picked, events.picked \cup extra, events.change)
          /\ cli' = cli
      BY <3>2, <3>3, InputsLocals DEF Steps
    <3>5. TypeOK'
      BY <3>1, <3>3, <3>4 DEF TypeOK
    <3>6. CliShape' /\ EventsShape' /\ WalletHeld'
      BY <3>1, <3>3, <3>4 DEF CliShape, EventsShape, WalletHeld, IsFrame
    <3> QED
      BY <3>5, <3>6
  <2> QED
    BY <2>1, <2>2
<1>5. CASE FundingSend
  <2>1. /\ thread' \in [Threads -> Frames]
        /\ IsFrame(events', "idle", "none", NoAsset, NoFile, 0, {}, {}, FALSE)
        /\ cli' = cli
    BY <1>5, FinishLocals DEF FundingSend
  <2>2. events \in Frames /\ events.out \in Outs /\ events.copy \in Files
    BY <1>5 DEF FundingSend, TypeOK, EventsShape, Frames
  <2>3. file' \in Files /\ stale' \in BOOLEAN
    <3>1. CASE events.change
      <4>1. file' = Push(events.copy, {events.out}, TRUE) /\ NotesStale("events")
        BY <1>5, <3>1 DEF FundingSend
      <4> QED
        BY <2>2, <4>1 DEF Push, NotesStale
    <3>2. CASE ~ events.change
      BY <1>5, <3>2 DEF FundingSend, TypeOK
    <3> QED
      BY <3>1, <3>2
  <2>4. pending' \in SUBSET Fundings
    BY <1>5, <2>2 DEF FundingSend, TypeOK, Frames, Fundings
  <2>5. TypeOK'
    BY <1>5, <2>1, <2>3, <2>4 DEF FundingSend, TypeOK
  <2>6. CliShape' /\ EventsShape' /\ WalletHeld'
    BY <1>5, <2>1 DEF FundingSend, CliShape, EventsShape, WalletHeld, IsFrame
  <2> QED
    BY <2>5, <2>6
<1>6. ASSUME NEW f \in pending, FundingAbandoned(f) PROVE Typed'
  BY <1>6 DEF FundingAbandoned, TypeOK, CliShape, EventsShape, WalletHeld
<1>7. ASSUME NEW f \in pending, FundingBroadcast(f) PROVE Typed'
  <2>1. f \in Fundings /\ (f.change => f.kind \in Contracts)
    BY DEF TypeOK, PendingShape
  <2>2. /\ unspent' \in SUBSET Outs /\ holds' \in [Outs -> SUBSET Contracts]
        /\ burnt' \in BOOLEAN
    <3>1. /\ {f.out} \in SUBSET Outs
          /\ (IF f.change THEN f.out ELSE 0) \in Outs => f.kind \in Contracts
      BY <2>1 DEF Fundings
    <3> QED
      BY <1>7, <3>1, TransactType DEF FundingBroadcast
  <2>3. TypeOK'
    BY <1>7, <2>2 DEF FundingBroadcast, TypeOK
  <2>4. UNCHANGED <<thread, wallet>>
    BY <1>7 DEF FundingBroadcast
  <2> QED
    BY <2>3, <2>4 DEF CliShape, EventsShape, WalletHeld
<1> QED
  BY <1>1, <1>2, <1>3, <1>4, <1>5, <1>6, <1>7

(* Sweeps, and a restart. *)
LEMMA SweepTyped ==
    ASSUME Typed,
           \/ \E kind \in Kinds : SweepBroadcast(kind)
           \/ SweepRead \/ SweepWrite \/ ManagerSaved \/ SweepAgain \/ Restart
    PROVE  Typed'
<1> USE DEF Typed, cli, events
<1>1. ASSUME NEW kind \in Kinds, SweepBroadcast(kind) PROVE Typed'
  <2>1. /\ events.at = "idle" /\ wallet = "free" /\ runtime = "free"
        /\ next' = next + 1 /\ next <= MaxOut /\ view' = unspent' /\ unsaved' = "swept"
        /\ UNCHANGED <<file, seals, ldk, panic, crashes, orphaned, stale, marks>>
    BY <1>1 DEF SweepBroadcast
  <2>2. next \in 0 .. MaxOut /\ next # 0 /\ {next} \in SUBSET Outs
    BY <2>1 DEF TypeOK
  <2>3. /\ unspent' \in SUBSET Outs /\ holds' \in [Outs -> SUBSET Contracts]
        /\ burnt' \in BOOLEAN
    <3>1. (IF kind = NoAsset THEN 0 ELSE next) \in Outs => kind \in Contracts
      OBVIOUS
    <3> QED
      BY <1>1, <2>2, <3>1, TransactType DEF SweepBroadcast
  <2>4. CASE kind = NoAsset
    <3>1. UNCHANGED <<locks, thread>>
      BY <1>1, <2>4 DEF SweepBroadcast
    <3>2. TypeOK'
      BY <2>1, <2>2, <2>3, <3>1 DEF TypeOK
    <3> QED
      BY <3>1, <3>2 DEF CliShape, EventsShape, WalletHeld
  <2>5. CASE kind # NoAsset
    <3>1. /\ runtime' = "events" /\ wallet' = "events"
          /\ thread' = [thread EXCEPT !["events"] =
                 [Idle EXCEPT !.at = "swept", !.op = "sweep", !.kind = kind,
                              !.out = next]]
      BY <1>1, <2>5 DEF SweepBroadcast
    <3>2. "swept" \in Steps /\ "sweep" \in Commands
      BY DEF Steps, Commands
    <3>3. /\ thread' \in [Threads -> Frames]
          /\ IsFrame(events', "swept", "sweep", kind, NoFile, next, {}, {}, FALSE)
          /\ cli' = cli
      BY <2>2, <3>1, <3>2, StartOutLocals
    <3>4. TypeOK'
      BY <2>1, <2>2, <2>3, <3>1, <3>3 DEF TypeOK
    <3>5. CliShape' /\ EventsShape' /\ WalletHeld'
      BY <2>1, <2>2, <2>5, <3>1, <3>3 DEF CliShape, EventsShape, WalletHeld, IsFrame
    <3> QED
      BY <3>4, <3>5
  <2> QED
    BY <2>4, <2>5
<1>2. CASE SweepRead
  <2>1. /\ events.at = "swept"
        /\ thread' = [thread EXCEPT !["events"].at = "sweptread", !["events"].copy = file]
        /\ UNCHANGED <<file, chain, view, seals, next, ldk, locks, faults, stale, marks>>
    BY <1>2 DEF SweepRead
  <2>2. /\ thread' \in [Threads -> Frames]
        /\ IsFrame(events', "sweptread", events.op, events.kind, file, events.out,
                   events.picked, events.inputs, events.change)
        /\ cli' = cli
    BY <2>1, ReadLocals DEF Steps
  <2>3. TypeOK'
    BY <2>1, <2>2 DEF TypeOK
  <2>4. CliShape' /\ EventsShape' /\ WalletHeld'
    BY <2>1, <2>2 DEF CliShape, EventsShape, WalletHeld, IsFrame
  <2> QED
    BY <2>3, <2>4
<1>3. CASE SweepWrite
  <2>1. /\ thread' \in [Threads -> Frames]
        /\ IsFrame(events', "idle", "none", NoAsset, NoFile, 0, {}, {}, FALSE)
        /\ cli' = cli
    BY <1>3, FinishLocals DEF SweepWrite
  <2>2. file' \in Files
    <3>1. events.out \in Outs /\ events.copy \in Files
      BY <1>3 DEF SweepWrite, TypeOK, EventsShape, Frames
    <3> QED
      BY <1>3, <3>1 DEF SweepWrite, Push
  <2>3. TypeOK'
    BY <1>3, <2>1, <2>2 DEF SweepWrite, TypeOK, NotesStale
  <2>4. CliShape' /\ EventsShape' /\ WalletHeld'
    BY <1>3, <2>1 DEF SweepWrite, CliShape, EventsShape, WalletHeld, IsFrame
  <2> QED
    BY <2>3, <2>4
<1>4. CASE ManagerSaved
  <2>1. TypeOK'
    BY <1>4 DEF ManagerSaved, TypeOK
  <2>2. UNCHANGED <<thread, wallet>>
    BY <1>4 DEF ManagerSaved
  <2> QED
    BY <2>1, <2>2 DEF CliShape, EventsShape, WalletHeld
<1>5. CASE SweepAgain
  BY <1>5, AbortTyped DEF SweepAgain, Panics
<1>6. CASE Restart
  <2>1. /\ thread' \in [Threads -> Frames]
        /\ IsFrame(cli', "idle", "none", NoAsset, NoFile, 0, {}, {}, FALSE)
        /\ IsFrame(events', "idle", "none", NoAsset, NoFile, 0, {}, {}, FALSE)
    BY <1>6, IdleFields DEF Restart
  <2>2. orphaned' \in SUBSET Outs
    <3>1. events.op = "sweep" => events.out \in Outs
      BY DEF TypeOK, EventsShape, Frames
    <3> QED
      BY <1>6, <3>1 DEF Restart, TypeOK
  <2>3. TypeOK'
    <3>1. /\ crashes < MaxCrashes /\ crashes' = crashes + 1
          /\ unsaved' \in {unsaved, "again"} /\ panic' = "none"
          /\ wallet' = "free" /\ runtime' = "free" /\ opening' = {}
          /\ UNCHANGED <<file, chain, view, seals, next, pending, stale, marks>>
      BY <1>6 DEF Restart
    <3>2. crashes' \in 0 .. MaxCrashes
      BY <3>1 DEF TypeOK
    <3>3. unsaved' \in {"no", "swept", "again"} /\ panic' \in Panics
      BY <3>1 DEF TypeOK, Panics
    <3>4. UNCHANGED <<file, chain, view, seals, next, pending, stale, marks>>
          /\ wallet' = "free" /\ runtime' = "free" /\ opening' = {}
      BY <3>1
    <3> QED
      BY <2>1, <2>2, <3>2, <3>3, <3>4 DEF TypeOK
  <2>4. CliShape' /\ EventsShape' /\ WalletHeld'
    BY <1>6, <2>1 DEF Restart, CliShape, EventsShape, WalletHeld, IsFrame
  <2> QED
    BY <2>3, <2>4
<1> QED
  BY <1>1, <1>2, <1>3, <1>4, <1>5, <1>6

(* A funding with change was built for a contract. *)
LEMMA PendingStep ==
    ASSUME Typed, PendingShape, [Next]_vars
    PROVE  PendingShape'
<1> USE DEF Typed, PendingShape
<1>1. CASE FundingSend
  BY <1>1 DEF FundingSend, EventsShape, events
<1>2. CASE pending' \subseteq pending
  BY <1>2
<1>3. ASSUME ~ FundingSend PROVE pending' \subseteq pending
  BY <1>3 DEF Next, vars, Abort, CreateRead, CreateBroadcast, CreateWrite, issueasset,
    receiveasset, check_uncolored_utxos, get_utxo, MarkRead, MarkWrite, Seal,
    TransferArrives, SendSelect, SendBuild, SendPost, open_channel, FundingSelect,
    FundingRead, FundingBuild, FundingAbandoned, FundingBroadcast, SweepBroadcast,
    SweepRead, SweepWrite, ManagerSaved, SweepAgain, Restart
<1> QED
  BY <1>1, <1>2, <1>3

(* The empty file and the first coins. *)
LEMMA InitTyped == Init => Typed /\ PendingShape
<1> SUFFICES ASSUME Init PROVE Typed /\ PendingShape
  OBVIOUS
<1>1. thread \in [Threads -> Frames] /\ thread["cli"] = Idle /\ thread["events"] = Idle
  BY IdleFields DEF Init
<1>2. /\ file \in Files /\ unspent \in SUBSET Outs /\ view \in SUBSET Outs
      /\ holds \in [Outs -> SUBSET Contracts] /\ next \in 1 .. MaxOut + 1
  BY DEF Init, NoFile
<1>3. stale \in BOOLEAN /\ reused \in BOOLEAN /\ burnt \in BOOLEAN
  BY DEF Init
<1>4. TypeOK
  BY <1>1, <1>2, <1>3 DEF Init, TypeOK, Panics
<1>5. CliShape /\ EventsShape /\ WalletHeld
  BY <1>1, IdleFields DEF Init, CliShape, EventsShape, WalletHeld, IsFrame, cli, events
<1> QED
  BY <1>4, <1>5 DEF Typed, PendingShape, Init

(* Every step keeps the types. *)
LEMMA TypedStep ==
    ASSUME Typed, PendingShape, [Next]_vars
    PROVE  Typed' /\ PendingShape'
<1>1. CASE UNCHANGED vars
  <2>1. TypeOK'
    BY <1>1 DEF Typed, vars, TypeOK
  <2>2. UNCHANGED <<thread, wallet, pending>>
    BY <1>1 DEF vars
  <2> QED
    BY <2>1, <2>2 DEF Typed, CliShape, EventsShape, WalletHeld, cli, events, PendingShape
<1>2. CASE Next
  <2>1. Typed'
    BY <1>2, CreateTyped, MarkTyped, SendTyped, FundingTyped, SweepTyped DEF Next
  <2> QED
    BY <2>1, PendingStep
<1> QED
  BY <1>1, <1>2

-----------------------------------------------------------------------------
(* While no copy of the file is used after the file has changed. *)

(***************************************************************************)
(* The steps that touch neither the file nor the chain: what a thread      *)
(* chose or reserved before is kept or given back, what it chooses is      *)
(* there, and no output is made.                                           *)
(***************************************************************************)
LEMMA Quiet ==
    ASSUME Typed, Typed', Sound, Promised, ~ stale,
           UNCHANGED <<file, chain, promised, next, orphaned, reused>>,
           crashes <= crashes', wasted \subseteq wasted', pending' \subseteq pending,
           view' \in {view, unspent},
           Made' = Made, Coming' = Coming,
           \A o \in cli'.picked \cup events'.picked : ~ Ahead(o),
           ChosenFor(cli'.picked, cli'.kind),
           ChosenFor(events'.picked, events'.kind),
           cli'.at \in {"mark", "write"} => cli'.out \in Uncolored(file),
           cli'.at \in {"seal", "build", "post"} /\ cli'.out # 0 =>
             Vacant(cli'.out) /\ cli'.out \notin promised,
           cli.out \in file.colored \cap unspent =>
             cli'.out = cli.out \/ cli.out \in wasted',
           events'.at = "send" => events' = events,
           events.op = "sweep" \/ events'.op = "sweep" =>
             events'.op = events.op /\ events'.out = events.out
    PROVE  Sound' /\ Promised'
<1>1. \A o : Ahead(o)' => Ahead(o)
  BY DEF Ahead
<1>2. Fresh'
  BY <1>1 DEF Sound, Fresh
<1>3. Listing'
  BY DEF Sound, Listing, Uncolored
<1>4. Reserved'
  BY DEF Sound, Reserved, Vacant, Uncolored
<1>5. Chosen'
  BY DEF Sound, Chosen, ChosenFor
<1>6. Allocated'
  BY DEF Sound, Allocated
<1>7. Promised'
  BY DEF Promised, MarkedIsUsed, Typed, TypeOK, cli
<1> QED
  BY <1>2, <1>3, <1>4, <1>5, <1>6, <1>7 DEF Sound

(* What the wallet owns of a contract may be chosen unless a sweep is on. *)
LEMMA OwnedChosen ==
    ASSUME Typed, Sound, NEW kind, NEW picked \in SUBSET Owned(kind),
           events.op # "sweep"
    PROVE  /\ \A o \in picked : ~ Ahead(o)
           /\ ChosenFor(picked, kind)
BY DEF Typed, TypeOK, Sound, Fresh, Allocated, ChosenFor, Owned

(* No thread moves: a failed expect(), openchannel, a saved manager.       *)
LEMMA QuietStill ==
    ASSUME Typed, Typed', Sound, Promised, ~ stale,
           UNCHANGED <<file, chain, promised, next, orphaned, reused, wasted, crashes,
                       thread>>,
           pending' \subseteq pending, view' \in {view, unspent}
    PROVE  Sound' /\ Promised'
<1>1. cli' = cli /\ events' = events /\ crashes <= crashes'
  BY DEF cli, events, Typed, TypeOK
<1>2. Made' = Made /\ Coming' = Coming
  BY <1>1 DEF Made, Coming
<1>3. Fresh /\ Reserved /\ Chosen
  BY DEF Sound
<1> QED
  BY <1>1, <1>2, <1>3, Quiet DEF Fresh, Reserved, Chosen

(* Only a command moves. *)
LEMMA QuietCli ==
    ASSUME Typed, Typed', Sound, Promised, ~ stale,
           UNCHANGED <<file, chain, promised, next, orphaned, reused, crashes, pending>>,
           wasted \subseteq wasted', view' \in {view, unspent},
           events' = events, cli.at # "created", cli'.at # "created",
           \A o \in cli'.picked : ~ Ahead(o),
           ChosenFor(cli'.picked, cli'.kind),
           cli'.at \in {"mark", "write"} => cli'.out \in Uncolored(file),
           cli'.at \in {"seal", "build", "post"} /\ cli'.out # 0 =>
             Vacant(cli'.out) /\ cli'.out \notin promised,
           cli.out \in file.colored \cap unspent =>
             cli'.out = cli.out \/ cli.out \in wasted'
    PROVE  Sound' /\ Promised'
<1>1. Made' = Made /\ Coming' = Coming /\ crashes <= crashes'
  BY DEF Made, Coming, Typed, TypeOK
<1>2. Fresh /\ Chosen
  BY DEF Sound
<1>3. \A o \in cli'.picked \cup events'.picked : ~ Ahead(o)
  BY <1>2 DEF Fresh
<1> QED
  BY <1>1, <1>2, <1>3, Quiet DEF Chosen

(* Only an event moves. *)
LEMMA QuietEvents ==
    ASSUME Typed, Typed', Sound, Promised, ~ stale,
           UNCHANGED <<file, chain, promised, next, orphaned, reused, wasted, crashes,
                       pending>>,
           view' \in {view, unspent}, cli' = cli, Coming' = Coming,
           \A o \in events'.picked : ~ Ahead(o),
           ChosenFor(events'.picked, events'.kind),
           events'.at # "send",
           events.op = "sweep" \/ events'.op = "sweep" =>
             events'.op = events.op /\ events'.out = events.out
    PROVE  Sound' /\ Promised'
<1>1. Made' = Made /\ crashes <= crashes'
  BY DEF Made, Typed, TypeOK
<1>2. Fresh /\ Chosen /\ Reserved
  BY DEF Sound
<1>3. \A o \in cli'.picked \cup events'.picked : ~ Ahead(o)
  BY <1>2 DEF Fresh
<1> QED
  BY <1>1, <1>2, <1>3, Quiet DEF Chosen, Reserved

(* createutxos, issueasset and receiveasset start. *)
LEMMA StartSound ==
    ASSUME Typed, Typed', Sound, Promised, ~ stale,
           CreateRead \/ receiveasset \/ \E c \in Contracts : issueasset(c)
    PROVE  Sound' /\ Promised'
<1>1. /\ cli.at = "idle" /\ view' \in {view, unspent}
      /\ UNCHANGED <<file, chain, seals, next, ldk, runtime, faults, stale, marks>>
  BY DEF CreateRead, receiveasset, issueasset, cli
<1>2. CASE UNCHANGED thread
  BY <1>1, <1>2, QuietStill
<1>3. CASE ~ UNCHANGED thread
  <2>1. /\ "create" \in Steps /\ "check" \in Steps /\ "createutxos" \in Commands
        /\ "receiveasset" \in Commands /\ "issueasset" \in Commands
        /\ file \in Files /\ TypeOK
    BY DEF Steps, Commands, Typed, TypeOK
  <2>2. ASSUME CreateRead
        PROVE  cli'.picked = {} /\ cli'.at \in {"create", "check"} /\ events' = events
    <3>1. thread' = [thread EXCEPT !["cli"] =
                       [Idle EXCEPT !.at = "create", !.op = "createutxos", !.copy = file]]
      BY <1>3, <2>2 DEF CreateRead
    <3>2. /\ IsFrame(cli', "create", "createutxos", NoAsset, file, 0, {}, {}, FALSE)
          /\ events' = events
      BY <2>1, <3>1, StartCopyLocals DEF cli, events
    <3> QED
      BY <3>2 DEF IsFrame
  <2>3. ASSUME receiveasset
        PROVE  cli'.picked = {} /\ cli'.at \in {"create", "check"} /\ events' = events
    <3>1. /\ IsFrame(cli', "check", "receiveasset", NoAsset, NoFile, 0, {}, {}, FALSE)
          /\ events' = events
      BY <2>1, <2>3, StartLocals DEF receiveasset, cli, events
    <3> QED
      BY <3>1 DEF IsFrame
  <2>4. ASSUME NEW c \in Contracts, issueasset(c)
        PROVE  cli'.picked = {} /\ cli'.at \in {"create", "check"} /\ events' = events
    <3>1. /\ IsFrame(cli', "check", "issueasset", c, NoFile, 0, {}, {}, FALSE)
          /\ events' = events
      BY <2>1, <2>4, StartKindLocals DEF issueasset, cli, events
    <3> QED
      BY <3>1 DEF IsFrame
  <2>5. cli.out = 0 /\ file.colored \subseteq Outs
    BY <1>1 DEF Typed, CliShape, TypeOK
  <2>6. cli'.picked = {} /\ cli'.at \in {"create", "check"} /\ events' = events
    BY <2>2, <2>3, <2>4
  <2> QED
    BY <1>1, <2>5, <2>6, QuietCli DEF ChosenFor
<1> QED
  BY <1>2, <1>3

(* A failed expect(). *)
LEMMA AbortSound ==
    ASSUME Typed, Typed', Sound, Promised, ~ stale, NEW message, Abort(message)
    PROVE  Sound' /\ Promised'
<1>1. /\ UNCHANGED <<file, chain, promised, next, orphaned, reused, wasted, crashes,
                     thread>>
      /\ pending' \subseteq pending /\ view' \in {view, unspent}
  BY DEF Abort
<1> QED
  BY <1>1, QuietStill

(* check_uncolored_utxos and get_utxo: an output is reserved. *)
LEMMA ReserveSound ==
    ASSUME Typed, Typed', Sound, Promised, ~ stale,
           check_uncolored_utxos \/ get_utxo \/ MarkRead
    PROVE  Sound' /\ Promised'
<1> USE DEF cli, events
<1>1. TypeOK /\ CliShape /\ Fresh /\ Reserved /\ ChosenFor(cli.picked, cli.kind)
      /\ \A o \in cli.picked : ~ Ahead(o)
  BY DEF Typed, Sound, Fresh, Chosen
<1>2. file.colored \subseteq Outs
  BY <1>1 DEF TypeOK
<1>3. CASE check_uncolored_utxos
  <2>1. /\ cli.at = "check"
        /\ UNCHANGED <<file, chain, view, seals, next, ldk, wallet, faults, stale, marks>>
    BY <1>3 DEF check_uncolored_utxos
  <2>2. cli.out = 0
    BY <1>1, <2>1 DEF CliShape
  <2>3. CASE Goto("cli", "get")
    <3>1. /\ IsFrame(cli', "get", cli.op, cli.kind, cli.copy, cli.out, cli.picked,
                     cli.inputs, cli.change)
          /\ events' = events
      BY <1>1, <2>3, GotoLocals DEF Steps
    <3>2. cli'.at = "get" /\ cli'.picked = cli.picked /\ cli'.kind = cli.kind
      BY <3>1 DEF IsFrame
    <3> QED
      BY <1>1, <1>2, <2>1, <2>2, <3>1, <3>2, QuietCli
  <2>4. CASE Finish("cli")
    <3>1. /\ IsFrame(cli', "idle", "none", NoAsset, NoFile, 0, {}, {}, FALSE)
          /\ events' = events
      BY <1>1, <2>4, FinishLocals
    <3>2. cli'.at = "idle" /\ cli'.picked = {}
      BY <3>1 DEF IsFrame
    <3> QED
      BY <1>2, <2>1, <2>2, <3>1, <3>2, QuietCli DEF ChosenFor
  <2> QED
    BY <1>3, <2>3, <2>4 DEF check_uncolored_utxos
<1>4. CASE get_utxo
  <2>1. CASE Abort("at least one unlocked UTXO")
    BY <2>1, AbortSound
  <2>2. ASSUME NEW o \in Uncolored(file),
               thread' = [thread EXCEPT !["cli"].at = "mark", !["cli"].out = o],
               UNCHANGED <<file, chain, view, seals, next, ldk, locks, faults,
                           stale, marks>>
        PROVE  Sound' /\ Promised'
    <3>1. o \in 0 .. MaxOut
      BY <1>1 DEF TypeOK, Uncolored
    <3>2. /\ IsFrame(cli', "mark", cli.op, cli.kind, cli.copy, o, cli.picked,
                     cli.inputs, cli.change)
          /\ events' = events
      BY <1>1, <2>2, <3>1, OutLocals DEF Steps
    <3>3. /\ cli'.at = "mark" /\ cli'.picked = cli.picked /\ cli'.kind = cli.kind
          /\ cli'.out = o
      BY <3>2 DEF IsFrame
    <3>4. cli.at = "get"
      BY <1>4 DEF get_utxo
    <3>5. cli.out \notin file.colored
      BY <1>1, <1>2, <3>4 DEF CliShape
    <3>6. UNCHANGED <<file, chain, view, seals, next, ldk, faults, marks>>
      BY <2>2
    <3> QED
      BY <1>1, <3>2, <3>3, <3>4, <3>5, <3>6, QuietCli
  <2> QED
    BY <1>4, <2>1, <2>2 DEF get_utxo
<1>5. CASE MarkRead
  <2>1. CASE Abort("UTXO found")
    BY <2>1, AbortSound
  <2>2. CASE ~ Abort("UTXO found")
    <3>1. /\ cli.at = "mark"
          /\ thread' = [thread EXCEPT !["cli"].at = "write", !["cli"].copy = file]
          /\ UNCHANGED <<file, chain, view, seals, next, ldk, locks, faults,
                         stale, marks>>
      BY <1>5, <2>2 DEF MarkRead
    <3>2. /\ IsFrame(cli', "write", cli.op, cli.kind, file, cli.out, cli.picked,
                     cli.inputs, cli.change)
          /\ events' = events
      BY <1>1, <3>1, ReadLocals DEF Steps
    <3>3. /\ cli'.at = "write" /\ cli'.picked = cli.picked /\ cli'.kind = cli.kind
          /\ cli'.out = cli.out
      BY <3>2 DEF IsFrame
    <3>4. cli.out \in Uncolored(file)
      BY <1>1, <3>1 DEF Reserved
    <3> QED
      BY <1>1, <3>1, <3>2, <3>3, <3>4, QuietCli
  <2> QED
    BY <2>1, <2>2
<1> QED
  BY <1>3, <1>4, <1>5

(* sendasset up to the broadcast. *)
LEMMA SelectSound ==
    ASSUME Typed, Typed', Sound, Promised, ~ stale,
           SendBuild \/ \E c \in Contracts : SendSelect(c)
    PROVE  Sound' /\ Promised'
<1> USE DEF cli, events
<1>1. TypeOK /\ CliShape /\ Reserved /\ ChosenFor(cli.picked, cli.kind)
      /\ \A o \in cli.picked : ~ Ahead(o)
  BY DEF Typed, Sound, Fresh, Chosen
<1>2. file.colored \subseteq Outs
  BY <1>1 DEF TypeOK
<1>3. CASE SendBuild
  <2>1. CASE Abort("valid utxos")
    BY <2>1, AbortSound
  <2>2. CASE ~ Abort("valid utxos")
    <3>1. /\ cli.at = "build" /\ Goto("cli", "post")
          /\ UNCHANGED <<file, chain, view, seals, next, ldk, runtime, faults,
                         stale, marks>>
      BY <1>3, <2>2 DEF SendBuild
    <3>2. /\ IsFrame(cli', "post", cli.op, cli.kind, cli.copy, cli.out, cli.picked,
                     cli.inputs, cli.change)
          /\ events' = events
      BY <1>1, <3>1, GotoLocals DEF Steps
    <3>3. /\ cli'.at = "post" /\ cli'.picked = cli.picked /\ cli'.kind = cli.kind
          /\ cli'.out = cli.out
      BY <3>2 DEF IsFrame
    <3>4. cli.out # 0 => Vacant(cli.out) /\ cli.out \notin promised
      BY <1>1, <3>1 DEF Reserved
    <3> QED
      BY <1>1, <3>1, <3>2, <3>3, <3>4, QuietCli
  <2> QED
    BY <2>1, <2>2
<1>4. ASSUME NEW c \in Contracts, SendSelect(c) PROVE Sound' /\ Promised'
  <2>1. /\ cli.at = "idle" /\ wallet = "free" /\ view' = unspent
        /\ UNCHANGED <<file, chain, seals, next, ldk, wallet, faults, stale, marks>>
    BY <1>4 DEF SendSelect
  <2>2. CASE UNCHANGED thread
    BY <2>1, <2>2, QuietStill
  <2>3. ASSUME NEW picked \in SUBSET Owned(c) \ {{}}, NEW change \in BOOLEAN,
               NEW at, at = IF change THEN "check" ELSE "build",
               NEW fr, fr = [Idle EXCEPT !.at = at, !.op = "sendasset", !.kind = c,
                                         !.picked = picked, !.change = change],
               thread' = [thread EXCEPT !["cli"] = fr]
        PROVE  Sound' /\ Promised'
    <3>1. /\ at \in Steps
          /\ "sendasset" \in Commands /\ c \in Kinds /\ picked \in SUBSET Outs
      BY <1>1, <2>3 DEF Steps, Commands, Owned, TypeOK
    <3>2. fr \in Frames /\ IsFrame(fr, at, "sendasset", c, NoFile, 0, picked, {}, change)
      BY <2>3, <3>1, IdleFields DEF Frames, IsFrame
    <3>3. cli' = fr /\ events' = events
      BY <1>1, <2>3, <3>2, ThreadUpdate
    <3>4. /\ cli'.at \in {"check", "build"} /\ cli'.picked = picked /\ cli'.kind = c
          /\ cli'.out = 0
      BY <2>3, <3>2, <3>3 DEF IsFrame
    <3>5. cli.out = 0 /\ events.op # "sweep"
      BY <2>1 DEF Typed, CliShape, EventsShape, WalletHeld
    <3>6. /\ \A o \in picked : ~ Ahead(o)
          /\ ChosenFor(picked, c)
      BY <2>3, <3>5, OwnedChosen
    <3> QED
      BY <1>2, <2>1, <3>3, <3>4, <3>5, <3>6, QuietCli
  <2> QED
    BY <1>4, <2>2, <2>3 DEF SendSelect
<1> QED
  BY <1>3, <1>4

(* Channels up to the building of the funding, and a funding given up. *)
LEMMA OpenSound ==
    ASSUME Typed, Typed', Sound, Promised, ~ stale,
           \/ \E kind \in Kinds : open_channel(kind) \/ FundingSelect(kind)
           \/ FundingRead
           \/ \E f \in pending : FundingAbandoned(f)
    PROVE  Sound' /\ Promised'
<1> USE DEF cli, events
<1>1. TypeOK /\ EventsShape /\ ChosenFor(events.picked, events.kind)
      /\ \A o \in events.picked : ~ Ahead(o)
  BY DEF Typed, Sound, Fresh, Chosen
<1>2. ASSUME NEW kind \in Kinds, open_channel(kind) PROVE Sound' /\ Promised'
  <2>1. /\ UNCHANGED <<file, chain, promised, next, orphaned, reused, wasted, crashes,
                       thread, pending>>
        /\ view' \in {view, unspent}
    BY <1>2 DEF open_channel
  <2> QED
    BY <2>1, QuietStill
<1>3. ASSUME NEW f \in pending, FundingAbandoned(f) PROVE Sound' /\ Promised'
  <2>1. /\ UNCHANGED <<file, chain, promised, next, orphaned, reused, wasted, crashes,
                       thread, view>>
        /\ pending' \subseteq pending
    BY <1>3 DEF FundingAbandoned
  <2> QED
    BY <2>1, QuietStill
<1>4. CASE FundingRead
  <2>1. /\ events.at = "read"
        /\ thread' = [thread EXCEPT !["events"].at = "fund", !["events"].copy = file]
        /\ UNCHANGED <<file, chain, view, seals, next, ldk, locks, faults, stale, marks>>
    BY <1>4 DEF FundingRead
  <2>2. /\ IsFrame(events', "fund", events.op, events.kind, file, events.out,
                   events.picked, events.inputs, events.change)
        /\ cli' = cli
    BY <1>1, <2>1, ReadLocals DEF Steps
  <2>3. /\ events'.at = "fund" /\ events'.picked = events.picked
        /\ events'.kind = events.kind /\ events.op # "sweep" /\ events'.op = events.op
    BY <1>1, <2>1, <2>2 DEF IsFrame, EventsShape
  <2>4. Coming' = Coming
    BY <2>1, <2>3 DEF Coming
  <2> QED
    BY <1>1, <2>1, <2>2, <2>3, <2>4, QuietEvents
<1>5. ASSUME NEW kind \in Kinds, FundingSelect(kind) PROVE Sound' /\ Promised'
  <2>1. CASE Abort("subtract with overflow")
    BY <2>1, AbortSound
  <2>2. CASE ~ Abort("subtract with overflow")
    <3>1. /\ events.at = "idle" /\ view' \in {view, unspent}
          /\ UNCHANGED <<file, chain, seals, next, pending, locks, faults, stale, marks>>
      BY <1>5, <2>2 DEF FundingSelect
    <3>2. PICK picked \in SUBSET Owned(kind) :
            /\ events'.at = "read" /\ events'.kind = kind /\ events'.picked = picked
            /\ cli' = cli
      <4>1. "read" \in Steps /\ "funding" \in Commands
        BY DEF Steps, Commands
      <4>2. CASE kind = NoAsset
        <5>1. thread' = [thread EXCEPT !["events"] =
                           [Idle EXCEPT !.at = "read", !.op = "funding"]]
          BY <1>5, <2>2, <4>2 DEF FundingSelect
        <5>2. /\ IsFrame(events', "read", "funding", NoAsset, NoFile, 0, {}, {}, FALSE)
              /\ cli' = cli
          BY <1>1, <4>1, <5>1, StartLocals
        <5> QED
          BY <4>2, <5>2 DEF IsFrame
      <4>3. CASE kind # NoAsset
        <5>1. PICK picked \in SUBSET Owned(kind) \ {{}}, change \in BOOLEAN :
                thread' = [thread EXCEPT !["events"] =
                  [Idle EXCEPT !.at = "read", !.op = "funding", !.kind = kind,
                               !.picked = picked, !.change = change]]
          BY <1>5, <2>2, <4>3 DEF FundingSelect
        <5> DEFINE fr == [Idle EXCEPT !.at = "read", !.op = "funding", !.kind = kind,
                                     !.picked = picked, !.change = change]
        <5>0. thread' = [thread EXCEPT !["events"] = fr]
          BY <5>1
        <5>2. picked \in SUBSET Outs /\ kind \in Contracts
          BY <1>1, <4>3 DEF Owned, TypeOK
        <5>3. fr \in Frames
              /\ IsFrame(fr, "read", "funding", kind, NoFile, 0, picked, {}, change)
          BY <4>1, <5>2, IdleFields DEF Frames, IsFrame
        <5> HIDE DEF fr
        <5>4. events' = fr /\ cli' = cli
          BY <1>1, <5>0, <5>3, ThreadUpdate
        <5> QED
          BY <5>3, <5>4 DEF IsFrame
      <4> QED
        BY <4>2, <4>3
    <3>3. events.op # "sweep" /\ events'.op # "sweep"
      BY <3>1, <3>2 DEF Typed, EventsShape
    <3>4. /\ \A o \in picked : ~ Ahead(o)
          /\ ChosenFor(picked, kind)
      BY <3>3, OwnedChosen
    <3>5. Coming' = Coming
      BY <3>1, <3>2 DEF Coming
    <3> QED
      BY <3>1, <3>2, <3>3, <3>4, <3>5, QuietEvents
  <2> QED
    BY <2>1, <2>2
<1> QED
  BY <1>2, <1>3, <1>4, <1>5

(* A sweep reads the file; its manager is saved, or the event comes again. *)
LEMMA SweptSound ==
    ASSUME Typed, Typed', Sound, Promised, ~ stale,
           SweepRead \/ ManagerSaved \/ SweepAgain
    PROVE  Sound' /\ Promised'
<1> USE DEF cli, events
<1>1. CASE SweepAgain
  BY <1>1, AbortSound DEF SweepAgain
<1>2. CASE ManagerSaved
  <2>1. UNCHANGED <<file, chain, promised, next, orphaned, reused, wasted, crashes,
                    thread, view, pending>>
    BY <1>2 DEF ManagerSaved
  <2> QED
    BY <2>1, QuietStill
<1>3. CASE SweepRead
  <2>1. /\ events.at = "swept"
        /\ thread' = [thread EXCEPT !["events"].at = "sweptread", !["events"].copy = file]
        /\ UNCHANGED <<file, chain, view, seals, next, ldk, locks, faults, stale, marks>>
    BY <1>3 DEF SweepRead
  <2>2. TypeOK /\ EventsShape /\ ChosenFor(events.picked, events.kind)
      /\ \A o \in events.picked : ~ Ahead(o)
    BY DEF Typed, Sound, Fresh, Chosen
  <2>3. /\ IsFrame(events', "sweptread", events.op, events.kind, file, events.out,
                   events.picked, events.inputs, events.change)
        /\ cli' = cli
    BY <2>1, <2>2, ReadLocals DEF Steps
  <2>4. /\ events'.at = "sweptread" /\ events'.picked = events.picked
        /\ events'.kind = events.kind /\ events'.op = events.op
        /\ events'.out = events.out
    BY <2>3 DEF IsFrame
  <2>5. Coming' = Coming
    BY <2>1, <2>4 DEF Coming
  <2> QED
    BY <2>1, <2>2, <2>3, <2>4, <2>5, QuietEvents
<1> QED
  BY <1>1, <1>2, <1>3

(* What a transaction does, output by output. *)
LEMMA TransactMoves ==
    ASSUME TypeOK, NEW inputs, NEW outs, NEW picked, NEW kind, NEW dest,
           Transact(inputs, outs, picked, kind, dest)
    PROVE  /\ unspent' = (unspent \ inputs) \cup outs
           /\ \A o \in Outs : o \in inputs => holds'[o] = {}
           /\ \A o \in Outs : o \notin inputs /\ o # dest => holds'[o] = holds[o]
           /\ \A o \in Outs : o \notin inputs /\ o = dest /\ o \in unspent' =>
                              holds'[o] = holds[o] \cup {kind}
<1>1. unspent' = (unspent \ inputs) \cup outs
  BY DEF Transact
<1>2. \A o \in Outs : holds'[o] = IF o \in inputs THEN {}
                         ELSE IF o = dest /\ o \in unspent' THEN holds[o] \cup {kind}
                         ELSE holds[o]
  BY <1>1 DEF Transact
<1> QED
  BY <1>1, <1>2

(* Which transactions lose no allocation. *)
LEMMA TransactKeeps ==
    ASSUME TypeOK, NEW inputs, NEW outs, NEW picked, NEW kind, NEW dest,
           Transact(inputs, outs, picked, kind, dest),
           \A o \in inputs : \A c \in holds[o] : o \in picked /\ c = kind,
           dest = 0 \/ dest \in unspent'
    PROVE  burnt' = burnt
BY DEF Transact, TypeOK

(* An allocation that comes to an unspent output without one. *)
LEMMA TransactLands ==
    ASSUME TypeOK, NEW kind, NEW dest \in unspent, holds[dest] = {},
           Transact({}, {}, {}, kind, dest)
    PROVE  /\ unspent' = unspent /\ burnt' = burnt /\ holds'[dest] = {kind}
           /\ \A o \in Outs \ {dest} : holds'[o] = holds[o]
<1>1. unspent' = unspent
  BY DEF Transact
<1>2. /\ holds'[dest] = {kind}
      /\ \A o \in Outs \ {dest} : holds'[o] = holds[o]
  BY DEF Transact, TypeOK
<1>3. burnt' = burnt
  BY <1>1, TransactKeeps
<1> QED
  BY <1>1, <1>2, <1>3

(* Everything that names outputs names outputs. *)
LEMMA OutsOnly ==
    ASSUME Typed
    PROVE  /\ TypeOK /\ next \in 1 .. MaxOut + 1
           /\ file.colored \subseteq file.listed /\ file.listed \subseteq Outs
           /\ unspent \subseteq Outs /\ view \subseteq Outs /\ promised \subseteq Outs
           /\ orphaned \subseteq Outs /\ wasted \subseteq Outs
           /\ cli \in Frames /\ events \in Frames
           /\ cli.picked \subseteq Outs /\ cli.out \in 0 .. MaxOut
           /\ events.picked \subseteq Outs /\ events.inputs \subseteq Outs
           /\ events.out \in 0 .. MaxOut
           /\ Made \subseteq Outs /\ Coming \subseteq Outs
           /\ \A f \in pending : /\ f.inputs \subseteq Outs /\ f.picked \subseteq Outs
                                 /\ f.out \in Outs /\ f.change \in BOOLEAN
<1>1. /\ TypeOK /\ next \in 1 .. MaxOut + 1
      /\ file.colored \subseteq file.listed /\ file.listed \subseteq Outs
      /\ unspent \subseteq Outs /\ view \subseteq Outs /\ promised \subseteq Outs
      /\ orphaned \subseteq Outs /\ wasted \subseteq Outs
      /\ cli \in Frames /\ events \in Frames
  BY DEF Typed, TypeOK, cli, events
<1>2. /\ cli.picked \subseteq Outs /\ cli.out \in 0 .. MaxOut
      /\ events.picked \subseteq Outs /\ events.inputs \subseteq Outs
      /\ events.out \in 0 .. MaxOut
  BY <1>1 DEF Frames
<1>3. Made \subseteq Outs /\ Coming \subseteq Outs
  BY <1>2 DEF Made, Coming, Typed, CliShape, EventsShape
<1>4. \A f \in pending : /\ f.inputs \subseteq Outs /\ f.picked \subseteq Outs
                         /\ f.out \in Outs /\ f.change \in BOOLEAN
  BY <1>1 DEF TypeOK, Fundings
<1> QED
  BY <1>1, <1>2, <1>3, <1>4

(* createutxos spends a coin that is not on the list. *)
LEMMA CreateBroadcastSound ==
    ASSUME Typed, Typed', Sound, Promised, ~ stale, ~ stale', CreateBroadcast
    PROVE  Sound' /\ Promised'
<1>1. CASE Abort("able to broadcast")
  BY <1>1, AbortSound
<1>2. CASE ~ Abort("able to broadcast")
  <2>1. PICK coin \in Spendable(cli.copy) :
          /\ cli.at = "create" /\ coin \in unspent
          /\ next + UTXO_NUM <= MaxOut
          /\ Transact({coin}, next .. next + UTXO_NUM, {}, NoAsset, 0)
          /\ next' = next + UTXO_NUM + 1
          /\ thread' = [thread EXCEPT !["cli"].at = "created", !["cli"].out = next]
          /\ NotesStale("cli")
          /\ UNCHANGED <<file, view, seals, ldk, locks, faults, marks>>
    BY <1>2 DEF CreateBroadcast, cli
  <2>2. TypeOK /\ coin \in Outs
    BY <2>1, OutsOnly
  <2>3. coin \notin file.listed
    BY <2>1 DEF NotesStale, Spendable, cli
  <2>4. /\ IsFrame(cli', "created", cli.op, cli.kind, cli.copy, next, cli.picked,
                   cli.inputs, cli.change)
        /\ events' = events
    <3>1. next \in 0 .. MaxOut
      BY <2>1, OutsOnly
    <3> QED
      BY <2>1, <2>2, <3>1, OutLocals DEF Steps, cli, events
  <2>5. /\ cli'.at = "created" /\ cli'.out = next /\ cli'.picked = cli.picked
        /\ cli'.kind = cli.kind
    BY <2>4 DEF IsFrame
  <2>6. events.at \notin {"send", "swept", "sweptread"} /\ events.op # "sweep"
    BY <2>1 DEF Typed, WalletHeld, EventsShape
  <2>7. /\ Made = {} /\ Made' = next .. next + UTXO_NUM - 1
        /\ Coming = {} /\ Coming' = {} /\ cli.out = 0
    BY <2>1, <2>4, <2>5, <2>6 DEF Made, Coming, Typed, CliShape
  <2>8. /\ unspent' = (unspent \ {coin}) \cup next .. next + UTXO_NUM
        /\ \A o \in Outs : holds'[o] = IF o = coin THEN {} ELSE holds[o]
        /\ holds[coin] = {} => burnt' = burnt
    <3>1. Transact({coin}, next .. next + UTXO_NUM, {}, NoAsset, 0) /\ 0 \notin Outs
      BY <2>1
    <3>2. unspent' = (unspent \ {coin}) \cup next .. next + UTXO_NUM
      BY <2>2, <3>1, TransactMoves
    <3>3. \A o \in Outs : holds'[o] = IF o = coin THEN {} ELSE holds[o]
      <4>1. /\ \A o \in Outs : o \in {coin} => holds'[o] = {}
            /\ \A o \in Outs : o \notin {coin} /\ o # 0 => holds'[o] = holds[o]
        BY <2>2, <3>1, TransactMoves
      <4> QED
        BY <4>1
    <3>4. holds[coin] = {} => burnt' = burnt
      BY <2>2, <3>1, TransactKeeps
    <3> QED
      BY <3>2, <3>3, <3>4
  <2>9. /\ next' = next + UTXO_NUM + 1
        /\ UNCHANGED <<file, view, seals, ldk, locks, faults, marks>>
    BY <2>1
  <2>10. Fresh /\ Listing /\ Reserved /\ Chosen /\ Allocated
    BY DEF Sound
  <2>11. /\ \A o \in Outs : Ahead(o) <=> o >= next \/ \E f \in pending : o = f.out
         /\ \A o \in Outs : Ahead(o)' <=> o >= next' \/ \E f \in pending : o = f.out
    BY <2>4, <2>6, <2>9 DEF Ahead
  <2>12. \A o \in Outs : (~ Ahead(o) \/ o \in next .. next + UTXO_NUM) => ~ Ahead(o)'
    BY <2>9, <2>10, <2>11, OutsOnly DEF Fresh
  <2>13. Fresh'
    <3>1. \A o \in unspent' \cup view' \cup cli'.picked \cup events'.picked : ~ Ahead(o)'
      <4>1. \A o \in unspent \cup view \cup cli.picked \cup events.picked :
              o \in Outs /\ ~ Ahead(o)
        BY <2>10, OutsOnly DEF Fresh
      <4>2. next .. next + UTXO_NUM \subseteq Outs
        BY <2>1, OutsOnly
      <4> QED
        BY <2>4, <2>5, <2>8, <2>9, <2>12, <4>1, <4>2
    <3>2. \A f \in pending' : /\ \A o \in f.inputs \cup f.picked : ~ Ahead(o)'
                              /\ f.out < next' /\ f.out \notin Coming'
      BY <2>7, <2>9, <2>10, <2>12, OutsOnly DEF Fresh
    <3>3. \A f \in pending' : f.inputs \cap (Made' \cup Coming') = {}
      BY <2>7, <2>9, <2>10, <2>11, OutsOnly DEF Fresh
    <3>4. \A o \in file'.listed \cup orphaned' \cup Made' \cup Coming' : o < next'
      BY <2>7, <2>9, <2>10, OutsOnly DEF Fresh
    <3>5. \A f, g \in pending' : f.out = g.out => f = g
      BY <2>9, <2>10 DEF Fresh
    <3> QED
      BY <2>4, <2>6, <3>1, <3>2, <3>3, <3>4, <3>5 DEF Fresh
  <2>14. Listing'
    BY <2>3, <2>4, <2>7, <2>8, <2>9, <2>10, OutsOnly DEF Fresh, Listing, Uncolored
  <2>15. Reserved'
    BY <2>2, <2>3, <2>5, <2>8, <2>9, <2>10, OutsOnly DEF Reserved, Vacant
  <2>16. Chosen'
    <3>1. ASSUME NEW picked \in SUBSET Outs, NEW kind, ChosenFor(picked, kind),
                 \A o \in picked : ~ Ahead(o)
          PROVE  ChosenFor(picked, kind)'
      BY <2>8, <2>9, <2>11, <3>1, OutsOnly DEF ChosenFor
    <3>2. /\ ChosenFor(cli.picked, cli.kind)' /\ ChosenFor(events.picked, events.kind)'
      BY <2>4, <2>5, <2>10, <3>1, OutsOnly DEF Fresh, Chosen
    <3>3. \A f \in pending : ChosenFor(f.picked, f.kind)'
      BY <2>10, <3>1, OutsOnly DEF Fresh, Chosen
    <3> QED
      BY <2>4, <2>6, <2>9, <2>10, <3>2, <3>3 DEF Chosen
  <2>17. Allocated'
    BY <2>2, <2>4, <2>6, <2>8, <2>9, <2>10 DEF Allocated
  <2>18. Promised'
    <3>1. burnt' => orphaned' # {}
      BY <2>2, <2>3, <2>6, <2>8, <2>9, <2>10, OutsOnly DEF Promised, Allocated
    <3>2. MarkedIsUsed'
      BY <2>3, <2>7, <2>8, <2>9, <2>10, OutsOnly DEF Promised, MarkedIsUsed, Fresh, cli
    <3> QED
      BY <2>9, <3>1, <3>2 DEF Promised
  <2> QED
    BY <2>13, <2>14, <2>15, <2>16, <2>17, <2>18 DEF Sound
<1> QED
  BY <1>1, <1>2

(* Outputs chosen for a contract keep it: what is broadcast in between     *)
(* creates other outputs, and the list only grows.                         *)
LEMMA ChosenKept ==
    ASSUME Typed,
           file.colored \subseteq file'.colored, orphaned \subseteq orphaned',
           \A o \in unspent \cap unspent' : holds[o] \subseteq holds'[o],
           \A o \in unspent' \ unspent : Ahead(o),
           NEW picked, NEW kind, ChosenFor(picked, kind), \A o \in picked : ~ Ahead(o)
    PROVE  ChosenFor(picked, kind)'
BY DEF ChosenFor

(* createutxos lists its outputs. *)
LEMMA CreateWriteSound ==
    ASSUME Typed, Typed', Sound, Promised, ~ stale, ~ stale', CreateWrite
    PROVE  Sound' /\ Promised'
<1>1. /\ cli.at = "created" /\ cli.copy = file /\ view' = unspent
      /\ UNCHANGED <<chain, seals, next, ldk, runtime, faults, marks>>
  BY DEF CreateWrite, NotesStale, cli
<1>2. file'.listed = file.listed \cup Made /\ file'.colored = file.colored
  BY <1>1 DEF CreateWrite, Push, Made, cli
<1>3. /\ IsFrame(cli', "idle", "none", NoAsset, NoFile, 0, {}, {}, FALSE)
      /\ events' = events
  BY OutsOnly, FinishLocals DEF CreateWrite, cli, events
<1>4. cli'.at = "idle" /\ cli'.out = 0 /\ cli'.picked = {}
  BY <1>3 DEF IsFrame
<1>5. events.at \notin {"send", "swept", "sweptread"} /\ events.op # "sweep"
  BY <1>1 DEF Typed, WalletHeld, EventsShape
<1>6. Made' = {} /\ Coming = {} /\ Coming' = {}
  BY <1>3, <1>4, <1>5 DEF Made, Coming
<1>7. Fresh /\ Listing /\ Reserved /\ Chosen /\ Allocated
  BY DEF Sound
<1>8. \A o : Ahead(o)' <=> Ahead(o)
  BY <1>1, <1>3 DEF Ahead
<1>9. \A f \in pending : f.out \notin Made
  BY <1>7, OutsOnly DEF Fresh, Listing, Ahead
<1>10. Fresh'
  BY <1>1, <1>2, <1>3, <1>4, <1>5, <1>6, <1>7, <1>8 DEF Fresh
<1>11. Listing'
  BY <1>1, <1>2, <1>6, <1>7, <1>9 DEF Listing, Uncolored
<1>12. Reserved'
  BY <1>1, <1>2, <1>4, <1>7 DEF Reserved, Vacant
<1>13. Chosen'
  BY <1>1, <1>2, <1>3, <1>4, <1>5, <1>7 DEF Chosen, ChosenFor, Fresh
<1>14. Allocated'
  BY <1>1, <1>2, <1>3, <1>7 DEF Allocated
<1>15. Promised'
  <2>1. cli.out \notin file.colored
    BY <1>1, <1>7, OutsOnly DEF Listing, Made
  <2> QED
    BY <1>1, <1>2, <2>1 DEF Promised, MarkedIsUsed, cli
<1> QED
  BY <1>10, <1>11, <1>12, <1>13, <1>14, <1>15 DEF Sound

(* The output of a command is marked. *)
LEMMA MarkWriteSound ==
    ASSUME Typed, Typed', Sound, Promised, ~ stale, ~ stale', MarkWrite
    PROVE  Sound' /\ Promised'
<1>1. /\ cli.at = "write" /\ cli.copy = file
      /\ UNCHANGED <<chain, view, seals, next, ldk, locks, faults, wasted>>
  BY DEF MarkWrite, NotesStale, cli
<1>2. file'.listed = file.listed /\ file'.colored = file.colored \cup {cli.out}
  BY <1>1, OutsOnly DEF MarkWrite, Mark, cli, TypeOK
<1>3. /\ IsFrame(cli', IF cli.op = "sendasset" THEN "build" ELSE "seal", cli.op,
                 cli.kind, cli.copy, cli.out, cli.picked, cli.inputs, cli.change)
      /\ events' = events
  BY OutsOnly, GotoLocals DEF MarkWrite, Steps, cli, events
<1>4. /\ cli'.at \in {"build", "seal"} /\ cli'.out = cli.out
      /\ cli'.picked = cli.picked /\ cli'.kind = cli.kind
  BY <1>3 DEF IsFrame
<1>5. Fresh /\ Listing /\ Reserved /\ Chosen /\ Allocated
  BY DEF Sound
<1>6. /\ cli.out \in file.listed /\ cli.out \notin file.colored
      /\ cli.out \in unspent /\ cli.out \in Outs
  BY <1>1, <1>5, OutsOnly DEF Reserved, Listing, Uncolored
<1>7. holds[cli.out] = {} /\ cli.out \notin promised
  <2>1. events.op = "sweep" => events.out \in Coming
    BY DEF Typed, EventsShape, Coming
  <2> QED
    BY <1>5, <1>6, <2>1 DEF Allocated, Listing, Reserved, Vacant
<1>8. Made = {} /\ Made' = {} /\ Coming' = Coming
  BY <1>1, <1>3, <1>4 DEF Made, Coming
<1>9. \A o : Ahead(o)' <=> Ahead(o)
  BY <1>1, <1>3 DEF Ahead
<1>10. Fresh'
  BY <1>1, <1>2, <1>3, <1>4, <1>5, <1>8, <1>9 DEF Fresh
<1>11. Listing'
  BY <1>1, <1>2, <1>5, <1>8 DEF Listing, Uncolored
<1>12. Reserved'
  BY <1>1, <1>2, <1>4, <1>5, <1>6, <1>7 DEF Reserved, Vacant
<1>13. Chosen'
  BY <1>1, <1>2, <1>3, <1>4, <1>5 DEF Chosen, ChosenFor
<1>14. Allocated'
  BY <1>1, <1>2, <1>3, <1>5 DEF Allocated
<1>15. Promised'
  <2>1. reused' = reused
    BY <1>6, <1>7, OutsOnly DEF MarkWrite, cli, TypeOK
  <2>2. MarkedIsUsed'
    BY <1>1, <1>2, <1>4, <1>6 DEF Promised, MarkedIsUsed, cli
  <2> QED
    BY <1>1, <2>1, <2>2 DEF Promised
<1> QED
  BY <1>10, <1>11, <1>12, <1>13, <1>14, <1>15 DEF Sound

(* A sweep lists its output. *)
LEMMA SweepWriteSound ==
    ASSUME Typed, Typed', Sound, Promised, ~ stale, ~ stale', SweepWrite
    PROVE  Sound' /\ Promised'
<1>1. /\ events.at = "sweptread" /\ events.copy = file
      /\ UNCHANGED <<chain, view, seals, next, ldk, faults, marks>>
  BY DEF SweepWrite, NotesStale, events
<1>2. /\ file'.listed = file.listed \cup {events.out}
      /\ file'.colored = file.colored \cup {events.out}
  BY <1>1 DEF SweepWrite, Push, events
<1>3. /\ IsFrame(events', "idle", "none", NoAsset, NoFile, 0, {}, {}, FALSE)
      /\ cli' = cli
  BY OutsOnly, FinishLocals DEF SweepWrite, cli, events
<1>4. events'.at = "idle" /\ events'.op = "none" /\ events'.picked = {}
  BY <1>3 DEF IsFrame
<1>5. /\ cli.at \notin {"create", "created", "post"} /\ events.op = "sweep"
  BY <1>1 DEF Typed, WalletHeld, EventsShape
<1>6. Made = {} /\ Made' = {} /\ Coming = {events.out} /\ Coming' = {}
  BY <1>1, <1>3, <1>4, <1>5 DEF Made, Coming
<1>7. Fresh /\ Listing /\ Reserved /\ Chosen /\ Allocated
  BY DEF Sound
<1>8. \A o : Ahead(o)' <=> Ahead(o)
  BY <1>1, <1>4 DEF Ahead
<1>10. Fresh'
  BY <1>1, <1>2, <1>3, <1>4, <1>6, <1>7, <1>8 DEF Fresh
<1>11. Listing'
  BY <1>1, <1>2, <1>6, <1>7 DEF Listing, Uncolored, Fresh
<1>12. Reserved'
  BY <1>1, <1>2, <1>3, <1>6, <1>7 DEF Reserved, Vacant, Listing, Uncolored
<1>13. Chosen'
  BY <1>1, <1>2, <1>3, <1>4, <1>6, <1>7 DEF Chosen, ChosenFor, Fresh
<1>14. Allocated'
  BY <1>1, <1>2, <1>4, <1>7 DEF Allocated
<1>15. Promised'
  BY <1>1, <1>2, <1>3, <1>5, <1>7 DEF Promised, MarkedIsUsed, cli, Allocated
<1> QED
  BY <1>10, <1>11, <1>12, <1>13, <1>14, <1>15 DEF Sound

(* A funding is built: besides the outputs it names it takes one that is   *)
(* not on the list.                                                        *)
LEMMA FundingBuildSound ==
    ASSUME Typed, Typed', Sound, Promised, ~ stale, ~ stale', FundingBuild
    PROVE  Sound' /\ Promised'
<1>1. CASE Abort("valid utxos") \/ Abort("valid psbt finish")
  BY <1>1, AbortSound
<1>2. CASE ~ Abort("valid utxos") /\ ~ Abort("valid psbt finish")
  <2>1. /\ events.at = "fund" /\ next <= MaxOut /\ events.picked \subseteq view
        /\ next' = next + 1 /\ wallet = "free" /\ events.copy = file
        /\ UNCHANGED <<file, chain, view, seals, ldk, runtime, faults, marks>>
    BY <1>2 DEF FundingBuild, NotesStale, events
  <2>2. PICK extra \in SUBSET view :
          /\ extra \cap file.listed = {}
          /\ thread' = [thread EXCEPT
                    !["events"].at = "send", !["events"].out = next,
                    !["events"].inputs = events.picked \cup extra]
    <3> DEFINE coins == view \ (unspendable_utxos(events.copy, events.picked)
                                    \cup events.picked)
    <3>1. PICK extra \in {{}} \cup {{o} : o \in coins} :
            thread' = [thread EXCEPT
                    !["events"].at = "send", !["events"].out = next,
                    !["events"].inputs = events.picked \cup extra]
      BY <1>2 DEF FundingBuild, events
    <3>2. coins \cap file.listed = {} /\ coins \subseteq view
      BY <2>1 DEF unspendable_utxos
    <3> HIDE DEF coins
    <3>3. extra \in SUBSET view /\ extra \cap file.listed = {}
      BY <3>2
    <3> QED
      BY <3>1, <3>3
  <2>3. /\ next \in 0 .. MaxOut /\ events.picked \cup extra \in SUBSET Outs
        /\ TypeOK /\ "send" \in Steps
    BY <2>1, <2>2, OutsOnly DEF Steps
  <2>4. /\ IsFrame(events', "send", events.op, events.kind, events.copy, next,
                   events.picked, events.picked \cup extra, events.change)
        /\ cli' = cli
    BY <2>2, <2>3, InputsLocals DEF cli, events
  <2>5. /\ events'.at = "send" /\ events'.out = next /\ events'.picked = events.picked
        /\ events'.inputs = events.picked \cup extra /\ events'.kind = events.kind
        /\ events'.op = events.op /\ events.op # "sweep"
    BY <2>1, <2>4 DEF IsFrame, Typed, EventsShape
  <2>6. cli.at # "created"
    BY <2>1 DEF Typed, WalletHeld
  <2>7. Made = {} /\ Made' = {} /\ Coming = {} /\ Coming' = {next}
    BY <2>1, <2>4, <2>5, <2>6 DEF Made, Coming
  <2>8. Fresh /\ Listing /\ Reserved /\ Chosen /\ Allocated
    BY DEF Sound
  <2>9. \A o \in Outs : Ahead(o)' <=> Ahead(o)
    BY <2>1, <2>5, OutsOnly DEF Ahead
  <2>10. \A o \in Outs : o >= next => Ahead(o)
    BY DEF Ahead
  <2>11. Fresh'
    <3>1. \A o \in unspent' \cup view' \cup cli'.picked \cup events'.picked : ~ Ahead(o)'
      BY <2>1, <2>4, <2>5, <2>8, <2>9, OutsOnly DEF Fresh
    <3>2. \A o \in events'.inputs : ~ Ahead(o)'
      BY <2>1, <2>2, <2>5, <2>8, <2>9, OutsOnly DEF Fresh
    <3>3. \A f \in pending' : /\ \A o \in f.inputs \cup f.picked : ~ Ahead(o)'
                              /\ f.out < next' /\ f.out \notin Coming'
      BY <2>1, <2>7, <2>8, <2>9, OutsOnly DEF Fresh
    <3>4. \A f \in pending' : f.inputs \cap (Made' \cup Coming') = {}
      BY <2>1, <2>7, <2>8, <2>10, OutsOnly DEF Fresh
    <3>5. \A f, g \in pending' : f.out = g.out => f = g
      BY <2>1, <2>8 DEF Fresh
    <3>6. \A o \in file'.listed \cup orphaned' \cup Made' \cup Coming' : o < next'
      BY <2>1, <2>7, <2>8, OutsOnly DEF Fresh
    <3> QED
      BY <3>1, <3>2, <3>3, <3>4, <3>5, <3>6 DEF Fresh
  <2>12. Listing'
    BY <2>1, <2>7, <2>8, OutsOnly DEF Fresh, Listing, Uncolored
  <2>13. Reserved'
    BY <2>1, <2>4, <2>8 DEF Reserved, Vacant, Uncolored
  <2>14. Chosen'
    BY <2>1, <2>2, <2>4, <2>5, <2>8 DEF Chosen, ChosenFor
  <2>15. Allocated'
    BY <2>1, <2>5, <2>8 DEF Allocated
  <2>16. Promised'
    BY <2>1, <2>4 DEF Promised, MarkedIsUsed, cli
  <2> QED
    BY <2>11, <2>12, <2>13, <2>14, <2>15, <2>16 DEF Sound
<1> QED
  BY <1>1, <1>2

(* A funding is given to LDK, its change listed. *)
LEMMA FundingSendSound ==
    ASSUME Typed, Typed', Sound, Promised, ~ stale, ~ stale', FundingSend
    PROVE  Sound' /\ Promised'
<1>1. /\ events.at = "send"
      /\ UNCHANGED <<chain, view, seals, next, opening, runtime, faults, marks>>
  BY DEF FundingSend, events
<1>2. IF events.change
      THEN /\ file'.listed = file.listed \cup {events.out}
           /\ file'.colored = file.colored \cup {events.out}
      ELSE file' = file
  <2>1. CASE events.change
    <3>1. file' = Push(events.copy, {events.out}, TRUE) /\ events.copy = file
      BY <2>1 DEF FundingSend, NotesStale, events
    <3> QED
      BY <2>1, <3>1 DEF Push
  <2>2. CASE ~ events.change
    BY <2>2 DEF FundingSend, events
  <2> QED
    BY <2>1, <2>2
<1>3. /\ IsFrame(events', "idle", "none", NoAsset, NoFile, 0, {}, {}, FALSE)
      /\ cli' = cli
  BY OutsOnly, FinishLocals DEF FundingSend, cli, events
<1>4. events'.at = "idle" /\ events'.op = "none" /\ events'.picked = {}
  BY <1>3 DEF IsFrame
<1>5. /\ cli.at \notin {"create", "created", "post"} /\ events.op # "sweep"
  BY <1>1 DEF Typed, WalletHeld, EventsShape
<1>6. Made = {} /\ Made' = {} /\ Coming = {events.out} /\ Coming' = {}
  BY <1>1, <1>3, <1>4, <1>5 DEF Made, Coming
<1>7. Fresh /\ Listing /\ Reserved /\ Chosen /\ Allocated
  BY DEF Sound
<1>8. PICK g :
        /\ pending' = pending \cup {g}
        /\ g.kind = events.kind /\ g.picked = events.picked /\ g.inputs = events.inputs
        /\ g.out = events.out /\ g.change = events.change
  <2> DEFINE h == [kind |-> events.kind, picked |-> events.picked,
                   inputs |-> events.inputs, out |-> events.out, change |-> events.change]
  <2>1. pending' = pending \cup {h}
    BY DEF FundingSend, events
  <2>2. /\ h.kind = events.kind /\ h.picked = events.picked /\ h.inputs = events.inputs
        /\ h.out = events.out /\ h.change = events.change
    OBVIOUS
  <2> HIDE DEF h
  <2> QED
    BY <2>1, <2>2
<1>9. \A o : Ahead(o)' <=> Ahead(o)
  BY <1>1, <1>4, <1>8 DEF Ahead
<1>10. Ahead(events.out) /\ events.out < next /\ events.out \in Outs
  BY <1>1, <1>6, <1>7, OutsOnly DEF Ahead, Fresh
<1>11. /\ file.listed \subseteq file'.listed /\ file.colored \subseteq file'.colored
       /\ file'.listed \subseteq file.listed \cup {events.out}
       /\ file'.colored \subseteq file.colored \cup {events.out}
       /\ events.change => events.out \in file'.colored
       /\ ~ events.change => file'.listed = file.listed
       /\ Uncolored(file') = Uncolored(file)
  BY <1>2, <1>6, <1>7, OutsOnly DEF Listing, Uncolored
<1>12. Fresh'
  BY <1>1, <1>3, <1>4, <1>6, <1>7, <1>8, <1>9, <1>10, <1>11 DEF Fresh
<1>13. Listing'
  BY <1>1, <1>6, <1>7, <1>8, <1>11 DEF Listing, Fresh
<1>14. Reserved'
  BY <1>1, <1>3, <1>7, <1>11 DEF Reserved, Vacant
<1>15. Chosen'
  <2>1. ChosenFor(cli.picked, cli.kind)' /\ ChosenFor(events.picked, events.kind)'
    BY <1>1, <1>3, <1>4, <1>7, <1>11 DEF Chosen, ChosenFor
  <2>2. ChosenFor(g.picked, g.kind)' /\ \A f \in pending : ChosenFor(f.picked, f.kind)'
    BY <1>1, <1>7, <1>8, <1>11 DEF Chosen, ChosenFor
  <2>3. (g.inputs \ g.picked) \cap file'.listed = {}
    BY <1>1, <1>7, <1>8, <1>10, <1>11 DEF Chosen, Fresh
  <2>4. \A f \in pending : (f.inputs \ f.picked) \cap file'.listed = {}
    BY <1>6, <1>7, <1>11 DEF Chosen, Fresh
  <2> QED
    BY <1>4, <1>8, <2>1, <2>2, <2>3, <2>4 DEF Chosen
<1>16. Allocated'
  BY <1>1, <1>4, <1>5, <1>7, <1>11 DEF Allocated
<1>17. Promised'
  <2>1. events.out \notin unspent
    BY <1>7, <1>10 DEF Fresh
  <2> QED
    BY <1>1, <1>3, <1>11, <2>1 DEF Promised, MarkedIsUsed, cli
<1> QED
  BY <1>12, <1>13, <1>14, <1>15, <1>16, <1>17 DEF Sound

(* A restart: the sweep's output stays off the list. *)
LEMMA RestartSound ==
    ASSUME Typed, Typed', Sound, Promised, ~ stale, ~ stale', Restart
    PROVE  Sound' /\ Promised'
<1>1. /\ crashes' = crashes + 1
      /\ orphaned' = IF events.op = "sweep" THEN orphaned \cup {events.out} ELSE orphaned
      /\ UNCHANGED <<file, chain, view, seals, next, pending, stale, marks>>
  BY DEF Restart, events
<1>2. /\ IsFrame(cli', "idle", "none", NoAsset, NoFile, 0, {}, {}, FALSE)
      /\ IsFrame(events', "idle", "none", NoAsset, NoFile, 0, {}, {}, FALSE)
  BY IdleFields DEF Restart, cli, events
<1>3. /\ cli'.at = "idle" /\ cli'.out = 0 /\ cli'.picked = {}
      /\ events'.at = "idle" /\ events'.op = "none" /\ events'.picked = {}
  BY <1>2 DEF IsFrame
<1>4. Fresh /\ Listing /\ Reserved /\ Chosen /\ Allocated
  BY DEF Sound
<1>5. Made' = {} /\ Coming' = {} /\ (events.op = "sweep" => events.out \in Coming)
  BY <1>3 DEF Made, Coming, Typed, EventsShape
<1>6. \A o : Ahead(o)' => Ahead(o)
  BY <1>1, <1>3 DEF Ahead
<1>7. Fresh'
  BY <1>1, <1>3, <1>4, <1>5, <1>6 DEF Fresh
<1>8. Listing'
  BY <1>1, <1>4, <1>5 DEF Listing, Uncolored
<1>9. Reserved'
  BY <1>1, <1>3, <1>4 DEF Reserved, Vacant
<1>10. Chosen'
  BY <1>1, <1>3, <1>4 DEF Chosen, ChosenFor
<1>11. Allocated'
  BY <1>1, <1>3, <1>4 DEF Allocated
<1>12. Promised'
  <2>1. crashes' > 0
    BY <1>1, OutsOnly DEF TypeOK
  <2> QED
    BY <1>1, <2>1 DEF Promised, MarkedIsUsed
<1> QED
  BY <1>7, <1>8, <1>9, <1>10, <1>11, <1>12 DEF Sound

(* The supply is put on the output that was marked, or a payer gets it. *)
LEMMA SealSound ==
    ASSUME Typed, Typed', Sound, Promised, ~ stale, ~ stale', Seal
    PROVE  Sound' /\ Promised'
<1>1. /\ cli.at = "seal"
      /\ UNCHANGED <<file, view, next, ldk, locks, faults, stale, marks>>
  BY DEF Seal, cli
<1>2. /\ IsFrame(cli', "idle", "none", NoAsset, NoFile, 0, {}, {}, FALSE)
      /\ events' = events
  BY OutsOnly, FinishLocals DEF Seal, cli, events
<1>3. cli'.at = "idle" /\ cli'.out = 0 /\ cli'.picked = {}
  BY <1>2 DEF IsFrame
<1>4. Fresh /\ Listing /\ Reserved /\ Chosen /\ Allocated
  BY DEF Sound
<1>5. Vacant(cli.out) /\ cli.out \notin promised /\ cli.out \in Outs
  BY <1>1, <1>4, OutsOnly DEF Reserved, Typed, CliShape
<1>6. Made = {} /\ Made' = {} /\ Coming' = Coming
  BY <1>1, <1>2, <1>3 DEF Made, Coming
<1>7. /\ unspent' = unspent /\ burnt' = burnt
      /\ \/ /\ promised' = promised /\ holds'[cli.out] = {cli.kind}
            /\ \A o \in Outs \ {cli.out} : holds'[o] = holds[o]
         \/ promised' = promised \cup {cli.out} /\ holds' = holds
  <2>1. CASE cli.op = "issueasset"
    <3>1. Transact({}, {}, {}, cli.kind, cli.out) /\ UNCHANGED promised
      BY <2>1 DEF Seal, issue_contract, cli
    <3>2. TypeOK /\ cli.out \in unspent /\ holds[cli.out] = {}
      BY <1>5, OutsOnly DEF Vacant
    <3> QED
      BY <3>1, <3>2, TransactLands
  <2>2. CASE cli.op # "issueasset"
    BY <2>2 DEF Seal, Promise, cli
  <2> QED
    BY <2>1, <2>2
<1>8. \A o : Ahead(o)' <=> Ahead(o)
  BY <1>1, <1>2 DEF Ahead
<1>9. Fresh'
  BY <1>1, <1>2, <1>3, <1>4, <1>6, <1>7, <1>8 DEF Fresh
<1>10. Listing'
  BY <1>1, <1>4, <1>6, <1>7 DEF Listing, Uncolored
<1>11. Reserved'
  BY <1>1, <1>3, <1>4, <1>5, <1>7, OutsOnly DEF Reserved, Vacant
<1>12. \A o \in Outs : holds[o] \subseteq holds'[o]
  BY <1>5, <1>7 DEF Vacant
<1>13. Chosen'
  BY <1>1, <1>2, <1>3, <1>4, <1>7, <1>12, OutsOnly DEF Chosen, ChosenFor
<1>14. Allocated'
  <2>1. events.op = "sweep" => events.out \in Outs
    BY OutsOnly DEF Typed, EventsShape
  <2> QED
    BY <1>1, <1>2, <1>4, <1>5, <1>7, <2>1 DEF Allocated, Vacant
<1>15. Promised'
  BY <1>1, <1>3, <1>5, <1>7, <1>12, OutsOnly DEF Promised, MarkedIsUsed, cli
<1> QED
  BY <1>9, <1>10, <1>11, <1>13, <1>14, <1>15 DEF Sound

(* A payer's transfer arrives. *)
LEMMA TransferArrivesSound ==
    ASSUME Typed, Typed', Sound, Promised, ~ stale, ~ stale',
           NEW x \in Outs, NEW c \in Contracts, TransferArrives(x, c)
    PROVE  Sound' /\ Promised'
<1>1. /\ x \in promised /\ promised' = promised \ {x}
      /\ UNCHANGED <<file, view, next, ldk, locks, thread, faults, stale, marks>>
  BY DEF TransferArrives
<1>2. cli' = cli /\ events' = events
  BY <1>1 DEF cli, events
<1>3. Fresh /\ Listing /\ Reserved /\ Chosen /\ Allocated
  BY DEF Sound
<1>4. Vacant(x)
  BY <1>1, <1>3 DEF Reserved
<1>5. Made' = Made /\ Coming' = Coming
  BY <1>2 DEF Made, Coming
<1>6. /\ unspent' = unspent /\ burnt' = burnt /\ holds'[x] = {c}
      /\ \A o \in Outs \ {x} : holds'[o] = holds[o]
  <2>1. Transact({}, {}, {}, c, x)
    BY DEF TransferArrives
  <2>2. TypeOK /\ x \in unspent /\ holds[x] = {}
    BY <1>4, OutsOnly DEF Vacant
  <2> QED
    BY <2>1, <2>2, TransactLands
<1>7. \A o : Ahead(o)' <=> Ahead(o)
  BY <1>1, <1>2 DEF Ahead
<1>8. Fresh'
  BY <1>1, <1>2, <1>3, <1>5, <1>6, <1>7 DEF Fresh
<1>9. Listing'
  BY <1>1, <1>3, <1>5, <1>6 DEF Listing, Uncolored
<1>10. Reserved'
  BY <1>1, <1>2, <1>3, <1>6, OutsOnly DEF Reserved, Vacant, Uncolored
<1>11. \A o \in Outs : holds[o] \subseteq holds'[o]
  BY <1>4, <1>6 DEF Vacant
<1>12. Chosen'
  BY <1>1, <1>2, <1>3, <1>6, <1>11, OutsOnly DEF Chosen, ChosenFor
<1>13. Allocated'
  <2>1. events.op = "sweep" => events.out \in Outs
    BY OutsOnly DEF Typed, EventsShape
  <2> QED
    BY <1>1, <1>2, <1>3, <1>4, <1>6, <2>1 DEF Allocated, Vacant
<1>14. Promised'
  BY <1>1, <1>2, <1>6, <1>11, OutsOnly DEF Promised, MarkedIsUsed, cli
<1> QED
  BY <1>8, <1>9, <1>10, <1>12, <1>13, <1>14 DEF Sound

(* sendasset is broadcast, or its consignment could not be posted. *)
LEMMA SendPostSound ==
    ASSUME Typed, Typed', Sound, Promised, ~ stale, ~ stale', SendPost
    PROVE  Sound' /\ Promised'
<1>1. CASE Abort("able to broadcast")
  BY <1>1, AbortSound
<1>2. CASE ~ Abort("able to broadcast")
  <2>1. cli.at = "post" /\ Finish("cli")
    BY <1>2 DEF SendPost, cli
  <2>2. /\ IsFrame(cli', "idle", "none", NoAsset, NoFile, 0, {}, {}, FALSE)
        /\ events' = events
    BY <2>1, OutsOnly, FinishLocals DEF cli, events
  <2>3. cli'.at = "idle" /\ cli'.out = 0 /\ cli'.picked = {}
    BY <2>2 DEF IsFrame
  <2>4. cli.change <=> cli.out # 0
    BY <2>1 DEF Typed, CliShape
  <2>5. CASE /\ wasted' = wasted \cup (IF cli.change THEN {cli.out} ELSE {})
             /\ UNCHANGED <<file, chain, view, seals, next, ldk, faults, stale, reused>>
    <3>1. cli.out \in file.colored => cli.out \in wasted'
      BY <2>4, <2>5, OutsOnly
    <3> QED
      BY <2>1, <2>2, <2>3, <2>5, <3>1, QuietCli DEF ChosenFor
  <2>6. CASE /\ cli.picked \subseteq unspent /\ next <= MaxOut
             /\ Transact(cli.picked, {next}, cli.picked, cli.kind, cli.out)
             /\ next' = next + 1 /\ view' = unspent'
             /\ UNCHANGED <<file, seals, ldk, faults, stale, marks>>
    <3>1. Fresh /\ Listing /\ Reserved /\ Chosen /\ Allocated
      BY DEF Sound
    <3>2. cli.out # 0 => Vacant(cli.out) /\ cli.out \notin promised /\ cli.out \in Outs
      BY <2>1, <3>1, OutsOnly DEF Reserved
    <3>3. events.at \notin {"send", "swept", "sweptread"} /\ events.op # "sweep"
      BY <2>1 DEF Typed, WalletHeld, EventsShape
    <3>4. Made = {} /\ Made' = {} /\ Coming = {} /\ Coming' = {}
      BY <2>1, <2>2, <2>3, <3>3 DEF Made, Coming
    <3>5. \A o \in cli.picked : cli.kind \in holds[o] /\ o \in file.colored \cup orphaned
      BY <2>6, <3>1 DEF Chosen, ChosenFor
    <3>6. cli.out \notin cli.picked /\ next \notin unspent /\ next \in Outs
      <4>1. next \in Outs /\ Ahead(next)
        BY <2>6, OutsOnly DEF Ahead
      <4>2. cli.out \notin cli.picked
        BY <3>2, <3>5, OutsOnly DEF Vacant
      <4> QED
        BY <3>1, <4>1, <4>2 DEF Fresh
    <3>7. unspent' = (unspent \ cli.picked) \cup {next}
      BY <2>6, OutsOnly, TransactMoves
    <3>8. /\ \A o \in cli.picked : holds'[o] = {}
          /\ \A o \in Outs \ cli.picked : o # cli.out => holds'[o] = holds[o]
      <4>1. /\ \A o \in Outs : o \in cli.picked => holds'[o] = {}
            /\ \A o \in Outs : o \notin cli.picked /\ o # cli.out => holds'[o] = holds[o]
        BY <2>6, OutsOnly, TransactMoves
      <4> QED
        BY <4>1, OutsOnly
    <3>9. cli.out # 0 => holds'[cli.out] = {cli.kind} /\ cli.out \in unspent'
      <4>1. ASSUME cli.out # 0 PROVE cli.out \in unspent' /\ holds[cli.out] = {}
        BY <3>2, <3>6, <3>7, <4>1 DEF Vacant
      <4>2. \A o \in Outs : o \notin cli.picked /\ o = cli.out /\ o \in unspent' =>
                            holds'[o] = holds[o] \cup {cli.kind}
        BY <2>6, OutsOnly, TransactMoves
      <4> QED
        BY <3>2, <3>6, <4>1, <4>2
    <3>10. burnt' = burnt
      <4>1. \A o \in cli.picked : \A c \in holds[o] : o \in cli.picked /\ c = cli.kind
        BY <3>1, <3>5, OutsOnly DEF Allocated
      <4>2. cli.out = 0 \/ cli.out \in unspent'
        BY <3>9
      <4>3. TypeOK /\ Transact(cli.picked, {next}, cli.picked, cli.kind, cli.out)
        BY <2>6, OutsOnly
      <4> QED
        BY <4>1, <4>2, <4>3, TransactKeeps
    <3>11. \A o \in Outs : Ahead(o)' <=> Ahead(o) /\ o # next
      BY <2>2, <2>6, <3>1, <3>3, OutsOnly DEF Ahead, Fresh
    <3>12. /\ next' = next + 1 /\ view' = unspent'
           /\ UNCHANGED <<file, seals, ldk, faults, stale, marks>>
      BY <2>6
    <3>13. Fresh'
      <4>1. \A o \in unspent' \cup view' \cup cli'.picked \cup events'.picked : ~ Ahead(o)'
        BY <2>2, <2>3, <3>1, <3>6, <3>7, <3>11, <3>12, OutsOnly DEF Fresh
      <4>2. \A f \in pending' : /\ \A o \in f.inputs \cup f.picked : ~ Ahead(o)'
                                /\ f.out < next' /\ f.out \notin Coming'
        BY <3>1, <3>4, <3>11, <3>12, OutsOnly DEF Fresh
      <4>3. \A o \in file'.listed \cup orphaned' \cup Made' \cup Coming' : o < next'
        BY <3>1, <3>4, <3>12, OutsOnly DEF Fresh
      <4> QED
        BY <2>2, <3>1, <3>3, <3>4, <3>12, <4>1, <4>2, <4>3 DEF Fresh
    <3>14. Listing'
      BY <3>1, <3>4, <3>5, <3>7, <3>12 DEF Listing, Uncolored
    <3>15. Reserved'
      BY <2>3, <3>1, <3>2, <3>5, <3>7, <3>8, <3>12, OutsOnly DEF Reserved, Vacant
    <3>16. Chosen'
      <4>1. \A o \in unspent \cap unspent' : holds[o] \subseteq holds'[o]
        BY <3>2, <3>6, <3>7, <3>8, <3>9, OutsOnly DEF Vacant
      <4>2. \A o \in unspent' \ unspent : Ahead(o)
        BY <3>7, OutsOnly DEF Ahead
      <4>3. ASSUME NEW picked, NEW kind, ChosenFor(picked, kind), \A o \in picked : ~ Ahead(o)
            PROVE  ChosenFor(picked, kind)'
        BY <3>12, <4>1, <4>2, <4>3, ChosenKept
      <4>4. /\ ChosenFor(cli.picked, cli.kind)' /\ ChosenFor(events.picked, events.kind)'
        BY <2>2, <2>3, <3>1, <4>3 DEF Fresh, Chosen, ChosenFor
      <4>5. \A f \in pending : ChosenFor(f.picked, f.kind)'
        BY <3>1, <4>3 DEF Fresh, Chosen
      <4> QED
        BY <2>2, <3>1, <3>3, <3>12, <4>4, <4>5 DEF Chosen
    <3>17. Allocated'
      <4>1. ASSUME NEW o \in Outs, holds'[o] # {}
            PROVE  /\ o \in unspent' /\ (o \in file.colored \/ o \in orphaned)
                   /\ \A c, d \in holds'[o] : c = d
        <5>1. CASE o = cli.out
          BY <3>2, <3>9, <5>1 DEF Vacant
        <5>2. CASE o # cli.out
          <6>1. o \notin cli.picked /\ holds'[o] = holds[o]
            BY <3>8, <4>1, <5>2
          <6> QED
            BY <3>1, <3>3, <3>7, <4>1, <6>1 DEF Allocated
        <5> QED
          BY <5>1, <5>2
      <4> QED
        BY <2>2, <3>3, <3>12, <4>1 DEF Allocated
    <3>18. Promised'
      <4>1. MarkedIsUsed'
        BY <3>1, <3>7, <3>8, <3>9, <3>12, OutsOnly DEF Fresh, Promised, MarkedIsUsed, cli
      <4> QED
        BY <3>10, <3>12, <4>1 DEF Promised
    <3> QED
      BY <3>13, <3>14, <3>15, <3>16, <3>17, <3>18 DEF Sound
  <2> QED
    BY <1>2, <2>5, <2>6 DEF SendPost, cli
<1> QED
  BY <1>1, <1>2

(* A closed channel is swept into a new output. *)
LEMMA SweepBroadcastSound ==
    ASSUME Typed, Typed', Sound, Promised, ~ stale, ~ stale',
           NEW kind \in Kinds, SweepBroadcast(kind)
    PROVE  Sound' /\ Promised'
<1> DEFINE dest == IF kind = NoAsset THEN 0 ELSE next
<1>1. /\ events.at = "idle" /\ wallet = "free" /\ next <= MaxOut
      /\ Transact({}, {next}, {}, kind, dest)
      /\ next' = next + 1 /\ view' = unspent'
      /\ UNCHANGED <<file, seals, ldk, panic, crashes, orphaned, stale, marks>>
  BY DEF SweepBroadcast, events
<1>2. Fresh /\ Listing /\ Reserved /\ Chosen /\ Allocated
  BY DEF Sound
<1>3. cli.at \notin {"create", "created", "post"} /\ events.op # "sweep"
  BY <1>1 DEF Typed, WalletHeld, EventsShape
<1>4. next \in Outs /\ Ahead(next) /\ next \notin unspent /\ holds[next] = {}
  <2>1. next \in Outs /\ Ahead(next)
    BY <1>1, OutsOnly DEF Ahead
  <2>2. next \notin unspent
    BY <1>2, <2>1 DEF Fresh
  <2> QED
    BY <1>2, <2>1, <2>2 DEF Allocated
<1>5. /\ unspent' = unspent \cup {next} /\ burnt' = burnt
      /\ \A o \in Outs \ {next} : holds'[o] = holds[o]
      /\ kind = NoAsset => holds'[next] = {}
      /\ kind # NoAsset => holds'[next] = {kind}
  <2>1. TypeOK /\ 0 \notin Outs
    BY OutsOnly
  <2>2. unspent' = (unspent \ {}) \cup {next}
    BY <1>1, <2>1, TransactMoves
  <2>3. /\ \A o \in Outs : o # dest => holds'[o] = holds[o]
        /\ dest \in Outs /\ dest \in unspent' => holds'[dest] = holds[dest] \cup {kind}
    BY <1>1, <2>1 DEF Transact, TypeOK
  <2>4. burnt' = burnt
    <3>1. dest = 0 \/ dest \in unspent'
      BY <2>2
    <3> HIDE DEF dest
    <3> QED
      BY <1>1, <2>1, <3>1, TransactKeeps
  <2> QED
    BY <1>4, <2>1, <2>2, <2>3, <2>4
<1>6. /\ cli' = cli
      /\ events'.at \in {"idle", "swept"} /\ events'.picked = {}
      /\ events'.at = "idle" <=> kind = NoAsset
      /\ events'.at = "swept" => events'.op = "sweep" /\ events'.out = next
      /\ events'.at = "idle" => events'.op # "sweep"
  <2>1. CASE kind = NoAsset
    <3>1. thread' = thread
      BY <2>1 DEF SweepBroadcast
    <3> QED
      BY <1>1, <1>3, <2>1, <3>1 DEF cli, events, Typed, EventsShape
  <2>2. CASE kind # NoAsset
    <3>1. thread' = [thread EXCEPT !["events"] =
                 [Idle EXCEPT !.at = "swept", !.op = "sweep", !.kind = kind,
                              !.out = next]]
      BY <2>2 DEF SweepBroadcast
    <3>2. TypeOK /\ "swept" \in Steps /\ "sweep" \in Commands /\ next \in 0 .. MaxOut
      BY <1>4, OutsOnly DEF Steps, Commands
    <3>3. /\ IsFrame(events', "swept", "sweep", kind, NoFile, next, {}, {}, FALSE)
          /\ cli' = cli
      BY <3>1, <3>2, StartOutLocals DEF cli, events
    <3> QED
      BY <2>2, <3>3 DEF IsFrame
  <2> QED
    BY <2>1, <2>2
<1>7. Made = {} /\ Made' = {} /\ Coming = {} /\ Coming' \subseteq {next}
  BY <1>1, <1>3, <1>6 DEF Made, Coming
<1>8. \A o \in Outs : Ahead(o)' <=> Ahead(o) /\ o # next
  BY <1>1, <1>2, <1>4, <1>6, OutsOnly DEF Ahead, Fresh
<1> HIDE DEF dest
<1>9. /\ next' = next + 1 /\ view' = unspent'
      /\ UNCHANGED <<file, promised, pending, orphaned, crashes, wasted, reused>>
  BY <1>1
<1>10. Fresh'
  <2>1. \A o \in unspent' \cup view' \cup cli'.picked \cup events'.picked : ~ Ahead(o)'
    BY <1>2, <1>4, <1>5, <1>6, <1>8, <1>9, OutsOnly DEF Fresh
  <2>2. \A f \in pending' : /\ \A o \in f.inputs \cup f.picked : ~ Ahead(o)'
                            /\ f.out < next' /\ f.out \notin Coming'
    BY <1>2, <1>7, <1>8, <1>9, OutsOnly DEF Fresh
  <2>3. \A f \in pending' : f.inputs \cap (Made' \cup Coming') = {}
    <3>1. \A f \in pending : next \notin f.inputs
      BY <1>2, <1>4 DEF Fresh
    <3> QED
      BY <1>7, <1>9, <3>1
  <2>4. \A o \in file'.listed \cup orphaned' \cup Made' \cup Coming' : o < next'
    BY <1>2, <1>7, <1>9, OutsOnly DEF Fresh
  <2> QED
    BY <1>2, <1>6, <1>9, <2>1, <2>2, <2>3, <2>4 DEF Fresh
<1>11. Listing'
  BY <1>2, <1>5, <1>7, <1>9, OutsOnly DEF Fresh, Listing, Uncolored
<1>12. Reserved'
  BY <1>2, <1>4, <1>5, <1>6, <1>9, OutsOnly DEF Reserved, Vacant
<1>13. Chosen'
  <2>1. \A o \in unspent \cap unspent' : holds[o] \subseteq holds'[o]
    BY <1>4, <1>5, OutsOnly
  <2>2. \A o \in unspent' \ unspent : Ahead(o)
    BY <1>4, <1>5
  <2>3. ASSUME NEW p, NEW k, ChosenFor(p, k), \A o \in p : ~ Ahead(o)
        PROVE  ChosenFor(p, k)'
    BY <1>9, <2>1, <2>2, <2>3, ChosenKept
  <2>4. /\ ChosenFor(cli.picked, cli.kind)' /\ ChosenFor(events.picked, events.kind)'
    BY <1>2, <1>6, <2>3 DEF Fresh, Chosen, ChosenFor
  <2>5. \A f \in pending : ChosenFor(f.picked, f.kind)'
    BY <1>2, <2>3 DEF Fresh, Chosen
  <2> QED
    BY <1>2, <1>6, <1>9, <2>4, <2>5 DEF Chosen
<1>14. Allocated'
  <2>1. ASSUME NEW o \in Outs, holds'[o] # {}
        PROVE  /\ o \in unspent'
               /\ \/ o \in file'.colored
                  \/ events'.op = "sweep" /\ events'.out = o
                  \/ o \in orphaned'
               /\ \A c, d \in holds'[o] : c = d
    <3>1. CASE o = next
      BY <1>5, <1>6, <2>1, <3>1
    <3>2. CASE o # next
      BY <1>2, <1>3, <1>5, <1>9, <2>1, <3>2 DEF Allocated
    <3> QED
      BY <3>1, <3>2
  <2>2. events'.op = "sweep" => holds'[events'.out] # {}
    BY <1>5, <1>6
  <2> QED
    BY <2>1, <2>2 DEF Allocated
<1>15. Promised'
  BY <1>2, <1>5, <1>6, <1>9, OutsOnly DEF Fresh, Promised, MarkedIsUsed, cli
<1> QED
  BY <1>10, <1>11, <1>12, <1>13, <1>14, <1>15 DEF Sound

(* LDK broadcasts a funding. *)
LEMMA FundingBroadcastSound ==
    ASSUME Typed, Typed', PendingShape, Sound, Promised, ~ stale, ~ stale',
           NEW f \in pending, FundingBroadcast(f)
    PROVE  Sound' /\ Promised'
<1> DEFINE dest == IF f.change THEN f.out ELSE 0
<1>1. /\ f.inputs \subseteq unspent /\ pending' = pending \ {f}
      /\ Transact(f.inputs, {f.out}, f.picked, f.kind, dest)
      /\ UNCHANGED <<file, view, seals, next, opening, locks, thread, faults,
                     stale, marks>>
  BY DEF FundingBroadcast
<1>2. cli' = cli /\ events' = events
  BY <1>1 DEF cli, events
<1>3. Fresh /\ Listing /\ Reserved /\ Chosen /\ Allocated
  BY DEF Sound
<1>4. Made' = Made /\ Coming' = Coming /\ (events.op = "sweep" => events.out \in Coming)
  BY <1>2 DEF Made, Coming, Typed, EventsShape
<1>5. f.out \in Outs /\ Ahead(f.out) /\ f.out \notin unspent /\ holds[f.out] = {}
  <2>1. f.out \in Outs /\ Ahead(f.out)
    BY OutsOnly DEF Ahead
  <2>2. f.out \notin unspent
    BY <1>3, <2>1 DEF Fresh
  <2> QED
    BY <1>3, <2>1, <2>2 DEF Allocated
<1>6. \A o \in f.inputs \cap f.picked : f.kind \in holds[o] /\ \A c \in holds[o] : c = f.kind
  BY <1>1, <1>3, OutsOnly DEF Chosen, ChosenFor, Allocated
<1>7. \A o \in f.inputs \ f.picked : o \notin file.listed /\ (holds[o] # {} => o \in orphaned)
  BY <1>3, <1>4, OutsOnly DEF Chosen, Allocated, Fresh
<1>8. /\ unspent' = (unspent \ f.inputs) \cup {f.out}
      /\ \A o \in f.inputs : holds'[o] = {}
      /\ \A o \in Outs \ f.inputs : o # f.out => holds'[o] = holds[o]
      /\ f.change => holds'[f.out] = {f.kind}
      /\ ~ f.change => holds'[f.out] = {}
  <2>1. TypeOK /\ 0 \notin Outs /\ f.out \notin f.inputs
    BY <1>1, <1>5, OutsOnly
  <2>2. unspent' = (unspent \ f.inputs) \cup {f.out}
    BY <1>1, <2>1, TransactMoves
  <2>3. /\ \A o \in Outs : o \in f.inputs => holds'[o] = {}
        /\ \A o \in Outs : o \notin f.inputs /\ o # dest => holds'[o] = holds[o]
        /\ \A o \in Outs : o \notin f.inputs /\ o = dest /\ o \in unspent' =>
                           holds'[o] = holds[o] \cup {f.kind}
    <3> HIDE DEF dest
    <3> QED
      BY <1>1, <2>1, TransactMoves
  <2> QED
    BY <1>5, <2>1, <2>2, <2>3, OutsOnly
<1>9. burnt' => orphaned # {}
  <2>1. CASE \E o \in f.inputs \ f.picked : holds[o] # {}
    BY <1>7, <2>1
  <2>2. CASE ~ \E o \in f.inputs \ f.picked : holds[o] # {}
    <3>1. \A o \in f.inputs : \A c \in holds[o] : o \in f.picked /\ c = f.kind
      BY <1>6, <2>2
    <3>2. TypeOK /\ (dest = 0 \/ dest \in unspent')
      BY <1>8, OutsOnly
    <3> HIDE DEF dest
    <3>3. burnt' = burnt
      BY <1>1, <3>1, <3>2, TransactKeeps
    <3> QED
      BY <3>3 DEF Promised
  <2> QED
    BY <2>1, <2>2
<1> HIDE DEF dest
<1>10. \A o \in Outs : Ahead(o)' <=> Ahead(o) /\ o # f.out
  BY <1>1, <1>2, <1>3, OutsOnly DEF Ahead, Fresh, Coming
<1>11. /\ pending' = pending \ {f}
       /\ UNCHANGED <<file, view, promised, next, orphaned, crashes, wasted, reused>>
  BY <1>1
<1>12. Fresh'
  <2>1. \A o \in unspent' \cup view' \cup cli'.picked \cup events'.picked : ~ Ahead(o)'
    BY <1>2, <1>3, <1>5, <1>8, <1>10, <1>11, OutsOnly DEF Fresh
  <2>2. events'.at = "send" => \A o \in events'.inputs : ~ Ahead(o)'
    BY <1>2, <1>3, <1>10, OutsOnly DEF Fresh
  <2>3. \A g \in pending' : \A o \in g.inputs \cup g.picked : ~ Ahead(o)'
    BY <1>3, <1>10, <1>11, OutsOnly DEF Fresh
  <2> QED
    BY <1>3, <1>4, <1>11, <2>1, <2>2, <2>3 DEF Fresh
<1>13. Listing'
  BY <1>3, <1>4, <1>6, <1>7, <1>8, <1>11 DEF Fresh, Listing, Uncolored, Chosen, ChosenFor
<1>14. \A o \in unspent : Vacant(o) => o \notin f.inputs /\ o # f.out
  BY <1>5, <1>6, <1>7, OutsOnly DEF Vacant
<1>15. Reserved'
  BY <1>2, <1>3, <1>8, <1>11, <1>14, OutsOnly DEF Reserved, Vacant
<1>16. Chosen'
  <2>1. \A o \in unspent \cap unspent' : holds[o] \subseteq holds'[o]
    BY <1>5, <1>8, OutsOnly
  <2>2. \A o \in unspent' \ unspent : Ahead(o)
    BY <1>5, <1>8
  <2>3. ASSUME NEW p, NEW k, ChosenFor(p, k), \A o \in p : ~ Ahead(o)
        PROVE  ChosenFor(p, k)'
    BY <1>11, <2>1, <2>2, <2>3, ChosenKept
  <2>4. /\ ChosenFor(cli.picked, cli.kind)' /\ ChosenFor(events.picked, events.kind)'
    BY <1>2, <1>3, <2>3 DEF Fresh, Chosen
  <2>5. \A g \in pending : ChosenFor(g.picked, g.kind)'
    BY <1>3, <2>3 DEF Fresh, Chosen
  <2> QED
    BY <1>2, <1>3, <1>11, <2>4, <2>5 DEF Chosen
<1>17. Allocated'
  <2>1. ASSUME NEW o \in Outs, holds'[o] # {}
        PROVE  /\ o \in unspent'
               /\ \/ o \in file'.colored
                  \/ events'.op = "sweep" /\ events'.out = o
                  \/ o \in orphaned'
               /\ \A c, d \in holds'[o] : c = d
    <3>1. CASE o = f.out
      BY <1>3, <1>8, <1>11, <2>1, <3>1, OutsOnly DEF Listing
    <3>2. CASE o # f.out
      <4>1. o \notin f.inputs /\ holds'[o] = holds[o]
        BY <1>8, <2>1, <3>2
      <4> QED
        BY <1>2, <1>3, <1>8, <1>11, <2>1, <4>1 DEF Allocated
    <3> QED
      BY <3>1, <3>2
  <2>2. events.op = "sweep" => holds'[events.out] # {}
    BY <1>3, <1>4, <1>5, <1>8, OutsOnly DEF Allocated, Fresh
  <2> QED
    BY <1>2, <2>1, <2>2 DEF Allocated
<1>18. Promised'
  <2>1. MarkedIsUsed'
    <3>1. f.out \in file.colored => f.change
      BY <1>3, OutsOnly DEF Listing
    <3> QED
      BY <1>2, <1>8, <1>11, <3>1, OutsOnly DEF Promised, MarkedIsUsed, cli
  <2> QED
    BY <1>9, <1>11, <2>1 DEF Promised
<1> QED
  BY <1>12, <1>13, <1>15, <1>16, <1>17, <1>18 DEF Sound

-----------------------------------------------------------------------------
(* The theorems. *)

(* Nothing is listed, marked, promised or chosen at the first start. *)
LEMMA InitIInv == Init => IInv
<1> SUFFICES ASSUME Init PROVE IInv
  OBVIOUS
<1>1. Typed /\ PendingShape
  BY InitTyped
<1>2. /\ IsFrame(cli, "idle", "none", NoAsset, NoFile, 0, {}, {}, FALSE)
      /\ IsFrame(events, "idle", "none", NoAsset, NoFile, 0, {}, {}, FALSE)
  BY IdleFields DEF Init, cli, events
<1>3. /\ cli.at = "idle" /\ cli.out = 0 /\ cli.picked = {}
      /\ events.at = "idle" /\ events.op = "none" /\ events.picked = {}
  BY <1>2 DEF IsFrame
<1>4. /\ file.listed = {} /\ file.colored = {} /\ Made = {} /\ Coming = {}
      /\ \A o \in Outs : holds[o] = {}
  BY <1>3 DEF Init, NoFile, Made, Coming
<1>5. \A o \in 1 .. Coins : ~ Ahead(o)
  BY <1>3 DEF Init, Ahead
<1>6. Fresh
  BY <1>3, <1>4, <1>5 DEF Init, Fresh
<1>7. Listing /\ Reserved /\ Chosen /\ Allocated
  BY <1>3, <1>4 DEF Init, Listing, Uncolored, Reserved, Chosen, ChosenFor, Allocated
<1>8. Promised
  BY <1>4 DEF Init, Promised, MarkedIsUsed
<1> QED
  BY <1>1, <1>6, <1>7, <1>8 DEF IInv, Sound

(* An old copy is remembered. *)
LEMMA StaleStays ==
    ASSUME Typed, [Next]_vars, stale
    PROVE  stale'
BY DEF Next, vars, Abort, NotesStale, CreateRead, CreateBroadcast, CreateWrite, issueasset,
    receiveasset, check_uncolored_utxos, get_utxo, MarkRead, MarkWrite, Seal,
    TransferArrives, SendSelect, SendBuild, SendPost, open_channel, FundingSelect,
    FundingRead, FundingBuild, FundingSend, FundingAbandoned, FundingBroadcast,
    SweepBroadcast, SweepRead, SweepWrite, ManagerSaved, SweepAgain, Restart

(* Every step keeps the invariant. *)
LEMMA Invariance == IInv /\ [Next]_vars => IInv'
<1> SUFFICES ASSUME IInv, [Next]_vars PROVE IInv'
  OBVIOUS
<1>1. Typed /\ PendingShape /\ Typed' /\ PendingShape'
  BY TypedStep DEF IInv
<1>2. CASE stale'
  BY <1>1, <1>2 DEF IInv
<1>3. CASE ~ stale'
  <2>1. ~ stale
    BY <1>1, <1>3, StaleStays
  <2>2. Sound /\ Promised
    BY <2>1 DEF IInv
  <2>3. CASE UNCHANGED vars
    <3>1. UNCHANGED <<file, chain, promised, next, orphaned, reused, wasted, crashes,
                      thread, pending, view>>
      BY <2>3 DEF vars
    <3>2. Sound' /\ Promised'
      BY <1>1, <2>1, <2>2, <3>1, QuietStill
    <3> QED
      BY <1>1, <3>2 DEF IInv
  <2>4. CASE Next
    <3>1. Sound' /\ Promised'
      <4> USE <1>1, <1>3, <2>1, <2>2
      <4>1. CASE CreateRead \/ receiveasset \/ \E c \in Contracts : issueasset(c)
        BY <4>1, StartSound
      <4>2. CASE CreateBroadcast \/ CreateWrite \/ MarkWrite
        BY <4>2, CreateBroadcastSound, CreateWriteSound, MarkWriteSound
      <4>3. CASE check_uncolored_utxos \/ get_utxo \/ MarkRead
        BY <4>3, ReserveSound
      <4>4. CASE Seal \/ \E o \in Outs, c \in Contracts : TransferArrives(o, c)
        BY <4>4, SealSound, TransferArrivesSound
      <4>5. CASE SendBuild \/ \E c \in Contracts : SendSelect(c)
        BY <4>5, SelectSound
      <4>6. CASE SendPost
        BY <4>6, SendPostSound
      <4>7. CASE \/ \E kind \in Kinds : open_channel(kind) \/ FundingSelect(kind)
                 \/ FundingRead
                 \/ \E f \in pending : FundingAbandoned(f)
        BY <4>7, OpenSound
      <4>8. CASE FundingBuild \/ FundingSend
        BY <4>8, FundingBuildSound, FundingSendSound
      <4>9. CASE \E f \in pending : FundingBroadcast(f)
        BY <4>9, FundingBroadcastSound
      <4>10. CASE SweepWrite \/ \E kind \in Kinds : SweepBroadcast(kind)
        BY <4>10, SweepWriteSound, SweepBroadcastSound
      <4>11. CASE SweepRead \/ ManagerSaved \/ SweepAgain
        BY <4>11, SweptSound
      <4>12. CASE Restart
        BY <4>12, RestartSound
      <4> QED
        BY <2>4, <4>1, <4>2, <4>3, <4>4, <4>5, <4>6, <4>7, <4>8, <4>9, <4>10, <4>11,
           <4>12 DEF Next
    <3> QED
      BY <1>1, <3>1 DEF IInv
  <2> QED
    BY <2>3, <2>4
<1> QED
  BY <1>2, <1>3

(* The invariant holds in every reachable state. *)
LEMMA IInvAlways == Spec => []IInv
BY InitIInv, Invariance, PTL DEF Spec

(* rgb_utxos, the allocations and the local variables of every command and *)
(* every event have the shape the code gives them.                         *)
THEOREM TypeCorrect == Spec => []TypeOK
<1>1. IInv => TypeOK
  BY DEF IInv, Typed
<1> QED
  BY <1>1, IInvAlways, PTL

(* No asset is lost, spent for its satoshis (main.rs:277, cli.rs:205) or   *)
(* put on a spent output, unless a copy of rgb_utxos was used after the    *)
(* file had changed or a crash cut a sweep (main.rs:896) from its list     *)
(* entry (main.rs:911).                                                    *)
THEOREM LossNeedsStaleCopyOrCrashAlways == Spec => []LossNeedsStaleCopyOrCrash
<1>1. IInv => LossNeedsStaleCopyOrCrash
  BY DEF IInv, Promised, LossNeedsStaleCopyOrCrash
<1> QED
  BY <1>1, IInvAlways, PTL

(* get_utxo gives no output to two users, and no spent one, while copies   *)
(* of the file are fresh.                                                  *)
THEOREM HandedOutOnceAlways == Spec => []HandedOutOnce
<1>1. IInv => HandedOutOnce
  BY DEF IInv, Promised, HandedOutOnce
<1> QED
  BY <1>1, IInvAlways, PTL

(* Every output with an allocation is listed and coloured, is the one a    *)
(* running sweep is about to list, or lost its entry to a crash or to a    *)
(* copy that was old.                                                      *)
THEOREM AssetsAreListedAlways == Spec => []AssetsAreListed
<1>1. IInv => AssetsAreListed
  BY DEF IInv, Sound, Allocated, AssetsAreListed, events
<1> QED
  BY <1>1, IInvAlways, PTL

(* A coloured output carries an asset or will: the exceptions are sends    *)
(* whose consignment could not be posted, crashes and old copies.          *)
THEOREM MarkedIsUsedAlways == Spec => []MarkedIsUsed
<1>1. IInv => MarkedIsUsed
  BY DEF IInv, Promised, MarkedIsUsed
<1> QED
  BY <1>1, IInvAlways, PTL
=============================================================================
