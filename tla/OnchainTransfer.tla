--------------------------- MODULE OnchainTransfer --------------------------
(***************************************************************************)
(* A transfer of an asset between two nodes: the payer's sendasset, the    *)
(* receiver's receiveasset and refresh (src/src/cli.rs), and the proxy     *)
(* that carries the consignment (src/src/proxy.rs).                        *)
(*                                                                         *)
(* The receiver hands out a blinded output; the payer posts a consignment  *)
(* under it, broadcasts the transaction and accepts its own transfer into  *)
(* its history, for the change; the receiver fetches the consignment,      *)
(* accepts it and removes the file of the blinded output, one file after   *)
(* the other.  Either node may stop between any two of these steps and     *)
(* start again.                                                            *)
(*                                                                         *)
(* Every transfer is of one unit, so one input always covers it.  Output 0 *)
(* is the payer's first allocation, output t the change of transfer t.     *)
(***************************************************************************)
EXTENDS Integers

CONSTANTS
    Seals,        \* blinded outputs the receiver may hand out
    Supply,       \* the payer's allocation
    MaxSends,     \* bound on transfers tried
    MaxCrashes    \* bound on crashes

ASSUME OnchainTransferAssumption ==
    Supply \in Nat /\ MaxSends \in Nat /\ MaxCrashes \in Nat

VARIABLES
    handed,      \* blinded outputs handed to the payer
    files,       \* those with a file in blinded_utxos
    tries,       \* number of transfers tried
    transfer,    \* transfer[t]: [seal, input, change, stage]
    history,     \* outputs in the payer's history of the contract
    complete,    \* blinded outputs for which "RGB send complete" was printed
    payer,       \* the payer's command
    proxy,       \* proxy[s]: the transfer whose consignment is kept under s
    credited,    \* transfers in the receiver's history
    refresh,     \* the receiver's command, see Refreshes
    crashes,
    hidden       \* history: change of sends that a crash cut off

vars == <<handed, files, tries, transfer, history, complete, payer, proxy,
          credited, refresh, crashes, hidden>>

Transfers == 1 .. MaxSends
Nothing == 0
NoSeal == "none"

Made == 1 .. tries
On(chain) == {t \in Made : transfer[t].stage \in chain}
Sent == On({"broadcast", "mined"})
Spent == {transfer[t].input : t \in Sent}

Change(o) == IF o = Nothing THEN Supply ELSE transfer[o].change

(* todo: the files the loop has still to come to; after: the sends that    *)
(* were complete when the command began.                                   *)
Refreshes ==
    [at : {"idle", "next", "get", "got", "accepted", "aborted"},
     seal : Seals \cup {NoSeal}, transfer : 0 .. MaxSends,
     todo : SUBSET Seals, after : SUBSET Seals]

TypeOK ==
    /\ handed \in SUBSET Seals /\ files \in SUBSET handed
    /\ tries \in 0 .. MaxSends
    /\ transfer \in [Transfers ->
         [seal : Seals \cup {NoSeal}, input : 0 .. MaxSends, change : 0 .. Supply,
          stage : {"made", "broadcast", "mined"}]]
    /\ history \in SUBSET (0 .. MaxSends)
    /\ complete \in SUBSET handed
    /\ payer \in [at : {"idle", "post", "broadcast", "accept", "stuck"},
                  transfer : 0 .. MaxSends]
    /\ proxy \in [Seals -> 0 .. MaxSends]
    /\ credited \in SUBSET Transfers
    /\ refresh \in Refreshes
    /\ crashes \in 0 .. MaxCrashes
    /\ hidden \in SUBSET Transfers

Idle == [at |-> "idle", transfer |-> Nothing]
NoRefresh == [at |-> "idle", seal |-> NoSeal, transfer |-> Nothing, todo |-> {},
              after |-> {}]

Init ==
    /\ handed = {} /\ files = {}
    /\ tries = 0
    /\ transfer = [t \in Transfers |-> [seal |-> NoSeal, input |-> 0, change |-> 0,
                                        stage |-> "made"]]
    /\ history = {0}
    /\ complete = {}
    /\ payer = Idle
    /\ proxy = [s \in Seals |-> Nothing]
    /\ credited = {}
    /\ refresh = NoRefresh
    /\ crashes = 0
    /\ hidden = {}

-----------------------------------------------------------------------------
(* The receiver hands out a blinded output. *)
receiveasset(s) ==
    /\ refresh.at = "idle"
    /\ s \notin handed
    /\ handed' = handed \cup {s}
    /\ files' = files \cup {s}
    /\ UNCHANGED <<tries, transfer, history, complete, payer, proxy, credited,
                   refresh, crashes, hidden>>

-----------------------------------------------------------------------------
(* The payer. *)

get_asset_owned_values == {o \in history \ Spent : Change(o) > 0}

(* Mutant: the operands are swapped. *)
rgb_change_amountSwapped(o) == 1 - Change(o)

rgb_change_amount(o) == Change(o) - 1

(* A user sends to a blinded output until the command completes. *)
sendasset(s) ==
    /\ payer.at = "idle"
    /\ s \in handed \ complete
    /\ tries < MaxSends                               \* bound on transfers
    /\ \E o \in get_asset_owned_values :
         transfer' = [transfer EXCEPT ![tries + 1] =
           [seal |-> s, input |-> o, change |-> rgb_change_amount(o), stage |-> "made"]]
    /\ tries' = tries + 1
    /\ payer' = [at |-> "post", transfer |-> tries + 1]
    /\ UNCHANGED <<handed, files, history, complete, proxy, credited, refresh,
                   crashes, hidden>>

(* The request or its answer may be lost, and a proxy that has a           *)
(* consignment under this name may refuse another.  On an error the        *)
(* command ends with the RGB runtime open: it must be restarted.           *)
post_consignment(stored, answered) ==
    LET t == payer.transfer
        s == transfer[t].seal
    IN
    /\ payer.at = "post"
    /\ stored \/ ~ answered \/ proxy[s] # Nothing
    /\ proxy' = IF stored THEN [proxy EXCEPT ![s] = t] ELSE proxy
    /\ payer' = [payer EXCEPT !.at = IF stored /\ answered THEN "broadcast"
                                     ELSE "stuck"]
    /\ UNCHANGED <<handed, files, tries, transfer, history, complete, credited,
                   refresh, crashes, hidden>>

(* Mutant: the transaction is broadcast before the consignment is posted. *)
broadcast_first ==
    /\ payer.at = "post"
    /\ transfer' = [transfer EXCEPT ![payer.transfer].stage = "broadcast"]
    /\ UNCHANGED <<handed, files, tries, history, complete, payer, proxy,
                   credited, refresh, crashes, hidden>>

broadcast_tx ==
    /\ payer.at = "broadcast"
    /\ transfer' = [transfer EXCEPT ![payer.transfer].stage = "broadcast"]
    /\ payer' = [payer EXCEPT !.at = "accept"]
    /\ UNCHANGED <<handed, files, tries, history, complete, proxy, credited,
                   refresh, crashes, hidden>>

(* Mutant: the payer does not accept its own transfer. *)
accept_nothing ==
    /\ payer.at = "accept"
    /\ complete' = complete \cup {transfer[payer.transfer].seal}
    /\ payer' = Idle
    /\ UNCHANGED <<handed, files, tries, transfer, history, proxy, credited,
                   refresh, crashes, hidden>>

accept_transfer ==
    /\ payer.at = "accept"
    /\ history' = history \cup {payer.transfer}
    /\ complete' = complete \cup {transfer[payer.transfer].seal}
    /\ payer' = Idle
    /\ UNCHANGED <<handed, files, tries, transfer, proxy, credited, refresh,
                   crashes, hidden>>

(* Of its own, of a failed broadcast, or because the runtime is left open. *)
PayerRestarts ==
    /\ payer.at # "idle"
    /\ payer.at # "stuck" => crashes < MaxCrashes     \* bound on crashes
    /\ crashes' = IF payer.at = "stuck" THEN crashes ELSE crashes + 1
    /\ hidden' = IF payer.at = "accept" THEN hidden \cup {payer.transfer} ELSE hidden
    /\ payer' = Idle
    /\ UNCHANGED <<handed, files, tries, transfer, history, complete, proxy,
                   credited, refresh>>

(* External: a broadcast transaction is mined. *)
Mined(t) ==
    /\ t \in On({"broadcast"})
    /\ transfer' = [transfer EXCEPT ![t].stage = "mined"]
    /\ UNCHANGED <<handed, files, tries, history, complete, payer, proxy,
                   credited, refresh, crashes, hidden>>

-----------------------------------------------------------------------------
(* The receiver's refresh: a loop over the files.  (Their `consumed' is    *)
(* never set.)                                                             *)

read_dir ==
    /\ refresh.at = "idle"
    /\ refresh' = [NoRefresh EXCEPT !.at = "next", !.todo = files, !.after = complete]
    /\ UNCHANGED <<handed, files, tries, transfer, history, complete, payer,
                   proxy, credited, crashes, hidden>>

(* The next file, in the directory's order, of which nothing is known. *)
NextFile(s) ==
    /\ refresh.at = "next" /\ s \in refresh.todo
    /\ refresh' = [refresh EXCEPT !.at = "get", !.seal = s, !.todo = @ \ {s}]
    /\ UNCHANGED <<handed, files, tries, transfer, history, complete, payer,
                   proxy, credited, crashes, hidden>>

(* Done with this file, on to the next. *)
Continue == [at |-> "next", seal |-> NoSeal, transfer |-> Nothing,
             todo |-> refresh.todo, after |-> refresh.after]

get_consignment ==
    /\ refresh.at = "get" /\ proxy[refresh.seal] # Nothing
    /\ refresh' = [refresh EXCEPT !.at = "got", !.transfer = proxy[refresh.seal]]
    /\ UNCHANGED <<handed, files, tries, transfer, history, complete, payer,
                   proxy, credited, crashes, hidden>>

(* Mutant: the loop ends at a file without a consignment. *)
unable_to_get_ends ==
    /\ refresh.at = "get"
    /\ refresh' = NoRefresh
    /\ UNCHANGED <<handed, files, tries, transfer, history, complete, payer,
                   proxy, credited, crashes, hidden>>

(* "WARNING: unable to get consignment": there is none, or the request     *)
(* failed.                                                                 *)
unable_to_get ==
    /\ refresh.at = "get"
    /\ refresh' = Continue
    /\ UNCHANGED <<handed, files, tries, transfer, history, complete, payer,
                   proxy, credited, crashes, hidden>>

(* "Refresh complete". *)
refresh_complete ==
    /\ refresh.at = "next" /\ refresh.todo = {}
    /\ refresh' = NoRefresh
    /\ UNCHANGED <<handed, files, tries, transfer, history, complete, payer,
                   proxy, credited, crashes, hidden>>

(* Mutant: the status of the transfer is not looked at. *)
AnyValidity(t) == TRUE

(* External: the validity of a transfer whose transaction is mined. *)
Valid(t) == transfer[t].stage = "mined"

(* A transfer that is not mined is accepted with a warning and its file    *)
(* stays, as a sweep accepts its own right after the broadcast.  One whose *)
(* transaction nobody has seen may also fail validation: an abort, which   *)
(* leaves the files after it untouched.                                    *)
refresh_accept ==
    LET t == refresh.transfer IN
    /\ refresh.at = "got"
    /\ \/ /\ credited' = credited \cup {t}
          /\ refresh' = IF Valid(t) THEN [refresh EXCEPT !.at = "accepted"]
                        ELSE Continue
       \/ /\ t \notin Sent /\ ~ Valid(t)
          /\ refresh' = [NoRefresh EXCEPT !.at = "aborted"]
          /\ UNCHANGED credited
    /\ UNCHANGED <<handed, files, tries, transfer, history, complete, payer,
                   proxy, crashes, hidden>>

remove_file ==
    /\ refresh.at = "accepted"
    /\ files' = files \ {refresh.seal}
    /\ refresh' = Continue
    /\ UNCHANGED <<handed, tries, transfer, history, complete, payer, proxy,
                   credited, crashes, hidden>>

ReceiverRestarts ==
    /\ refresh.at # "idle"
    /\ refresh.at # "aborted" => crashes < MaxCrashes \* bound on crashes
    /\ crashes' = IF refresh.at = "aborted" THEN crashes ELSE crashes + 1
    /\ refresh' = NoRefresh
    /\ UNCHANGED <<handed, files, tries, transfer, history, complete, payer,
                   proxy, credited, hidden>>

-----------------------------------------------------------------------------
Next ==
    \/ \E s \in Seals : receiveasset(s) \/ sendasset(s) \/ NextFile(s)
    \/ \E stored, answered \in BOOLEAN : post_consignment(stored, answered)
    \/ broadcast_tx \/ accept_transfer \/ PayerRestarts
    \/ \E t \in Made : Mined(t)
    \/ read_dir \/ get_consignment \/ unable_to_get \/ refresh_complete
    \/ refresh_accept \/ remove_file \/ ReceiverRestarts

Spec == Init /\ [][Next]_vars

(* Transactions are mined.  The receiver's user calls refresh again and    *)
(* again, and starts the node again when it has aborted; a command that    *)
(* was begun goes on, and a consignment that is asked for again and again  *)
(* is served at last.  The order of the files is not fair.                 *)
Fairness ==
    /\ \A t \in Transfers : WF_vars(t \in Made /\ Mined(t))
    /\ WF_vars(read_dir)
    /\ WF_vars(\E s \in Seals : NextFile(s)) /\ WF_vars(refresh_complete)
    /\ WF_vars(get_consignment \/ unable_to_get)
    /\ \A s \in Seals : SF_vars(refresh.seal = s /\ get_consignment)
    /\ WF_vars(refresh_accept) /\ WF_vars(remove_file)
    /\ WF_vars(refresh.at = "aborted" /\ ReceiverRestarts)

FairSpec == Spec /\ Fairness

-----------------------------------------------------------------------------
(* Properties. *)

TriedAgain(t) == \E u \in Made : u > t /\ transfer[u].seal = transfer[t].seal

(* What was broadcast can be claimed: the proxy serves its consignment     *)
(* under the receiver's blinded output, unless the payer, whose command    *)
(* was cut off by a crash, has sent to it again.                           *)
PaidIsClaimable ==
    \A t \in Sent : TriedAgain(t) \/ proxy[transfer[t].seal] = t

(* The file of a blinded output is gone only once a mined transfer to it   *)
(* is in the receiver's history, however posts, crashes and blocks fall.   *)
DoneIsMined ==
    \A s \in handed \ files :
      \E t \in credited : transfer[t].seal = s /\ transfer[t].stage = "mined"

(* The balance the payer sees misses change only in the moment between     *)
(* broadcast and acceptance (cli.rs:544 and 548), or for good when a crash *)
(* fell into it: nothing accepts that transfer later.                      *)
HiddenChangeNeedsCrash ==
    \A o \in Sent \ Spent :
      Change(o) > 0 /\ o \notin history =>
        \/ o \in hidden
        \/ payer = [at |-> "accept", transfer |-> o]

(* A file whose consignment may abort every refresh at it: the transaction *)
(* was never broadcast.                                                    *)
Poisoned == \E s \in files : proxy[s] # Nothing /\ proxy[s] \notin Sent

(* A transfer that is mined, the only one to its blinded output, is in the *)
(* end in the receiver's history, whatever happens to the other files and  *)
(* in whatever order refresh comes to them, unless one of them is poisoned *)
(* for good: then refresh may abort there every time (cli.rs:655).         *)
MinedIsCredited ==
    \A t \in Transfers :
      (t \in On({"mined"})) ~>
        \/ t \in credited
        \/ \E u \in Made \ {t} : transfer[u].seal = transfer[t].seal
        \/ []Poisoned

-----------------------------------------------------------------------------
(* What the repository says or asserts and the model refutes (README). *)

(* README.md:174: "To complete a transfer on the receiver side, once the   *)
(* send operation is complete, call the `refresh` command."                *)
RefreshCompletes ==
    [][refresh.at = "got" /\ refresh.seal \in refresh.after =>
         refresh'.at \in {"got", "accepted"}]_vars
=============================================================================
