------------------------------- MODULE Startup ------------------------------
(***************************************************************************)
(* start_ldk (src/src/main.rs) and what it finds on disk after a crash.    *)
(*                                                                         *)
(* Four things survive the process: the keys seed, the channel monitors,   *)
(* the channel manager and the list rgb_utxos.  The node writes the first  *)
(* and the last itself; the library writes each monitor when its channel   *)
(* is funded and the manager some time later.  Whether a start is the      *)
(* first one is told from the manager's file alone.                        *)
(***************************************************************************)
EXTENDS Integers

CONSTANTS
    Channels,     \* channels that may be funded
    Outputs,      \* outputs that createutxos may make
    MaxStarts     \* bound on starts

ASSUME StartupAssumption == MaxStarts \in Nat \ {0}

VARIABLES
    at,          \* the step of start_ldk, "off", "running" or "panic"
    starts,
    key,         \* the seed in memory; each generated one is new
    read,        \* monitors read from disk and not yet given away
    fresh,       \* ~ restarting_node
    watched,     \* monitors of the running chain monitor
    seed,        \* keys_seed: NoSeed, Torn or a key
    monitors,    \* channels whose monitor is on disk
    manager,     \* the key of the channel manager on disk, or 0
    listed,      \* outputs in rgb_utxos
    made,        \* outputs made for assets
    cut          \* history: a crash before the first save of the manager

memory == <<key, read, fresh, watched>>
disk == <<seed, monitors, manager, listed>>
vars == <<at, starts, memory, disk, made, cut>>

NoSeed == 0
Torn == -1
Keys == 1 .. MaxStarts

Steps == {"off", "connect", "chain", "seed", "write", "monitors", "manager",
          "listeners", "watch", "running", "panic"}

Keyless == {"off", "connect", "chain", "seed", "write", "panic"}

TypeOK ==
    /\ at \in Steps
    /\ starts \in 0 .. MaxStarts
    /\ key \in IF at \in Keyless THEN {0} ELSE Keys
    /\ read \in SUBSET Channels /\ fresh \in BOOLEAN /\ watched \in SUBSET Channels
    /\ seed \in Keys \cup {NoSeed, Torn}
    /\ monitors \in SUBSET Channels
    /\ manager \in Keys \cup {0}
    /\ listed \in SUBSET Outputs
    /\ made \in SUBSET Outputs
    /\ cut \in BOOLEAN

Init ==
    /\ at = "off" /\ starts = 0
    /\ key = 0 /\ read = {} /\ fresh = FALSE /\ watched = {}
    /\ seed = NoSeed /\ monitors = {} /\ manager = 0 /\ listed = {}
    /\ made = {} /\ cut = FALSE

-----------------------------------------------------------------------------
Start ==
    /\ at = "off" /\ starts < MaxStarts               \* bound on starts
    /\ at' = "connect"
    /\ starts' = starts + 1
    /\ UNCHANGED <<memory, disk, made, cut>>

(* BitcoindClient::new: an error ends the program; the chain that answers  *)
(* must be the one of the arguments.                                       *)
Connect(ok) ==
    /\ at \in {"connect", "chain"}
    /\ at' = IF ~ ok THEN "off" ELSE IF at = "connect" THEN "chain" ELSE "seed"
    /\ UNCHANGED <<starts, memory, disk, made, cut>>

(* Mutant: a new seed is made at every start. *)
ReadSeedNever ==
    /\ at = "seed"
    /\ at' = "write" /\ seed' = Torn
    /\ UNCHANGED <<starts, memory, monitors, manager, listed, made, cut>>

(* A seed file must have its 32 bytes.  Without a file one is created,     *)
(* empty at first.                                                         *)
ReadSeed ==
    /\ at = "seed"
    /\ \/ /\ seed = NoSeed
          /\ at' = "write" /\ seed' = Torn
          /\ UNCHANGED key
       \/ /\ seed = Torn
          /\ at' = "panic"
          /\ UNCHANGED <<key, seed>>
       \/ /\ seed \notin {NoSeed, Torn}
          /\ at' = "monitors" /\ key' = seed
          /\ UNCHANGED seed
    /\ UNCHANGED <<starts, read, fresh, watched, monitors, manager, listed, made, cut>>

(* Written and synced. *)
WriteSeed ==
    /\ at = "write"
    /\ at' = "monitors"
    /\ key' = starts /\ seed' = starts
    /\ UNCHANGED <<starts, read, fresh, watched, monitors, manager, listed, made, cut>>

read_channelmonitors ==
    /\ at = "monitors"
    /\ at' = "manager"
    /\ read' = monitors
    /\ UNCHANGED <<starts, key, fresh, watched, disk, made, cut>>

(* A fresh node also gets a new rgb_utxos, and its monitors, if any, are   *)
(* not used.                                                               *)
FreshManager ==
    /\ at = "manager" /\ manager = 0
    /\ at' = "watch"
    /\ fresh' = TRUE
    /\ listed' = {}
    /\ UNCHANGED <<starts, key, read, watched, seed, monitors, manager, made, cut>>

ReadManager ==
    /\ at = "manager" /\ manager # 0
    /\ at' = "listeners"
    /\ fresh' = FALSE
    /\ UNCHANGED <<starts, key, read, watched, disk, made, cut>>

(* synchronize_listeners fails when Core does not answer. *)
synchronize_listeners(ok) ==
    /\ at = "listeners"
    /\ at' = IF ok THEN "watch" ELSE "panic"
    /\ key' = IF ok THEN key ELSE 0
    /\ UNCHANGED <<starts, read, fresh, watched, disk, made, cut>>

(* Mutant: the last monitor of the list is left out. *)
watch_channel_but_one ==
    /\ at = "watch"
    /\ at' = "running"
    /\ \E ch \in Channels : watched' = IF fresh THEN {} ELSE read \ {ch}
    /\ read' = {}
    /\ UNCHANGED <<starts, key, fresh, disk, made, cut>>

(* Only a restarting node has put the monitors in the list that is given   *)
(* to the chain monitor.  The tasks and the commands run from here on.     *)
watch_channel ==
    /\ at = "watch"
    /\ at' = "running"
    /\ watched' = IF fresh THEN {} ELSE read
    /\ read' = {}
    /\ UNCHANGED <<starts, key, fresh, disk, made, cut>>

-----------------------------------------------------------------------------
(* The running node. *)

createutxos(o) ==
    /\ at = "running" /\ o \notin made
    /\ made' = made \cup {o}
    /\ listed' = listed \cup {o}
    /\ UNCHANGED <<at, starts, memory, seed, monitors, manager, cut>>

(* External: a channel is funded, its monitor is watched and written. *)
ChannelFunded(ch) ==
    /\ at = "running" /\ ch \notin monitors
    /\ monitors' = monitors \cup {ch}
    /\ watched' = watched \cup {ch}
    /\ UNCHANGED <<at, starts, key, read, fresh, seed, manager, listed, made, cut>>

(* External: the background processor saves the manager. *)
ManagerSaved ==
    /\ at = "running"
    /\ manager' = key
    /\ UNCHANGED <<at, starts, memory, seed, monitors, listed, made, cut>>

(* The processor saves the manager a last time. *)
quit ==
    /\ at = "running"
    /\ at' = "off"
    /\ manager' = key
    /\ key' = 0 /\ read' = {} /\ fresh' = FALSE /\ watched' = {}
    /\ UNCHANGED <<starts, seed, monitors, listed, made, cut>>

(* At any step, or after a panic: an unwrap that fails, such as those of   *)
(* the polls of Core, or the machine.                                      *)
Crash ==
    /\ at # "off"
    /\ at' = "off"
    /\ cut' = (cut \/ (at = "running" /\ manager = 0))
    /\ key' = 0 /\ read' = {} /\ fresh' = FALSE /\ watched' = {}
    /\ UNCHANGED <<starts, disk, made>>

-----------------------------------------------------------------------------
StartStep ==
    \/ \E ok \in BOOLEAN : Connect(ok) \/ synchronize_listeners(ok)
    \/ ReadSeed \/ WriteSeed \/ read_channelmonitors
    \/ FreshManager \/ ReadManager \/ watch_channel

Next ==
    \/ Start \/ StartStep
    \/ \E o \in Outputs : createutxos(o)
    \/ \E ch \in Channels : ChannelFunded(ch)
    \/ ManagerSaved \/ quit \/ Crash

Spec == Init /\ [][Next]_vars

-----------------------------------------------------------------------------
(* Properties. *)

(* However often its start was cut off, a node that has a channel manager  *)
(* runs with the key the manager was made with: no second seed is ever     *)
(* generated for it.                                                       *)
SameKey == at = "running" /\ manager # 0 => key = manager

(* What start_ldk forgets of the disk, monitors that nobody watches and    *)
(* asset outputs that are not listed, it forgets only after a crash that   *)
(* came before the manager's first save.                                   *)
NothingForgottenOnceSaved ==
    at = "running" => (monitors = watched /\ made \subseteq listed) \/ cut

-----------------------------------------------------------------------------
(* What the repository says or asserts and the model refutes (README). *)

(* main.rs:1203: assert_eq!(seed.len(), 32). *)
SeedIsWhole == ~(at = "seed" /\ seed = Torn)

(* main.rs:1364: "Give ChannelMonitors to ChainMonitor". *)
MonitorsGiven == at = "running" => monitors \subseteq watched

(* main.rs:1319: "initialize RGB UTXOs file on first run". *)
ListInitialisedOnFirstRun == at = "running" => made \subseteq listed
=============================================================================
