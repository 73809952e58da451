---------------------------- MODULE Connections -----------------------------
(***************************************************************************)
(* Peer connections of a node and its orderly exit.                        *)
(*                                                                         *)
(* Four activities connect and disconnect peers: the accept loop and the   *)
(* reconnection task (src/src/main.rs), which test stop_listen_connect     *)
(* before they act; the command loop (src/src/cli.rs); and start_ldk,      *)
(* which when the command loop ends sets the flag, disconnects everyone    *)
(* and stops the background processor.                                     *)
(***************************************************************************)
CONSTANTS
    Peers,
    Hosts    \* those whose address is a host name

VARIABLES
    connected,    \* peers in the peer manager
    channels,     \* peers we have a channel with
    ours,         \* those whose channel an open command of ours created
    known,        \* peers in the file channel_peer_data
    gone,         \* peers whose host name no longer resolves
    listener,     \* the accept loop
    inbound,      \* peers whose setup_inbound runs
    reconnect,    \* the reconnection task
    cli,          \* the command loop
    stop,         \* stop_listen_connect
    main,         \* how far start_ldk has come
    background,   \* the background processor: "running" or "stopped"
    late          \* history: channel data was updated after the last save

tasks == <<listener, inbound, reconnect, cli>>
exit == <<stop, main, background>>
book == <<known, gone>>
vars == <<connected, channels, ours, book, tasks, exit, late>>

Nobody == "nobody"

Listeners == [at : {"accept", "test", "done"}, peer : Peers \cup {Nobody}]
Reconnects == [at : {"tick", "loop", "connect", "done"}, info : SUBSET Peers,
               todo : SUBSET Peers, peer : Peers \cup {Nobody}]
Commands == [at : {"idle", "connect", "create", "persist", "disconnect", "quit"},
             open : BOOLEAN, peer : Peers \cup {Nobody}]

ASSUME ConnectionsAssumption == Nobody \notin Peers /\ Hosts \subseteq Peers

TypeOK ==
    /\ connected \in SUBSET Peers /\ channels \in SUBSET Peers
    /\ ours \in SUBSET Peers /\ known \in SUBSET Peers
    /\ gone \in SUBSET Hosts
    /\ listener \in Listeners
    /\ inbound \in SUBSET Peers
    /\ reconnect \in Reconnects
    /\ cli \in Commands
    /\ stop \in BOOLEAN
    /\ main \in {"commands", "stopping", "disconnected", "exiting", "ended"}
    /\ background \in {"running", "stopped"}
    /\ late \in BOOLEAN

Ticking == [at |-> "tick", info |-> {}, todo |-> {}, peer |-> Nobody]
Prompt == [at |-> "idle", open |-> FALSE, peer |-> Nobody]

(* A node that starts again has channels from before, opened by us and     *)
(* recorded, or opened by the peer.                                        *)
Init ==
    /\ connected = {}
    /\ channels \in SUBSET Peers
    /\ ours \in SUBSET channels /\ known = ours /\ gone = {}
    /\ listener = [at |-> "accept", peer |-> Nobody]
    /\ inbound = {}
    /\ reconnect = Ticking
    /\ cli = Prompt
    /\ stop = FALSE /\ main = "commands" /\ background = "running"
    /\ late = FALSE

Alive == main # "ended"

-----------------------------------------------------------------------------
(* The accept loop. *)

Accept(p) ==
    /\ Alive /\ listener.at = "accept"
    /\ p \notin inbound
    /\ listener' = [at |-> "test", peer |-> p]
    /\ UNCHANGED <<connected, channels, ours, book, inbound, reconnect, cli,
                   exit, late>>

(* Mutant: the flag is not looked at. *)
ListenTestForgets ==
    /\ Alive /\ listener.at = "test"
    /\ listener' = [at |-> "accept", peer |-> Nobody]
    /\ inbound' = inbound \cup {listener.peer}
    /\ UNCHANGED <<connected, channels, ours, book, reconnect, cli, exit, late>>

ListenTest ==
    /\ Alive /\ listener.at = "test"
    /\ IF stop
       THEN /\ listener' = [at |-> "done", peer |-> Nobody]
            /\ UNCHANGED inbound
       ELSE /\ listener' = [at |-> "accept", peer |-> Nobody]
            /\ inbound' = inbound \cup {listener.peer}
    /\ UNCHANGED <<connected, channels, ours, book, reconnect, cli, exit, late>>

(* External: setup_inbound completes the handshake, or fails. *)
InboundEnds(p) ==
    /\ Alive /\ p \in inbound
    /\ inbound' = inbound \ {p}
    /\ connected' \in {connected, connected \cup {p}}
    /\ UNCHANGED <<channels, ours, book, listener, reconnect, cli, exit, late>>

-----------------------------------------------------------------------------
(* The reconnection task. *)

(* parse_peer_info looks a host name up.  One line that cannot be parsed   *)
(* makes the whole file unreadable.                                        *)
read_channel_peer_data == known \cap gone = {}

(* The file, the connected peers and the channels are read at each tick;   *)
(* when the file cannot be read the task waits for the next.               *)
Tick ==
    /\ Alive /\ reconnect.at = "tick"
    /\ read_channel_peer_data
    /\ channels \ connected # {}
    /\ reconnect' = [at |-> "loop", info |-> known,
                     todo |-> channels \ connected, peer |-> Nobody]
    /\ UNCHANGED <<connected, channels, ours, book, listener, inbound, cli,
                   exit, late>>

(* One peer of the list: nothing is tried for a peer without an address. *)
Reconnect(p) ==
    /\ Alive /\ reconnect.at = "loop" /\ p \in reconnect.todo
    /\ reconnect' = IF stop THEN [Ticking EXCEPT !.at = "done"]
                    ELSE IF p \in reconnect.info
                    THEN [reconnect EXCEPT !.at = "connect", !.peer = p]
                    ELSE [reconnect EXCEPT !.todo = @ \ {p}]
    /\ UNCHANGED <<connected, channels, ours, book, listener, inbound, cli,
                   exit, late>>

(* do_connect_peer waits until the peer is listed or the connection, if    *)
(* there was one, is closed.                                               *)
do_connect_peer(p, ok) ==
    connected' = IF ok THEN connected \cup {p} ELSE connected

ReconnectEnds(ok) ==
    /\ Alive /\ reconnect.at = "connect"
    /\ do_connect_peer(reconnect.peer, ok)
    /\ reconnect' = [reconnect EXCEPT !.at = "loop", !.peer = Nobody,
                                      !.todo = @ \ {reconnect.peer}]
    /\ UNCHANGED <<channels, ours, book, listener, inbound, cli, exit, late>>

ReconnectDone ==
    /\ Alive /\ reconnect.at = "loop" /\ reconnect.todo = {}
    /\ reconnect' = Ticking
    /\ UNCHANGED <<connected, channels, ours, book, listener, inbound, cli,
                   exit, late>>

-----------------------------------------------------------------------------
(* Commands. *)

(* connectpeer, openchannel and opencoloredchannel connect if necessary. *)
connect_peer_if_necessary(p, open) ==
    /\ main = "commands" /\ cli.at = "idle"
    /\ p \notin gone
    /\ cli' = IF p \notin connected
              THEN [at |-> "connect", open |-> open, peer |-> p]
              ELSE IF open THEN [at |-> "create", open |-> open, peer |-> p]
              ELSE Prompt
    /\ UNCHANGED <<connected, channels, ours, book, listener, inbound,
                   reconnect, exit, late>>

CommandConnects(ok) ==
    /\ cli.at = "connect"
    /\ do_connect_peer(cli.peer, ok)
    /\ cli' = IF ok /\ cli.open THEN [cli EXCEPT !.at = "create"] ELSE Prompt
    /\ UNCHANGED <<channels, ours, book, listener, inbound, reconnect, exit, late>>

(* create_channel refuses a peer that is not connected. *)
open_channel ==
    /\ cli.at = "create"
    /\ \/ /\ cli.peer \in connected
          /\ channels' = channels \cup {cli.peer}
          /\ ours' = ours \cup {cli.peer}
          /\ cli' = [cli EXCEPT !.at = "persist"]
       \/ /\ cli' = Prompt
          /\ UNCHANGED <<channels, ours>>
    /\ UNCHANGED <<connected, book, listener, inbound, reconnect, exit, late>>

(* Mutant: nothing is written. *)
persist_channel_peer_forgets ==
    /\ cli.at = "persist"
    /\ cli' = Prompt
    /\ UNCHANGED <<connected, channels, ours, book, listener, inbound,
                   reconnect, exit, late>>

persist_channel_peer ==
    /\ cli.at = "persist"
    /\ known' = known \cup {cli.peer}
    /\ cli' = Prompt
    /\ UNCHANGED <<connected, channels, ours, gone, listener, inbound,
                   reconnect, exit, late>>

(* disconnectpeer looks for channels and for the peer before it acts. *)
do_disconnect_peer(p) ==
    /\ main = "commands" /\ cli.at = "idle"
    /\ p \notin channels /\ p \in connected
    /\ cli' = [at |-> "disconnect", open |-> FALSE, peer |-> p]
    /\ UNCHANGED <<connected, channels, ours, book, listener, inbound,
                   reconnect, exit, late>>

disconnect_by_node_id ==
    /\ cli.at = "disconnect"
    /\ connected' = connected \ {cli.peer}
    /\ cli' = Prompt
    /\ UNCHANGED <<channels, ours, book, listener, inbound, reconnect, exit, late>>

quit ==
    /\ main = "commands" /\ cli.at = "idle"
    /\ cli' = [Prompt EXCEPT !.at = "quit"]
    /\ UNCHANGED <<connected, channels, ours, book, listener, inbound,
                   reconnect, exit, late>>

-----------------------------------------------------------------------------
(* The end of start_ldk. *)

StoreFlag ==
    /\ main = "commands" /\ cli.at = "quit"
    /\ stop' = TRUE
    /\ main' = "stopping"
    /\ UNCHANGED <<connected, channels, ours, book, tasks, background, late>>

disconnect_all_peers ==
    /\ main = "stopping"
    /\ connected' = {}
    /\ main' = "disconnected"
    /\ UNCHANGED <<channels, ours, book, tasks, stop, background, late>>

ExitBackground ==
    /\ main = "disconnected"
    /\ main' = "exiting"
    /\ UNCHANGED <<connected, channels, ours, book, tasks, stop, background, late>>

(* External: the processor saves the channel manager a last time. *)
BackgroundStops ==
    /\ main = "exiting" /\ background = "running"
    /\ background' = "stopped"
    /\ UNCHANGED <<connected, channels, ours, book, tasks, stop, main, late>>

Ends ==
    /\ main = "exiting" /\ background = "stopped"
    /\ main' = "ended"
    /\ UNCHANGED <<connected, channels, ours, book, tasks, stop, background, late>>

-----------------------------------------------------------------------------
(* External: the peers and their messages. *)

(* A message of a channel peer is handled: the channel is updated, which   *)
(* the next save of the background processor records, if there is one.     *)
ChannelUpdate(p) ==
    /\ Alive /\ p \in connected \cap channels
    /\ late' = (late \/ background = "stopped")
    /\ UNCHANGED <<connected, channels, ours, book, tasks, exit>>

PeerLeaves(p) ==
    /\ Alive /\ p \in connected
    /\ connected' = connected \ {p}
    /\ UNCHANGED <<channels, ours, book, tasks, exit, late>>

PeerOpensChannel(p) ==
    /\ Alive /\ p \in connected
    /\ channels' = channels \cup {p}
    /\ UNCHANGED <<connected, ours, book, tasks, exit, late>>

HostGone(p) ==
    /\ Alive /\ p \in Hosts \ gone
    /\ gone' = gone \cup {p}
    /\ UNCHANGED <<connected, channels, ours, known, tasks, exit, late>>

ChannelCloses(p) ==
    /\ Alive /\ p \in channels
    /\ channels' = channels \ {p}
    /\ ours' = ours \ {p}
    /\ UNCHANGED <<connected, book, tasks, exit, late>>

-----------------------------------------------------------------------------
ReconnectStep ==
    \/ Tick \/ ReconnectDone
    \/ \E p \in Peers : Reconnect(p)
    \/ \E ok \in BOOLEAN : ReconnectEnds(ok)

CommandStep ==
    \/ \E ok \in BOOLEAN : CommandConnects(ok)
    \/ open_channel \/ persist_channel_peer \/ disconnect_by_node_id

ExitStep ==
    StoreFlag \/ disconnect_all_peers \/ ExitBackground \/ BackgroundStops \/ Ends

Next ==
    \/ \E p \in Peers :
         \/ Accept(p) \/ InboundEnds(p)
         \/ \E open \in BOOLEAN : connect_peer_if_necessary(p, open)
         \/ do_disconnect_peer(p)
         \/ ChannelUpdate(p) \/ PeerLeaves(p) \/ PeerOpensChannel(p)
         \/ ChannelCloses(p) \/ HostGone(p)
    \/ ListenTest \/ quit
    \/ ReconnectStep \/ CommandStep \/ ExitStep

Spec == Init /\ [][Next]_vars

(* The reconnection task and the commands that have begun run on.  Nothing *)
(* is assumed about peers, users and the exit.                             *)
Fairness == WF_vars(ReconnectStep) /\ WF_vars(CommandStep)

FairSpec == Spec /\ Fairness

-----------------------------------------------------------------------------
(* Properties. *)

(* Connection attempts that passed their test of the flag. *)
InFlight ==
    inbound \cup (IF reconnect.at = "connect" THEN {reconnect.peer} ELSE {})

(* After the peers were disconnected a connection can only come from an    *)
(* attempt that passed the test of stop_listen_connect before the flag was *)
(* set: no step starts one.                                                *)
NoNewAttemptAfterStop ==
    [][(main \in {"disconnected", "exiting"}) =>
         (InFlight' \cup connected') \subseteq (InFlight \cup connected)]_vars

Tried(p) ==
    \/ p \in connected \/ p \notin ours \/ stop
    \/ reconnect.at = "connect" /\ reconnect.peer = p

(* A peer we opened a channel with is tried again whenever it is not       *)
(* connected, whatever other peers do, until the node stops: the open      *)
(* commands write it to the file the reconnection task reads.  A host name *)
(* in that file that no longer resolves is the one exception.              *)
ChannelPeersAreTried ==
    \A p \in Peers : (p \in ours \ connected) ~> (Tried(p) \/ gone # {})

-----------------------------------------------------------------------------
(* What the repository says or asserts and the model refutes (README). *)

(* main.rs:1524: "Regularly reconnect to channel peers."  That an address  *)
(* can be looked up is enough for its peer to be tried.                    *)
RegularlyReconnect ==
    \A p \in Peers : (p \in ours \ connected) ~> (Tried(p) \/ p \in gone)

(* main.rs:1606: disconnecting the peers "ensures we don't continue        *)
(* updating our channel data after we've stopped the background            *)
(* processor".                                                             *)
NoUpdateAfterBackgroundStops == ~ late
=============================================================================
