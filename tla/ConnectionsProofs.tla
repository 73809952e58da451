-------------------------- MODULE ConnectionsProofs -------------------------
(***************************************************************************)
(* Proofs about Connections for any number of peers.                       *)
(*                                                                         *)
(* That no attempt starts after the flag needs two facts about the exit:   *)
(* the flag stays set from its store on, and the command loop, which does  *)
(* not look at the flag, is over by then.  Typing needs that whoever       *)
(* connects or disconnects has a peer.                                     *)
(***************************************************************************)
EXTENDS Connections, TLAPS

(* After the command loop start_ldk sets the flag first. *)
ExitOrder == main # "commands" => stop /\ cli.at = "quit"

(* An activity that is in the middle of something has a peer. *)
BusyWithPeer ==
    /\ listener.at = "test" => listener.peer \in Peers
    /\ reconnect.at = "connect" => reconnect.peer \in Peers
    /\ cli.at \in {"connect", "create", "persist", "disconnect"} => cli.peer \in Peers

IInv == TypeOK /\ ExitOrder /\ BusyWithPeer

USE ConnectionsAssumption DEF IInv, TypeOK, ExitOrder, BusyWithPeer, tasks, exit, book,
    Listeners, Reconnects, Commands, Ticking, Prompt

(* A node that has just started. *)
LEMMA InitIInv == Init => IInv
<1> SUFFICES ASSUME Init PROVE IInv
  OBVIOUS
<1>1. listener \in Listeners /\ reconnect \in Reconnects /\ cli \in Commands
  BY DEF Init
<1>2. stop \in BOOLEAN /\ late \in BOOLEAN
  BY Zenon DEF Init
<1> QED
  BY <1>1, <1>2 DEF Init

(* The accept loop. *)
LEMMA ListenerStep ==
    ASSUME IInv, (\E p \in Peers : Accept(p) \/ InboundEnds(p)) \/ ListenTest
    PROVE  IInv'
<1>1. ASSUME NEW p \in Peers, Accept(p) PROVE IInv'
  BY <1>1 DEF Accept
<1>2. CASE ListenTest
  BY <1>2 DEF ListenTest
<1>3. ASSUME NEW p \in Peers, InboundEnds(p) PROVE IInv'
  BY <1>3 DEF InboundEnds
<1> QED
  BY <1>1, <1>2, <1>3

(* The reconnection task. *)
LEMMA ReconnectionStep ==
    ASSUME IInv, ReconnectStep
    PROVE  IInv'
<1>1. CASE Tick
  BY <1>1 DEF Tick
<1>2. CASE ReconnectDone
  BY <1>2 DEF ReconnectDone
<1>3. ASSUME NEW p \in Peers, Reconnect(p) PROVE IInv'
  <2>1. reconnect' \in Reconnects
    BY <1>3 DEF Reconnect
  <2>2. reconnect'.at = "connect" => reconnect'.peer \in Peers
    BY <1>3 DEF Reconnect
  <2> QED
    BY <1>3, <2>1, <2>2 DEF Reconnect
<1>4. ASSUME NEW ok \in BOOLEAN, ReconnectEnds(ok) PROVE IInv'
  <2>1. reconnect' \in Reconnects /\ reconnect'.at = "loop"
    BY <1>4 DEF ReconnectEnds
  <2>2. connected' \in SUBSET Peers
    BY <1>4 DEF ReconnectEnds, do_connect_peer
  <2> QED
    BY <1>4, <2>1, <2>2 DEF ReconnectEnds
<1> QED
  BY <1>1, <1>2, <1>3, <1>4 DEF ReconnectStep

(* A command is typed. *)
LEMMA CommandBegins ==
    ASSUME IInv,
           \/ \E p \in Peers, open \in BOOLEAN : connect_peer_if_necessary(p, open)
           \/ \E p \in Peers : do_disconnect_peer(p)
           \/ quit
    PROVE  IInv'
<1>1. ASSUME NEW p \in Peers, NEW open \in BOOLEAN,
             connect_peer_if_necessary(p, open)
      PROVE  IInv'
  BY <1>1 DEF connect_peer_if_necessary
<1>2. ASSUME NEW p \in Peers, do_disconnect_peer(p) PROVE IInv'
  BY <1>2 DEF do_disconnect_peer
<1>3. CASE quit
  BY <1>3 DEF quit
<1> QED
  BY <1>1, <1>2, <1>3

(* The command's later steps. *)
LEMMA CommandGoesOn ==
    ASSUME IInv, CommandStep
    PROVE  IInv'
<1>1. ASSUME NEW ok \in BOOLEAN, CommandConnects(ok) PROVE IInv'
  BY <1>1 DEF CommandConnects, do_connect_peer
<1>2. CASE open_channel
  <2>1. CASE cli' = [cli EXCEPT !.at = "persist"]
    <3>1. cli' \in Commands /\ cli'.peer = cli.peer /\ cli'.at # "quit"
      BY <1>2, <2>1 DEF open_channel
    <3> QED
      BY <1>2, <3>1 DEF open_channel
  <2>2. CASE cli' = Prompt
    <3>1. cli' \in Commands /\ cli'.at = "idle"
      BY <2>2
    <3> QED
      BY <1>2, <3>1 DEF open_channel
  <2> QED
    BY <1>2, <2>1, <2>2 DEF open_channel
<1>3. CASE persist_channel_peer
  BY <1>3 DEF persist_channel_peer
<1>4. CASE disconnect_by_node_id
  BY <1>4 DEF disconnect_by_node_id
<1> QED
  BY <1>1, <1>2, <1>3, <1>4 DEF CommandStep

(* The end of start_ldk. *)
LEMMA ExitSteps ==
    ASSUME IInv, ExitStep
    PROVE  IInv'
BY DEF ExitStep, StoreFlag, disconnect_all_peers, ExitBackground,
       BackgroundStops, Ends

(* Peers and host names. *)
LEMMA WorldStep ==
    ASSUME IInv, NEW p \in Peers,
           \/ ChannelUpdate(p) \/ PeerLeaves(p) \/ PeerOpensChannel(p)
           \/ ChannelCloses(p) \/ HostGone(p)
    PROVE  IInv'
<1>1. late' \in BOOLEAN
  BY DEF ChannelUpdate, PeerLeaves, PeerOpensChannel, ChannelCloses, HostGone
<1> QED
  BY <1>1 DEF ChannelUpdate, PeerLeaves, PeerOpensChannel, ChannelCloses, HostGone

HIDE DEF IInv

(* The invariant holds in every state. *)
THEOREM Invariance == Spec => []IInv
<1>1. IInv /\ [Next]_vars => IInv'
  <2> SUFFICES ASSUME IInv, [Next]_vars PROVE IInv'
    OBVIOUS
  <2>1. CASE UNCHANGED vars
    BY <2>1 DEF IInv, vars
  <2> QED
    BY <2>1, ListenerStep, ReconnectionStep, CommandBegins, CommandGoesOn,
       ExitSteps, WorldStep DEF Next
<1> QED
  BY InitIInv, <1>1, PTL DEF Spec

(* Peers, tasks and the exit keep their types. *)
THEOREM TypeCorrect == Spec => []TypeOK
<1>1. IInv => TypeOK
  BY DEF IInv
<1> QED
  BY <1>1, Invariance, PTL

(* Once start_ldk has disconnected the peers no step of any activity       *)
(* starts a connection: what appears was already under way.                *)
THEOREM NoNewAttemptAfterStopAlways == Spec => NoNewAttemptAfterStop
<1> DEFINE Quiet == (main \in {"disconnected", "exiting"}) =>
                      (InFlight' \cup connected') \subseteq (InFlight \cup connected)
<1>1. IInv /\ [Next]_vars => [Quiet]_vars
  <2> SUFFICES ASSUME IInv, Next, main \in {"disconnected", "exiting"}
               PROVE  (InFlight' \cup connected') \subseteq (InFlight \cup connected)
    OBVIOUS
  <2>1. stop /\ cli.at = "quit"
    BY DEF IInv
  <2>2. CASE \E p \in Peers : Accept(p) \/ InboundEnds(p)
    BY <2>2 DEF Accept, InboundEnds, InFlight
  <2>3. CASE ListenTest
    BY <2>1, <2>3 DEF ListenTest, InFlight
  <2>4. CASE ReconnectStep
    <3>1. CASE Tick \/ ReconnectDone
      BY <3>1 DEF Tick, ReconnectDone, InFlight
    <3>2. ASSUME NEW p \in Peers, Reconnect(p)
          PROVE  InFlight' \subseteq InFlight /\ connected' = connected
      BY <2>1, <3>2 DEF Reconnect, InFlight
    <3>3. ASSUME NEW ok \in BOOLEAN, ReconnectEnds(ok)
          PROVE  (InFlight' \cup connected') \subseteq (InFlight \cup connected)
      <4>1. reconnect'.at = "loop"
        BY <3>3 DEF IInv, ReconnectEnds
      <4> QED
        BY <3>3, <4>1 DEF ReconnectEnds, do_connect_peer, InFlight
    <3> QED
      BY <2>4, <3>1, <3>2, <3>3 DEF ReconnectStep
  <2>5. CASE CommandStep
    BY <2>1, <2>5 DEF CommandStep, CommandConnects, open_channel,
       persist_channel_peer, disconnect_by_node_id
  <2>6. CASE ExitStep
    BY <2>6 DEF ExitStep, StoreFlag, disconnect_all_peers, ExitBackground,
       BackgroundStops, Ends, InFlight
  <2>7. CASE \E p \in Peers : \/ ChannelUpdate(p) \/ PeerLeaves(p)
                              \/ PeerOpensChannel(p) \/ ChannelCloses(p)
                              \/ HostGone(p)
    BY <2>7 DEF ChannelUpdate, PeerLeaves, PeerOpensChannel, ChannelCloses,
       HostGone, InFlight
  <2>8. CASE \/ \E p \in Peers, open \in BOOLEAN : connect_peer_if_necessary(p, open)
             \/ \E p \in Peers : do_disconnect_peer(p)
             \/ quit
    BY <2>8 DEF connect_peer_if_necessary, do_disconnect_peer, quit
  <2> QED
    BY <2>2, <2>3, <2>4, <2>5, <2>6, <2>7, <2>8 DEF Next
<1> QED
  BY <1>1, Invariance, PTL DEF Spec, NoNewAttemptAfterStop
=============================================================================
