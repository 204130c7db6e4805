------------------------------ MODULE Channel ------------------------------
(***************************************************************************)
(* The client's channel to the backend as a component uses it (useChannel  *)
(* of src/src/client/channel/channel.ts): a WebSocket that is opened when  *)
(* the component mounts, opened again some time after it was lost, and     *)
(* replaced when the options change.  connectChannel is one turn of it.    *)
(*                                                                         *)
(* A turn is a run of the effect, from its options to its cleanup; its     *)
(* sockets report what happened to them later, one event at a time.  The   *)
(* delay of a timer is any time.                                           *)
(***************************************************************************)
EXTENDS Naturals, FiniteSets

CONSTANTS
  MaxTurns,    (* bound: times the options change, and once mounted        *)
  MaxSockets   (* bound: sockets that are ever opened                      *)

ASSUME ChannelAssumption == MaxTurns \in Nat \ {0} /\ MaxSockets \in Nat \ {0}

VARIABLES
  turn,       (* the turn of the effect; those before it are stopped       *)
  mounted,    (* whether the component is there                            *)
  socketRef,  (* the last socket opened: 0 before the first                *)
  turnOf,     (* the turn that opened each socket                          *)
  sockets,    (* "connecting", "open", "closing" or "closed"               *)
  events,     (* events of sockets that their listeners have yet to see    *)
  reconnects, (* turns whose timer is set                                  *)
  connected,  (* what the hook returns                                     *)
  messages    (* the turns of the frames that the hook returns             *)

useChannelVars == <<turn, mounted, socketRef, turnOf, sockets, events, reconnects, connected, messages>>

Stopped(t) == t # turn \/ ~mounted

OpenSocket(t) ==
  /\ socketRef < MaxSockets
  /\ socketRef' = socketRef + 1
  /\ turnOf' = [turnOf EXCEPT ![socketRef + 1] = t]

ChannelInit ==
  /\ turn = 1 /\ mounted = TRUE /\ socketRef = 1
  /\ turnOf = [s \in 1..MaxSockets |-> IF s = 1 THEN 1 ELSE 0]
  /\ sockets = [s \in 1..MaxSockets |-> IF s = 1 THEN "connecting" ELSE "none"]
  /\ events = {} /\ reconnects = {} /\ connected = FALSE /\ messages = {}

(* The network and the server: a socket opens, brings a frame, or is lost, *)
(* or ends after a close.  Its events are delivered in this order.         *)
SocketOpens(s) ==
  /\ sockets[s] = "connecting"
  /\ sockets' = [sockets EXCEPT ![s] = "open"]
  /\ events' = events \cup {<<s, "open">>}
  /\ UNCHANGED <<turn, mounted, socketRef, turnOf, reconnects, connected, messages>>

FrameComes(s) ==
  /\ sockets[s] = "open"
  /\ <<s, "message">> \notin events /\ events' = events \cup {<<s, "message">>}
  /\ UNCHANGED <<turn, mounted, socketRef, turnOf, sockets, reconnects, connected, messages>>

SocketCloses(s) ==
  /\ sockets[s] \in {"connecting", "open", "closing"}
  /\ sockets' = [sockets EXCEPT ![s] = "closed"]
  /\ events' = events \cup {<<s, "close">>}
  /\ UNCHANGED <<turn, mounted, socketRef, turnOf, reconnects, connected, messages>>

Earlier(kind) == CASE kind = "open" -> {} [] kind = "message" -> {"open"} [] kind = "close" -> {"open", "message"}

(* A listener of the socket runs; the one for frames does not ask whether  *)
(* its turn is over.                                                       *)
Hear(s, kind) ==
  /\ <<s, kind>> \in events /\ \A k \in Earlier(kind) : <<s, k>> \notin events
  /\ events' = events \ {<<s, kind>>}
  /\ connected' = IF Stopped(turnOf[s]) \/ kind = "message" THEN connected ELSE kind = "open"
  /\ messages' = IF kind = "message" THEN messages \cup {turnOf[s]} ELSE messages
  /\ reconnects' = IF kind = "close" /\ ~Stopped(turnOf[s]) THEN reconnects \cup {turnOf[s]} ELSE reconnects
  /\ UNCHANGED <<turn, mounted, socketRef, turnOf, sockets>>

TimerOpens(t) ==
  /\ t \in reconnects /\ reconnects' = reconnects \ {t}
  /\ OpenSocket(t) /\ sockets' = [sockets EXCEPT ![socketRef + 1] = "connecting"]
  /\ UNCHANGED <<turn, mounted, events, connected, messages>>

(* Mutant: the timer that is set goes off all the same.                    *)
KeepsTimer(t) == reconnects

(* The cleanup of a turn: its timer goes, and the last socket is closed.   *)
WithoutTimer(t) == reconnects \ {t}
CloseLast == [sockets EXCEPT ![socketRef] = IF @ \in {"connecting", "open"} THEN "closing" ELSE @]

ChangeOptions ==
  /\ mounted /\ turn < MaxTurns /\ turn' = turn + 1
  /\ reconnects' = WithoutTimer(turn)
  /\ OpenSocket(turn + 1) /\ sockets' = [CloseLast EXCEPT ![socketRef + 1] = "connecting"]
  /\ UNCHANGED <<mounted, events, connected, messages>>

Unmount ==
  /\ mounted /\ mounted' = FALSE
  /\ reconnects' = WithoutTimer(turn) /\ sockets' = CloseLast
  /\ UNCHANGED <<turn, socketRef, turnOf, events, connected, messages>>

ChannelNext ==
  \/ \E s \in 1..MaxSockets : SocketOpens(s) \/ FrameComes(s) \/ SocketCloses(s)
  \/ \E s \in 1..MaxSockets, kind \in {"open", "message", "close"} : Hear(s, kind)
  \/ \E t \in 1..MaxTurns : TimerOpens(t)
  \/ ChangeOptions \/ Unmount

ChannelSpec == ChannelInit /\ [][ChannelNext]_useChannelVars

OpenOrOpening == {s \in 1..MaxSockets : sockets[s] \in {"connecting", "open"}}
Untold == {e \in events : e[1] = socketRef /\ e[2] # "message"}

(* A mounted component has one socket or one timer at a time, of the       *)
(* options it has now, and one that is gone has neither, so nothing        *)
(* reconnects behind its back; and what it shows as connected is its       *)
(* socket, except while the socket has news it was not yet told, or has    *)
(* replaced an open one and not opened itself.                             *)
OneSocket ==
  /\ Cardinality(OpenOrOpening) + Cardinality(reconnects) <= IF mounted THEN 1 ELSE 0
  /\ \A s \in OpenOrOpening : turnOf[s] = turn
  /\ mounted /\ Untold = {} /\ connected => sockets[socketRef] \in {"open", "connecting"}
  /\ mounted /\ Untold = {} /\ ~connected => sockets[socketRef] # "open"
=============================================================================
