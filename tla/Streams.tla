------------------------------- MODULE Streams -------------------------------
(***************************************************************************)
(* A @stream connection of the dev server: the WebSocket, its session      *)
(* (src/src/devserver/stream/ws.ts), the host's table of boxes             *)
(* (manager.ts), the box with its two rings (index.ts) and the channel the *)
(* page holds (src/src/client/stream/client.ts).                           *)
(*                                                                         *)
(* One connection: the others have boxes and numbers of their own          *)
(* (router.ts).  The guest is compiled from the app: a hook reads any of   *)
(* the frames it has, stages any that fit, and accepts, refuses or traps.  *)
(***************************************************************************)
EXTENDS Naturals, Sequences, SequencesExt

CONSTANTS
  Sizes,       (* of the frames in the rings                               *)
  RingSize,    (* room of a ring                                           *)
  MaxFrame,    (* MAX_STREAM_FRAME_LEN: 65536                              *)
  MaxStage,    (* bound: frames one hook stages                            *)
  MaxStaged,   (* bound: frames the guest ever stages                      *)
  MaxSends     (* bound: frames the page ever sends                        *)

ASSUME StreamAssumption ==
  /\ Sizes \subseteq Nat \ {0} /\ RingSize \in Nat /\ MaxFrame \in Nat
  /\ MaxStage \in Nat /\ MaxStaged \in Nat /\ MaxSends \in Nat

VARIABLES
  resident,            (* host.conns holds the box                         *)
  open,                (* session.open                                     *)
  server, page,        (* the two ends of the socket                       *)
  toServer, toClient,  (* what each is still to receive                    *)
  ingress, egress,     (* the rings, with all that was ever put in them    *)
  heard,               (* history: frames the guest read                   *)
  listening, pending,  (* messageCb is set; frames kept for it             *)
  sent, told,          (* history: frames sent, frames given to the page   *)
  hooks                (* history: the hooks that ran, and what came of it *)

serverVars  == <<resident, open, server, ingress, egress, heard, hooks>>
channelVars == <<page, listening, pending, sent, told>>
streamVars == <<serverVars, channelVars, toServer, toClient>>

(* The end of a connection, in order with the frames.                      *)
Bye == [n |-> 0, size |-> 0]

Ends(queue) == \E i \in 1..Len(queue) : queue[i] = Bye

EmptyRing == [frames |-> <<>>, read |-> 0, write |-> 0, log |-> <<>>]

StreamInit ==
  /\ resident = FALSE /\ open = FALSE /\ server = "upgrade" /\ page = "connecting"
  /\ toServer = <<>> /\ toClient = <<>>
  /\ ingress = EmptyRing /\ egress = EmptyRing /\ heard = <<>>
  /\ listening = FALSE /\ pending = <<>>
  /\ sent = <<>> /\ told = <<>> /\ hooks = <<>>

(***************************************************************************)
(* The rings: the writer starts from the beginning only when the reader    *)
(* has everything, and never wraps.                                        *)
(***************************************************************************)
Reset(ring) ==
  IF ring.read = Len(ring.frames) THEN [ring EXCEPT !.frames = <<>>, !.read = 0, !.write = 0] ELSE ring

Fits(ring, size) == Reset(ring).write + size <= RingSize

Put(ring, frame) ==
  [Reset(ring) EXCEPT !.frames = Append(@, frame), !.write = @ + frame.size, !.log = Append(@, frame)]

(* egressDrain stops before a frame that is too long and leaves it there.  *)
Drained(ring) ==
  LET long == {i \in ring.read + 1 .. Len(ring.frames) : ring.frames[i].size > MaxFrame}
  IN IF long = {} THEN Len(ring.frames) ELSE Min(long) - 1

Egress(ring)  == SubSeq(ring.frames, ring.read + 1, Drained(ring))
Advance(ring) == [ring EXCEPT !.read = Drained(ring)]

(***************************************************************************)
(* A hook of the guest over a box: what it has read, what it has staged.   *)
(***************************************************************************)
Total(sizes) == FoldLeft(+, 0, sizes)

Stage(ring, sizes) ==
  LET new == [i \in 1..Len(sizes) |-> [n |-> Len(ring.log) + i, size |-> sizes[i]]]
  IN IF sizes = <<>> THEN ring
     ELSE [Reset(ring) EXCEPT !.frames = @ \o new, !.write = @ + Total(sizes), !.log = @ \o new]

HookOutcomes(in, out) ==
  {[in   |-> [in EXCEPT !.read = @ + k],
    got  |-> SubSeq(in.frames, in.read + 1, in.read + k),
    out  |-> Stage(out, sizes),
    said |-> said] :
     k \in 0 .. Len(in.frames) - in.read,
     sizes \in {s \in SeqOf(Sizes, MaxStage) : Len(out.log) + Len(s) <= MaxStaged /\ Fits(out, Total(s))},
     said \in {"ok", "refused", "trapped"}}

HookRan(kind, r) ==
  /\ ingress' = r.in /\ heard' = heard \o r.got
  /\ hooks' = Append(hooks, [hook |-> kind, said |-> r.said])

(***************************************************************************)
(* acceptUpgrade and onOpen: no artifact, a trap and a refusal leave no    *)
(* box; what @connect staged goes out before a refusal, not before a trap. *)
(***************************************************************************)
UpgradeFails ==
  /\ server = "upgrade"
  /\ server' = "closed" /\ toClient' = <<Bye>>
  /\ UNCHANGED <<resident, open, ingress, egress, heard, hooks, toServer, channelVars>>

Upgrade ==
  /\ server = "upgrade"
  /\ \E r \in HookOutcomes(ingress, egress) :
       /\ HookRan("connect", r)
       /\ egress' = IF r.said = "trapped" THEN r.out ELSE Advance(r.out)
       /\ toClient' = (IF r.said = "trapped" THEN <<>> ELSE Egress(r.out))
                        \o (IF r.said = "ok" THEN <<>> ELSE <<Bye>>)
       /\ resident' = (r.said = "ok") /\ open' = (r.said = "ok")
       /\ server' = IF r.said = "ok" THEN "up" ELSE "closed"
  /\ UNCHANGED <<toServer, channelVars>>

(***************************************************************************)
(* onMessage: nothing after a refusal or a trap.  A frame that does not    *)
(* fit in the ring is a trap without a hook.                               *)
(***************************************************************************)
Receives == server \in {"up", "closing"} /\ toServer # <<>> /\ Head(toServer) # Bye

(* Mutant: the refused socket still listens.                               *)
NoBox == ~resident
Deaf  == ~open

MessageIgnored ==
  /\ Receives /\ Deaf
  /\ toServer' = Tail(toServer)
  /\ UNCHANGED <<serverVars, channelVars, toClient>>

MessageTooLong ==
  /\ Receives /\ ~Deaf /\ ~Fits(ingress, Head(toServer).size)
  /\ toServer' = Tail(toServer) /\ toClient' = Append(toClient, Bye)
  /\ resident' = FALSE /\ open' = FALSE /\ server' = "closing"
  /\ UNCHANGED <<ingress, egress, heard, hooks, channelVars>>

Message ==
  /\ Receives /\ ~Deaf /\ Fits(ingress, Head(toServer).size)
  /\ toServer' = Tail(toServer)
  /\ \E r \in HookOutcomes(Put(ingress, Head(toServer)), egress) :
       /\ HookRan("message", r)
       /\ IF r.said = "ok"
          THEN /\ egress' = Advance(r.out)
               /\ toClient' = toClient \o Egress(r.out)
               /\ UNCHANGED <<resident, open, server>>
          ELSE /\ egress' = r.out
               /\ toClient' = Append(toClient, Bye)
               /\ resident' = (resident /\ r.said = "refused")
               /\ open' = FALSE /\ server' = "closing"
  /\ UNCHANGED channelVars

(***************************************************************************)
(* The close event of the socket, after either end closed it or the line   *)
(* dropped: @close once while there is a box, and what it stages goes      *)
(* nowhere.  The documentation has @disconnect for a line that dropped     *)
(* (docs/realtime/streams.md:65, 124); the host never runs that hook.      *)
(***************************************************************************)
CloseEvent ==
  /\ server = "closing" \/ (server = "up" /\ toServer # <<>> /\ Head(toServer) = Bye)
  /\ server' = "closed" /\ toServer' = <<>> /\ open' = FALSE /\ resident' = FALSE
  /\ toClient' = IF Ends(toClient) THEN toClient ELSE Append(toClient, Bye)
  /\ IF resident
     THEN \E r \in HookOutcomes(ingress, egress) : HookRan("close", r) /\ egress' = r.out
     ELSE UNCHANGED <<ingress, egress, heard, hooks>>
  /\ UNCHANGED channelVars

(* The network loses the end of what was on its way, in both directions;   *)
(* either end then has a close event as if the other had closed (Bye).     *)
LineDrops ==
  /\ server = "up" /\ page = "open" /\ ~Ends(toServer) /\ ~Ends(toClient)
  /\ \E i \in 0..Len(toServer), j \in 0..Len(toClient) :
       /\ toServer' = Append(SubSeq(toServer, 1, i), Bye)
       /\ toClient' = Append(SubSeq(toClient, 1, j), Bye)
  /\ UNCHANGED <<serverVars, channelVars>>

(***************************************************************************)
(* The page.  A closing WebSocket fires no message event.                  *)
(***************************************************************************)
PageOpens ==
  /\ page = "connecting" /\ server # "upgrade" /\ page' = "open"
  /\ UNCHANGED <<serverVars, toServer, toClient, listening, pending, sent, told>>

Listen ==
  /\ page # "connecting" /\ ~listening
  /\ listening' = TRUE /\ told' = told \o pending /\ pending' = <<>>
  /\ UNCHANGED <<serverVars, toServer, toClient, page, sent>>

Send ==
  /\ page = "open" /\ Len(sent) < MaxSends
  /\ \E size \in Sizes :
       LET frame == [n |-> Len(sent) + 1, size |-> size]
       IN sent' = Append(sent, frame) /\ toServer' = Append(toServer, frame)
  /\ UNCHANGED <<serverVars, toClient, page, listening, pending, told>>

PageMessage ==
  /\ page \in {"open", "closing"} /\ toClient # <<>> /\ Head(toClient) # Bye
  /\ toClient' = Tail(toClient)
  /\ \/ page = "closing" /\ UNCHANGED <<told, pending>>
     \/ page = "open" /\ listening /\ told' = Append(told, Head(toClient)) /\ UNCHANGED pending
     \/ page = "open" /\ ~listening /\ pending' = Append(pending, Head(toClient)) /\ UNCHANGED told
  /\ UNCHANGED <<serverVars, toServer, page, listening, sent>>

Close ==
  /\ page = "open" /\ page' = "closing" /\ toServer' = Append(toServer, Bye)
  /\ UNCHANGED <<serverVars, toClient, listening, pending, sent, told>>

PageCloseEvent ==
  /\ page \in {"open", "closing"} /\ toClient # <<>> /\ Head(toClient) = Bye
  /\ page' = "closed" /\ toClient' = <<>>
  /\ UNCHANGED <<serverVars, toServer, listening, pending, sent, told>>

StreamNext ==
  \/ UpgradeFails \/ Upgrade \/ MessageIgnored \/ MessageTooLong \/ Message
  \/ CloseEvent \/ LineDrops
  \/ PageOpens \/ Listen \/ Send \/ PageMessage \/ Close \/ PageCloseEvent

StreamSpec == StreamInit /\ [][StreamNext]_streamVars

(* What the page is given are the first of the frames the guest staged, in *)
(* their order, and what the guest reads the first of those the page sent: *)
(* no refusal, trap, frame too long, close or drop makes a hole.           *)
NoHoles == IsPrefix(told \o pending, egress.log) /\ IsPrefix(heard, sent)

(* @connect comes first and @close last; a trap ends the box, and after a  *)
(* refusal there is @close at most.                                        *)
HooksFollow ==
  \A i \in 1..Len(hooks) :
    /\ (hooks[i].hook = "connect") <=> (i = 1)
    /\ i < Len(hooks) =>
         /\ hooks[i].hook # "close" /\ hooks[i].said # "trapped"
         /\ hooks[i].said = "refused" => hooks[i].hook = "message" /\ hooks[i + 1].hook = "close"

(* A conversation over a stream keeps its order and its ends, whichever    *)
(* side closes, refuses, traps or is cut off while frames of both are on   *)
(* their way, and leaves no box behind (onMessage, onClose, egressDrain,   *)
(* ingressWrite, connectStream).  That the guest can tell a line that      *)
(* dropped from a close is no part of it: CloseEvent runs @close for both. *)
ConversationKept == NoHoles /\ HooksFollow /\ (server = "closed" => ~resident)
=============================================================================
