------------------------------ MODULE WorkerPool ------------------------------
(***************************************************************************)
(* The worker processes of `toiljs start` and the primary that runs their  *)
(* dynamic requests (src/src/devserver/production.ts, production-worker.ts,*)
(* production-ipc.ts).                                                     *)
(*                                                                         *)
(* A slot of the pool holds one process after another: each is forked,     *)
(* starts listening, says so, and may die at any time; the primary learns  *)
(* of it from the exit event.  Requests are numbered from 1 in every       *)
(* process, so two processes of one slot use the same numbers.  The pipe   *)
(* to the primary keeps its order; what a dead process left in it may be   *)
(* read or not before its exit event.                                      *)
(***************************************************************************)
EXTENDS Integers, Sequences, FiniteSets

CONSTANTS
  Workers,      (* slots of the pool                                     *)
  MaxRequests,  (* bound: requests of one process                        *)
  MaxClients,   (* bound: WebSocket clients of one process               *)
  MaxPipe,      (* bound: messages of a process the primary has not read *)
  MaxDeaths     (* bound: processes that die by themselves               *)

ASSUME WorkerPoolAssumption ==
  /\ MaxRequests \in Nat /\ MaxClients \in Nat /\ MaxPipe \in Nat /\ MaxDeaths \in Nat

VARIABLES
  phase,    (* boot, run, closing, closed: startThreadedBuiltServer      *)
  proc,     (* process of each slot: starting, up, dead, none            *)
  life,     (* which process of its slot it is                           *)
  pipe,     (* messages of the process to the primary                    *)
  ready,    (* the primary has read its ready                            *)
  booted,   (* slots whose first process was ready once                  *)
  told,     (* slots that were sent shutdown                             *)
  clients,  (* open WebSockets of the process                            *)
  counts,   (* clientCounts of the primary, Unknown when deleted         *)
  sent,     (* requests the process has numbered                         *)
  waiting,  (* pending: numbers the process waits for, and whose they are *)
  work,     (* requests the primary is running: the process to answer,   *)
            (* the number it gave, and whose request it is               *)
  replies,  (* replies on their way to a process, the same               *)
  got,      (* history: the request each reply resolved, and its own     *)
  deaths    (* processes that died by themselves so far                  *)

pool == <<phase, proc, life, ready, booted, told, deaths>>
web  == <<clients, counts>>
rpc  == <<sent, waiting, work, replies, got>>
vars == <<pool, pipe, web, rpc>>

Unknown == -1
Ids     == 1..MaxRequests
Alive(w) == proc[w] \in {"starting", "up"}
Call(w, n) == [w |-> w, life |-> life[w], id |-> n]
Sockets(n) == {x \in Workers \X (1..MaxClients) : x[2] <= n[x[1]]}
Total    == Cardinality(Sockets(counts))

Init ==
  /\ phase = "boot"
  /\ proc = [w \in Workers |-> "starting"]
  /\ life = [w \in Workers |-> 1]
  /\ pipe = [w \in Workers |-> <<>>]
  /\ ready = [w \in Workers |-> FALSE]
  /\ booted = {} /\ told = {}
  /\ clients = [w \in Workers |-> 0]
  /\ counts = [w \in Workers |-> 0]
  /\ sent = [w \in Workers |-> 0]
  /\ waiting = [w \in Workers |-> {}]
  /\ work = {} /\ replies = {} /\ got = {}
  /\ deaths = 0

-----------------------------------------------------------------------------
(* The process                                                             *)

Tell(w, m) == pipe' = [pipe EXCEPT ![w] = Append(@, m)]

(* start: the server listens, then ready is sent.                          *)
Listen(w) ==
  /\ proc[w] = "starting"
  /\ proc' = [proc EXCEPT ![w] = "up"]
  /\ Tell(w, [toil |-> "ready", n |-> 0])
  /\ UNCHANGED <<phase, life, ready, booted, told, deaths, web, rpc>>

(* A WebSocket opens or closes.                                            *)
Clients(w, n) ==
  /\ proc[w] = "up" /\ Len(pipe[w]) < MaxPipe
  /\ n \in 0..MaxClients /\ n \in {clients[w] - 1, clients[w] + 1}
  /\ clients' = [clients EXCEPT ![w] = n]
  /\ Tell(w, [toil |-> "clientCount", n |-> n])
  /\ UNCHANGED <<pool, counts, rpc>>

(* nextRequestId++: every process counts from 1.                           *)
Number(w) == sent[w] + 1

(* requestPrimary: only the number goes to the primary and comes back;     *)
(* "of", which request of which process it is, is carried along to compare.*)
(* A number used twice would take the place of the first in the map.       *)
Ask(w) ==
  LET p == [id |-> Number(w), of |-> Call(w, sent[w] + 1)]
  IN  /\ proc[w] = "up" /\ Len(pipe[w]) < MaxPipe /\ sent[w] < MaxRequests
      /\ sent' = [sent EXCEPT ![w] = @ + 1]
      /\ waiting' = [waiting EXCEPT ![w] = {e \in @ : e.id # p.id} \cup {p}]
      /\ Tell(w, [toil |-> "request", n |-> p.id, of |-> p.of])
      /\ UNCHANGED <<pool, web, work, replies, got>>

(* The reply arrives at the process it was sent to, if that one is there,  *)
(* and resolves what waits under its number, if anything does.             *)
Reply(m) ==
  LET here == {p \in waiting[m.w] : p.id = m.id}
  IN  /\ m \in replies
      /\ replies' = replies \ {m}
      /\ IF Alive(m.w) /\ life[m.w] = m.life
         THEN /\ waiting' = [waiting EXCEPT ![m.w] = @ \ here]
              /\ got' = got \cup {[asked |-> p.of, answered |-> m.of] : p \in here}
         ELSE UNCHANGED <<waiting, got>>
      /\ UNCHANGED <<pool, pipe, web, sent, work>>

(* The request waited 120 s; the client gets an error, the primary is not  *)
(* told.                                                                   *)
Timeout(w, p) ==
  /\ Alive(w) /\ p \in waiting[w]
  /\ waiting' = [waiting EXCEPT ![w] = @ \ {p}]
  /\ UNCHANGED <<pool, pipe, web, sent, work, replies, got>>

(* The process is gone: by itself, by shutdown, or by SIGTERM.             *)
Gone(w) ==
  /\ Alive(w)
  /\ proc' = [proc EXCEPT ![w] = "dead"]
  /\ waiting' = [waiting EXCEPT ![w] = {}]
  /\ clients' = [clients EXCEPT ![w] = 0]
  /\ UNCHANGED <<phase, life, ready, booted, told, pipe, counts, sent, work, replies, got>>

Die(w)      == deaths < MaxDeaths /\ deaths' = deaths + 1 /\ Gone(w)

(* Mutant: it waits for its clients to leave, and no timer kills it.       *)
ShutdownIdle(w) == w \in told /\ clients[w] = 0 /\ UNCHANGED deaths /\ Gone(w)

Shutdown(w) == w \in told /\ UNCHANGED deaths /\ Gone(w)

-----------------------------------------------------------------------------
(* The primary                                                             *)

(* It reads the next message of a process; handleMessage keeps that        *)
(* process, whatever is in its slot when the request has been run.         *)
Read(w) ==
  /\ pipe[w] # <<>>
  /\ pipe' = [pipe EXCEPT ![w] = Tail(@)]
  /\ LET m == Head(pipe[w])
     IN  /\ ready'  = [ready EXCEPT ![w] = @ \/ m.toil = "ready"]
         /\ booted' = IF m.toil = "ready" THEN booted \cup {w} ELSE booted
         /\ counts' = IF m.toil = "clientCount" THEN [counts EXCEPT ![w] = m.n] ELSE counts
         /\ work'   = IF m.toil = "request"
                      THEN work \cup {[w |-> w, life |-> life[w], id |-> m.n, of |-> m.of]}
                      ELSE work
  /\ UNCHANGED <<phase, proc, life, told, deaths, clients, sent, waiting, replies, got>>

(* A request is answered: to the process it came from, alive or not.       *)
(* Mutant: to the process that has the slot now.                           *)
AnswerSlot(call) ==
  /\ call \in work
  /\ work' = work \ {call}
  /\ replies' = replies \cup {[call EXCEPT !.life = life[call.w]]}
  /\ UNCHANGED <<pool, pipe, web, sent, waiting, got>>

Answer(call) ==
  /\ call \in work
  /\ work' = work \ {call}
  /\ replies' = replies \cup {call}
  /\ UNCHANGED <<pool, pipe, web, sent, waiting, got>>

(* spawnWorker: the next process of the slot.                              *)
(* Mutant: the count of the last one stays.                                *)
SpawnStale(w) ==
  /\ proc' = [proc EXCEPT ![w] = "starting"]
  /\ life' = [life EXCEPT ![w] = @ + 1]
  /\ ready' = [ready EXCEPT ![w] = FALSE]
  /\ UNCHANGED counts
  /\ sent' = [sent EXCEPT ![w] = 0]

Spawn(w) ==
  /\ proc' = [proc EXCEPT ![w] = "starting"]
  /\ life' = [life EXCEPT ![w] = @ + 1]
  /\ ready' = [ready EXCEPT ![w] = FALSE]
  /\ counts' = [counts EXCEPT ![w] = 0]
  /\ sent' = [sent EXCEPT ![w] = 0]

Forget(w) ==
  /\ proc' = [proc EXCEPT ![w] = "none"]
  /\ counts' = [counts EXCEPT ![w] = Unknown]
  /\ UNCHANGED <<life, ready, sent>>

(* The exit event: a process that was ready is replaced; the first one of  *)
(* its slot, never ready, fails the boot; a later one is not replaced.     *)
Exit(w) ==
  /\ proc[w] = "dead"
  /\ pipe' = [pipe EXCEPT ![w] = <<>>]
  /\ IF ready[w] /\ phase \in {"boot", "run"} THEN Spawn(w) ELSE Forget(w)
  /\ IF phase = "boot" /\ w \notin booted
     THEN phase' = "closing" /\ told' = {v \in Workers \ {w} : proc[v] # "none"}
     ELSE UNCHANGED <<phase, told>>
  /\ UNCHANGED <<booted, deaths, clients, waiting, work, replies, got>>

(* Every first process was ready: the server is returned.                  *)
Boot ==
  /\ phase = "boot" /\ booted = Workers
  /\ phase' = "run"
  /\ UNCHANGED <<proc, life, ready, booted, told, deaths, pipe, web, rpc>>

(* close: every process of the pool is sent shutdown.                      *)
Close ==
  /\ phase = "run"
  /\ phase' = "closing"
  /\ told' = {w \in Workers : proc[w] # "none"}
  /\ UNCHANGED <<proc, life, ready, booted, deaths, pipe, web, rpc>>

(* stopWorker settled for all: each exited, or was killed after 1.5 s,     *)
(* which Shutdown stands for too.                                          *)
Closed ==
  /\ phase = "closing"
  /\ \A w \in told : ~Alive(w)
  /\ phase' = "closed"
  /\ UNCHANGED <<proc, life, ready, booted, told, deaths, pipe, web, rpc>>

Next ==
  \/ \E w \in Workers :
        \/ Listen(w) \/ Ask(w) \/ Die(w) \/ Shutdown(w) \/ Read(w) \/ Exit(w)
        \/ \E n \in 0..MaxClients : Clients(w, n)
        \/ \E p \in waiting[w] : Timeout(w, p)
  \/ \E m \in replies : Reply(m)
  \/ \E call \in work : Answer(call)
  \/ Boot \/ Close \/ Closed

Spec == Init /\ [][Next]_vars

(* Events of the loop are handled, a shutdown ends in an exit or in the    *)
(* kill of the hard timer, and a process either listens or dies.           *)
FairSpec ==
  /\ Spec
  /\ \A w \in Workers : WF_vars(Listen(w)) /\ WF_vars(Shutdown(w))
                          /\ WF_vars(Read(w)) /\ WF_vars(Exit(w))
  /\ WF_vars(Boot) /\ WF_vars(Closed)

-----------------------------------------------------------------------------
(* Properties                                                              *)

(* The shape of every variable.                                            *)
Calls == [w : Workers, life : 1..(MaxDeaths + 1), id : Ids]
Posts == [w : Workers, life : 1..(MaxDeaths + 1), id : Ids, of : Calls]
TypeOK ==
  /\ phase \in {"boot", "run", "closing", "closed"}
  /\ proc \in [Workers -> {"starting", "up", "dead", "none"}]
  /\ life \in [Workers -> 1..(MaxDeaths + 1)]
  /\ \A w \in Workers : Len(pipe[w]) <= MaxPipe + 1
  /\ ready \in [Workers -> BOOLEAN]
  /\ booted \subseteq Workers /\ told \subseteq Workers
  /\ clients \in [Workers -> 0..MaxClients]
  /\ counts \in [Workers -> Unknown..MaxClients]
  /\ sent \in [Workers -> 0..MaxRequests]
  /\ waiting \in [Workers -> SUBSET [id : Ids, of : Calls]]
  /\ work \subseteq Posts /\ replies \subseteq Posts
  /\ got \subseteq [asked : Calls, answered : Calls]
  /\ deaths \in 0..MaxDeaths

(* A request that waits is on its way: in the pipe of its process, at      *)
(* work, or answered to that process.                                      *)
Request(p) == [toil |-> "request", n |-> p.id, of |-> p.of]
Underway(w, p) ==
  \/ \E i \in 1..Len(pipe[w]) : pipe[w][i] = Request(p)
  \/ [w |-> w, life |-> life[w], id |-> p.id, of |-> p.of] \in work \cup replies

(* However often a slot changes hands: the numbers a dead process gave are *)
(* given again by the next one, and yet a reply resolves the very request  *)
(* the primary ran it for, and no request that waits is forgotten.         *)
OwnReply ==
  /\ \A g \in got : g.asked = g.answered
  /\ \A w \in Workers : \A p \in waiting[w] : Underway(w, p)

(* clientCount() is right once the primary has read everything: no count   *)
(* of a dead process remains, none of a live one is missing.               *)
CountSettles ==
  (\A w \in Workers : pipe[w] = <<>> /\ proc[w] # "dead")
     => Total = Cardinality(Sockets(clients))

(* Once close() has returned, or the boot has failed, no process is left.  *)
NoOrphan == phase = "closed" => \A w \in Workers : ~Alive(w)

(* close(), and a boot that fails, come to an end, whatever the processes  *)
(* that were told to leave are doing, and from then on no process is left  *)
(* and none is started, whoever died while the pool was being closed.      *)
CloseEnds == phase = "closing" ~> [](phase = "closed" /\ NoOrphan)
=============================================================================
