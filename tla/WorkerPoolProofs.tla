-------------------------- MODULE WorkerPoolProofs --------------------------
(***************************************************************************)
(* Proofs about WorkerPool, for any number of slots, requests, clients and *)
(* deaths: replies, counts, and what is left when close() has returned.    *)
(***************************************************************************)
EXTENDS WorkerPool, SequenceTheorems, TLAPS

-----------------------------------------------------------------------------
(* The inductive invariant                                                 *)

Message ==
  [toil : {"ready"}, n : {0}] \cup [toil : {"clientCount"}, n : 0..MaxClients]
    \cup [toil : {"request"}, n : Ids, of : Calls]

(* Nothing is in the pipe before the process listens.                      *)
Pipes ==
  /\ pipe \in [Workers -> Seq(Message)]
  /\ \A w \in Workers : proc[w] = "starting" => pipe[w] = <<>>

(* Processes are replaced only when they died by themselves, and before    *)
(* anyone was told to leave.                                               *)
Lives ==
  /\ phase \in {"boot", "run"} => told = {}
  /\ \A w \in Workers : life[w] <= deaths + 1
  /\ \A w \in Workers : proc[w] = "dead" /\ phase \in {"boot", "run"} => life[w] <= deaths

(* Who is left was told to leave, and in the end nobody is.                *)
Leaving ==
  /\ \A w \in Workers : ready[w] => w \in booted
  /\ phase = "closing" => \A w \in Workers : Alive(w) => w \in told
  /\ NoOrphan

(* n is the last count in the pipe, or else the one that is known.         *)
CountIs(s, known, n) ==
  /\ \A i \in 1..Len(s) :
       /\ s[i].toil = "clientCount"
       /\ \A j \in (i + 1)..Len(s) : s[j].toil # "clientCount"
       => s[i].n = n
  /\ (\A i \in 1..Len(s) : s[i].toil # "clientCount") => known = n

Counts ==
  /\ \A w \in Workers : Alive(w) => CountIs(pipe[w], counts[w], clients[w])
  /\ \A w \in Workers : proc[w] # "up" => clients[w] = 0
  /\ \A w \in Workers : proc[w] = "none" => counts[w] = Unknown /\ pipe[w] = <<>>

(* A process waits only while it is up, and for requests that are on their *)
(* way.                                                                    *)
NoneLost ==
  \A w \in Workers : \A p \in waiting[w] : proc[w] = "up" /\ Underway(w, p)

(* Whoever holds a number, holds it for the request that was given it.     *)
Named(c) == c.of = [w |-> c.w, life |-> c.life, id |-> c.id]

Numbers ==
  /\ \A w \in Workers : \A p \in waiting[w] : p.of = Call(w, p.id)
  /\ \A w \in Workers : \A i \in 1..Len(pipe[w]) :
       pipe[w][i].toil = "request" => pipe[w][i].of = Call(w, pipe[w][i].n)
  /\ \A c \in work \cup replies : Named(c)
  /\ \A g \in got : g.asked = g.answered

IInv == TypeOK /\ Pipes /\ Lives /\ Leaving /\ Counts /\ NoneLost /\ Numbers

-----------------------------------------------------------------------------
(* The pipe                                                                *)

LEMMA Appended ==
  ASSUME NEW s \in Seq(Message), NEW m \in Message
  PROVE  /\ Append(s, m) \in Seq(Message)
         /\ Len(Append(s, m)) = Len(s) + 1
         /\ Append(s, m)[Len(s) + 1] = m
         /\ \A i \in 1..Len(s) : Append(s, m)[i] = s[i]
OBVIOUS

LEMMA Taken ==
  ASSUME NEW s \in Seq(Message), s # <<>>
  PROVE  /\ Tail(s) \in Seq(Message) /\ Head(s) \in Message /\ Head(s) = s[1]
         /\ Len(s) \in Nat \ {0} /\ Len(Tail(s)) = Len(s) - 1
         /\ \A i \in 1..(Len(s) - 1) : Tail(s)[i] = s[i + 1]
OBVIOUS

(* Another message leaves the count as it is.                              *)
LEMMA CountAfterOther ==
  ASSUME NEW s \in Seq(Message), NEW m \in Message, m.toil # "clientCount",
         NEW known, NEW n, CountIs(s, known, n)
  PROVE  CountIs(Append(s, m), known, n)
<1> DEFINE t == Append(s, m)
<1>1. Len(s) \in Nat
  OBVIOUS
<1>2. ASSUME NEW i \in 1..Len(t), t[i].toil = "clientCount",
             \A j \in (i + 1)..Len(t) : t[j].toil # "clientCount"
      PROVE  t[i].n = n
  <2>1. i \in 1..Len(s) /\ t[i] = s[i]
    BY <1>1, <1>2, Appended
  <2>2. \A j \in (i + 1)..Len(s) : s[j].toil # "clientCount"
    BY <1>1, <1>2, <2>1, Appended
  <2>3. QED
    BY <1>2, <2>1, <2>2 DEF CountIs
<1>3. ASSUME \A i \in 1..Len(t) : t[i].toil # "clientCount"
      PROVE  known = n
  <2>1. \A i \in 1..Len(s) : s[i].toil # "clientCount"
    BY <1>1, <1>3, Appended
  <2>2. QED
    BY <2>1 DEF CountIs
<1>4. QED
  BY <1>2, <1>3 DEF CountIs

(* A new count is the last one.                                            *)
LEMMA CountAfterCount ==
  ASSUME NEW s \in Seq(Message), NEW n \in 0..MaxClients, NEW known
  PROVE  CountIs(Append(s, [toil |-> "clientCount", n |-> n]), known, n)
<1> DEFINE m == [toil |-> "clientCount", n |-> n]
           t == Append(s, m)
<1>1. m \in Message /\ Len(s) \in Nat
  BY DEF Message
<1>2. Len(t) = Len(s) + 1 /\ t[Len(s) + 1] = m
  BY <1>1, Appended
<1>3. QED
  BY <1>1, <1>2 DEF CountIs

(* Reading a message keeps the count, whether it is one or not.            *)
LEMMA CountAfterRead ==
  ASSUME NEW s \in Seq(Message), s # <<>>, NEW known, NEW n, CountIs(s, known, n)
  PROVE  CountIs(Tail(s), IF Head(s).toil = "clientCount" THEN Head(s).n ELSE known, n)
<1> DEFINE t == Tail(s)
           k == IF Head(s).toil = "clientCount" THEN Head(s).n ELSE known
<1>1. /\ Head(s) = s[1] /\ Len(s) \in Nat \ {0} /\ Len(t) = Len(s) - 1
      /\ \A i \in 1..(Len(s) - 1) : t[i] = s[i + 1]
  BY Taken
<1>2. ASSUME NEW i \in 1..Len(t), t[i].toil = "clientCount",
             \A j \in (i + 1)..Len(t) : t[j].toil # "clientCount"
      PROVE  t[i].n = n
  <2>1. i + 1 \in 1..Len(s) /\ t[i] = s[i + 1]
    BY <1>1, <1>2
  <2>2. \A j \in (i + 2)..Len(s) : s[j].toil # "clientCount"
    <3>1. ASSUME NEW j \in (i + 2)..Len(s) PROVE s[j].toil # "clientCount"
      <4>1. j - 1 \in (i + 1)..Len(t) /\ t[j - 1] = s[j]
        BY <1>1, <1>2, <3>1
      <4>2. QED
        BY <1>2, <4>1
    <3>2. QED
      BY <3>1
  <2>3. QED
    BY <1>2, <2>1, <2>2 DEF CountIs
<1>3. ASSUME \A i \in 1..Len(t) : t[i].toil # "clientCount"
      PROVE  k = n
  <2>1. \A j \in 2..Len(s) : s[j].toil # "clientCount"
    <3>1. ASSUME NEW j \in 2..Len(s) PROVE s[j].toil # "clientCount"
      <4>1. j - 1 \in 1..Len(t) /\ t[j - 1] = s[j]
        BY <1>1, <3>1
      <4>2. QED
        BY <1>3, <4>1
    <3>2. QED
      BY <3>1
  <2>2. CASE s[1].toil = "clientCount"
    BY <1>1, <2>1, <2>2 DEF CountIs
  <2>3. CASE s[1].toil # "clientCount"
    BY <1>1, <2>1, <2>3 DEF CountIs
  <2>4. QED
    BY <2>2, <2>3
<1>4. QED
  BY <1>2, <1>3 DEF CountIs

(* A message in the pipe stays there until it is read.                     *)
LEMMA HasAfterAppend ==
  ASSUME NEW s \in Seq(Message), NEW m \in Message, NEW x,
         x = m \/ \E i \in 1..Len(s) : s[i] = x
  PROVE  \E i \in 1..Len(Append(s, m)) : Append(s, m)[i] = x
<1>1. Len(s) \in Nat
  OBVIOUS
<1>2. QED
  BY <1>1, Appended

LEMMA HasAfterRead ==
  ASSUME NEW s \in Seq(Message), s # <<>>, NEW i \in 1..Len(s), s[i] # Head(s)
  PROVE  \E j \in 1..Len(Tail(s)) : Tail(s)[j] = s[i]
<1>1. i # 1 /\ i - 1 \in 1..Len(Tail(s)) /\ Tail(s)[i - 1] = s[i]
  BY Taken
<1>2. QED
  BY <1>1

-----------------------------------------------------------------------------
(* Every step keeps the invariant                                          *)

LEMMA Initially == WorkerPoolAssumption /\ Init => IInv
<1> SUFFICES ASSUME WorkerPoolAssumption, Init PROVE IInv
  OBVIOUS
<1>1. TypeOK
  BY DEF WorkerPoolAssumption, Init, TypeOK, Unknown
<1>2. Pipes
  BY DEF Init, Pipes
<1>3. Counts
  BY DEF Init, Counts, CountIs, Alive
<1>4. QED
  BY <1>1, <1>2, <1>3 DEF Init, IInv, Lives, Leaving, NoOrphan, NoneLost, Numbers

(* What Ask puts into the pipe.                                            *)
LEMMA Asked ==
  ASSUME WorkerPoolAssumption, IInv, NEW w \in Workers, Ask(w)
  PROVE  LET p == [id |-> Number(w), of |-> Call(w, sent[w] + 1)]
             m == Request(p)
         IN  /\ m \in Message /\ m.toil # "clientCount" /\ pipe[w] \in Seq(Message)
             /\ p \in [id : Ids, of : Calls] /\ sent[w] + 1 \in 0..MaxRequests
             /\ pipe' = [pipe EXCEPT ![w] = Append(pipe[w], m)]
<1>1. sent[w] + 1 \in Ids /\ sent[w] + 1 \in 0..MaxRequests
  BY DEF WorkerPoolAssumption, IInv, TypeOK, Ask, Ids
<1>2. Call(w, sent[w] + 1) \in Calls
  BY <1>1 DEF IInv, TypeOK, Call, Calls
<1>3. pipe \in [Workers -> Seq(Message)]
  BY DEF IInv, Pipes
<1>4. QED
  BY <1>1, <1>2, <1>3 DEF Ask, Tell, Number, Request, Message

(* Shapes.                                                                 *)
LEMMA TypesKept ==
  ASSUME WorkerPoolAssumption, IInv, [Next]_vars
  PROVE  TypeOK' /\ Pipes'
<1> USE DEF WorkerPoolAssumption, IInv
<1>0. \A v \in Workers : Len(pipe[v]) \in Nat /\ Len(pipe[v]) <= MaxPipe + 1
  BY DEF Pipes, TypeOK
<1>1. ASSUME NEW w \in Workers, Listen(w) PROVE TypeOK' /\ Pipes'
  <2>1. pipe[w] = <<>> /\ Len(<<>>) = 0 /\ [toil |-> "ready", n |-> 0] \in Message
    BY <1>1 DEF Listen, Pipes, Message
  <2>2. pipe' = [pipe EXCEPT ![w] = Append(<<>>, [toil |-> "ready", n |-> 0])]
    BY <1>1, <2>1 DEF Listen, Tell, Pipes
  <2>3. /\ Append(<<>>, [toil |-> "ready", n |-> 0]) \in Seq(Message)
        /\ Len(Append(<<>>, [toil |-> "ready", n |-> 0])) = 1
    BY <2>1, Appended
  <2>4. Pipes'
    <3>1. proc' = [proc EXCEPT ![w] = "up"]
      BY <1>1 DEF Listen
    <3>2. \A v \in Workers \ {w} : proc'[v] = proc[v] /\ pipe'[v] = pipe[v]
      BY <2>2, <3>1 DEF Pipes, TypeOK
    <3>3. proc'[w] # "starting"
      BY <3>1 DEF TypeOK
    <3>4. pipe' \in [Workers -> Seq(Message)]
      BY <2>2, <2>3 DEF Pipes
    <3>5. QED
      BY <3>2, <3>3, <3>4 DEF Pipes
  <2>5. TypeOK'
    <3>1. pipe'[w] = Append(<<>>, [toil |-> "ready", n |-> 0])
      BY <2>2 DEF Pipes
    <3>2. \A v \in Workers : Len(pipe'[v]) <= MaxPipe + 1
      <4>1. Len(pipe'[w]) = 1
        BY <2>3, <3>1
      <4>2. \A v \in Workers \ {w} : pipe'[v] = pipe[v]
        BY <2>2 DEF Pipes
      <4>3. 1 <= MaxPipe + 1
        OBVIOUS
      <4>4. QED
        BY <1>0, <4>1, <4>2, <4>3
    <3>3. proc' \in [Workers -> {"starting", "up", "dead", "none"}]
      BY <1>1 DEF Listen, TypeOK
    <3>4. QED
      BY <1>1, <3>2, <3>3 DEF Listen, TypeOK, pool, web, rpc
  <2>6. QED
    BY <2>4, <2>5
<1>2. ASSUME NEW w \in Workers, Ask(w) PROVE TypeOK' /\ Pipes'
  <2> DEFINE p == [id |-> Number(w), of |-> Call(w, sent[w] + 1)]
             m == Request(p)
  <2>1. /\ m \in Message /\ m.toil # "clientCount" /\ pipe[w] \in Seq(Message)
        /\ p \in [id : Ids, of : Calls] /\ sent[w] + 1 \in 0..MaxRequests
        /\ pipe' = [pipe EXCEPT ![w] = Append(pipe[w], m)]
    BY <1>2, Asked
  <2>2. pipe' = [pipe EXCEPT ![w] = Append(pipe[w], m)]
    BY <2>1
  <2>3. Append(pipe[w], m) \in Seq(Message) /\ Len(Append(pipe[w], m)) = Len(pipe[w]) + 1
    BY <2>1, Appended
  <2>4. Pipes'
    BY <1>2, <2>2, <2>3 DEF Ask, Pipes, pool
  <2>5. TypeOK'
    <3>1. \A v \in Workers : Len(pipe'[v]) <= MaxPipe + 1
      <4>1. Len(pipe[w]) < MaxPipe
        BY <1>2 DEF Ask
      <4>2. /\ pipe'[w] = Append(pipe[w], m)
            /\ \A v \in Workers \ {w} : pipe'[v] = pipe[v]
        BY <2>2 DEF Pipes
      <4> HIDE DEF m
      <4>3. Len(pipe'[w]) = Len(pipe[w]) + 1
        BY <2>3, <4>2
      <4>4. QED
        BY <1>0, <4>1, <4>2, <4>3
    <3>2. sent' \in [Workers -> 0..MaxRequests] /\ waiting' \in [Workers -> SUBSET [id : Ids, of : Calls]]
      <4>1. /\ sent' = [sent EXCEPT ![w] = sent[w] + 1]
            /\ waiting' = [waiting EXCEPT ![w] = {e \in waiting[w] : e.id # p.id} \cup {p}]
        BY <1>2 DEF Ask, TypeOK
      <4> HIDE DEF p
      <4>2. QED
        BY <2>1, <4>1 DEF TypeOK
    <3>3. QED
      BY <1>2, <3>1, <3>2 DEF Ask, TypeOK, pool, web, rpc
  <2>6. QED
    BY <2>4, <2>5
<1>g. ASSUME NEW w \in Workers, Gone(w), deaths' \in 0..MaxDeaths PROVE TypeOK' /\ Pipes'
  <2>1. /\ UNCHANGED <<phase, life, ready, booted, told, pipe, counts, sent, work, replies, got>>
        /\ proc' = [proc EXCEPT ![w] = "dead"]
    BY <1>g DEF Gone
  <2>2. waiting' \in [Workers -> SUBSET [id : Ids, of : Calls]] /\ clients' \in [Workers -> 0..MaxClients]
    BY <1>g DEF Gone, TypeOK
  <2>3. proc' \in [Workers -> {"starting", "up", "dead", "none"}]
    BY <2>1 DEF TypeOK
  <2>4. Pipes'
    BY <2>1 DEF TypeOK, Pipes
  <2>5. QED
    BY <1>g, <2>1, <2>2, <2>3, <2>4 DEF TypeOK
<1>3. ASSUME NEW w \in Workers, Die(w) PROVE TypeOK' /\ Pipes'
  <2>1. Gone(w) /\ deaths' \in 0..MaxDeaths
    BY <1>3 DEF Die, TypeOK
  <2>2. QED
    BY <1>g, <2>1
<1>4. ASSUME NEW w \in Workers, Shutdown(w) PROVE TypeOK' /\ Pipes'
  <2>1. Gone(w) /\ deaths' \in 0..MaxDeaths
    BY <1>4 DEF Shutdown, TypeOK
  <2>2. QED
    BY <1>g, <2>1
<1>5. ASSUME NEW w \in Workers, Read(w) PROVE TypeOK' /\ Pipes'
  <2>1. pipe[w] \in Seq(Message) /\ pipe[w] # <<>> /\ pipe' = [pipe EXCEPT ![w] = Tail(pipe[w])]
    BY <1>5 DEF Read, Pipes
  <2>2. /\ Tail(pipe[w]) \in Seq(Message) /\ Head(pipe[w]) \in Message
        /\ Len(Tail(pipe[w])) = Len(pipe[w]) - 1 /\ Len(pipe[w]) \in Nat
    BY <2>1, Taken
  <2>3. Pipes'
    <3>1. pipe' \in [Workers -> Seq(Message)]
      BY <2>1, <2>2 DEF Pipes
    <3>2. UNCHANGED proc /\ \A v \in Workers : pipe'[v] = <<>> \/ pipe'[v] = pipe[v] \/ v = w
      BY <1>5, <2>1 DEF Read, Pipes
    <3>3. QED
      BY <2>1, <3>1, <3>2 DEF Pipes
  <2>4. counts' \in [Workers -> Unknown..MaxClients]
    <3> DEFINE h == Head(pipe[w])
    <3>1. counts' = IF h.toil = "clientCount" THEN [counts EXCEPT ![w] = h.n] ELSE counts
      BY <1>5 DEF Read
    <3>2. h \in Message
      BY <2>2
    <3> HIDE DEF h
    <3>3. h.toil = "clientCount" => h.n \in 0..MaxClients
      BY <3>2 DEF Message
    <3>4. QED
      BY <3>1, <3>3 DEF TypeOK, Unknown
  <2>5. work' \subseteq Posts
    <3> DEFINE h == Head(pipe[w])
               c == [w |-> w, life |-> life[w], id |-> h.n, of |-> h.of]
    <3>1. h.toil = "request" => h.n \in Ids /\ h.of \in Calls
      BY <2>2 DEF Message
    <3>2. h.toil = "request" => c \in Posts
      BY <3>1 DEF TypeOK, Posts
    <3>3. work' = IF h.toil = "request" THEN work \cup {c} ELSE work
      BY <1>5 DEF Read
    <3> HIDE DEF h, c
    <3>4. QED
      BY <3>2, <3>3 DEF TypeOK
  <2>6. ready' \in [Workers -> BOOLEAN] /\ booted' \subseteq Workers
    BY <1>5 DEF Read, TypeOK
  <2>7. \A v \in Workers : Len(pipe'[v]) <= MaxPipe + 1
    <3>1. /\ pipe'[w] = Tail(pipe[w])
          /\ \A v \in Workers \ {w} : pipe'[v] = pipe[v]
      BY <2>1 DEF Pipes
    <3>2. Len(pipe'[w]) = Len(pipe[w]) - 1
      BY <2>2, <3>1
    <3>3. Len(pipe'[w]) <= MaxPipe + 1
      BY <1>0, <3>2
    <3>4. \A v \in Workers \ {w} : Len(pipe'[v]) <= MaxPipe + 1
      BY <1>0, <3>1
    <3>5. QED
      BY <3>3, <3>4
  <2>8. TypeOK'
    BY <1>5, <2>4, <2>5, <2>6, <2>7 DEF Read, TypeOK
  <2>9. QED
    BY <2>3, <2>8
<1>6. ASSUME NEW w \in Workers, Exit(w) PROVE TypeOK' /\ Pipes'
  <2>1. Pipes'
    <3>1. pipe' = [pipe EXCEPT ![w] = <<>>] /\ <<>> \in Seq(Message)
      BY <1>6 DEF Exit
    <3>2. \A v \in Workers \ {w} : proc'[v] = proc[v]
      BY <1>6 DEF Exit, Spawn, Forget, TypeOK
    <3>3. QED
      BY <3>1, <3>2 DEF Pipes
  <2>2. \A v \in Workers : Len(pipe'[v]) <= MaxPipe + 1
    <3>1. pipe' = [pipe EXCEPT ![w] = <<>>] /\ Len(<<>>) = 0
      BY <1>6 DEF Exit
    <3>2. pipe'[w] = <<>> /\ \A v \in Workers \ {w} : pipe'[v] = pipe[v]
      BY <3>1 DEF Pipes
    <3>3. QED
      BY <1>0, <3>1, <3>2
  <2>3. /\ phase' \in {"boot", "run", "closing", "closed"} /\ told' \subseteq Workers
        /\ UNCHANGED <<booted, deaths, clients, waiting, work, replies, got>>
    BY <1>6 DEF Exit, TypeOK
  <2>4. CASE ready[w] /\ phase \in {"boot", "run"}
    <3>1. life[w] + 1 \in 1..(MaxDeaths + 1)
      BY <1>6, <2>4 DEF Exit, Lives, TypeOK
    <3>2. /\ proc' = [proc EXCEPT ![w] = "starting"] /\ life' = [life EXCEPT ![w] = @ + 1]
          /\ ready' = [ready EXCEPT ![w] = FALSE] /\ counts' = [counts EXCEPT ![w] = 0]
          /\ sent' = [sent EXCEPT ![w] = 0]
      BY <1>6, <2>4 DEF Exit, Spawn
    <3>3. /\ proc' \in [Workers -> {"starting", "up", "dead", "none"}]
          /\ life' \in [Workers -> 1..(MaxDeaths + 1)] /\ ready' \in [Workers -> BOOLEAN]
          /\ counts' \in [Workers -> Unknown..MaxClients] /\ sent' \in [Workers -> 0..MaxRequests]
      BY <3>1, <3>2 DEF TypeOK, Unknown
    <3>4. QED
      BY <2>1, <2>2, <2>3, <3>3 DEF TypeOK
  <2>5. CASE ~(ready[w] /\ phase \in {"boot", "run"})
    <3>1. /\ proc' = [proc EXCEPT ![w] = "none"] /\ counts' = [counts EXCEPT ![w] = Unknown]
          /\ UNCHANGED <<life, ready, sent>>
      BY <1>6, <2>5 DEF Exit, Forget
    <3>2. /\ proc' \in [Workers -> {"starting", "up", "dead", "none"}]
          /\ counts' \in [Workers -> Unknown..MaxClients]
      BY <3>1 DEF TypeOK, Unknown
    <3>3. QED
      BY <2>1, <2>2, <2>3, <3>1, <3>2 DEF TypeOK
  <2>6. QED
    BY <2>1, <2>4, <2>5
<1>7. ASSUME NEW w \in Workers, NEW n \in 0..MaxClients, Clients(w, n) PROVE TypeOK' /\ Pipes'
  <2> DEFINE m == [toil |-> "clientCount", n |-> n]
  <2>1. m \in Message /\ pipe[w] \in Seq(Message)
    BY DEF Pipes, Message
  <2>2. pipe' = [pipe EXCEPT ![w] = Append(pipe[w], m)]
    BY <1>7 DEF Clients, Tell, Pipes
  <2>3. Append(pipe[w], m) \in Seq(Message) /\ Len(Append(pipe[w], m)) = Len(pipe[w]) + 1
    BY <2>1, Appended
  <2>4. Pipes'
    BY <1>7, <2>2, <2>3 DEF Clients, Pipes, pool
  <2>5. \A v \in Workers : Len(pipe'[v]) <= MaxPipe + 1
    <3>1. Len(pipe[w]) < MaxPipe /\ Len(pipe[w]) \in Nat
      BY <1>7, <2>1 DEF Clients
    <3>2. pipe'[w] = Append(pipe[w], m) /\ \A v \in Workers \ {w} : pipe'[v] = pipe[v]
      BY <2>2 DEF Pipes
    <3>3. Len(pipe'[w]) <= MaxPipe + 1
      <4> HIDE DEF m
      <4>1. Len(pipe'[w]) = Len(pipe[w]) + 1
        BY <2>3, <3>2
      <4>2. QED
        BY <3>1, <4>1
    <3>4. \A v \in Workers \ {w} : Len(pipe'[v]) <= MaxPipe + 1
      BY <3>2 DEF TypeOK
    <3>5. QED
      BY <3>3, <3>4
  <2>6. TypeOK'
    BY <1>7, <2>5 DEF Clients, TypeOK, pool, web, rpc
  <2>7. QED
    BY <2>4, <2>6
<1>8. ASSUME NEW w \in Workers, NEW p \in waiting[w], Timeout(w, p) PROVE TypeOK' /\ Pipes'
  BY <1>8 DEF Timeout, pool, web, rpc, TypeOK, Pipes
<1>9. ASSUME NEW m \in replies, Reply(m) PROVE TypeOK' /\ Pipes'
  <2>1. /\ UNCHANGED <<phase, proc, life, ready, booted, told, deaths, pipe, clients, counts>>
        /\ UNCHANGED <<sent, work>> /\ replies' \subseteq replies
    BY <1>9 DEF Reply, pool, web
  <2> DEFINE here == {p \in waiting[m.w] : p.id = m.id}
  <2>2. m \in Posts /\ here \subseteq [id : Ids, of : Calls]
    BY DEF TypeOK, Posts
  <2>3. waiting' \in [Workers -> SUBSET [id : Ids, of : Calls]]
    <3>1. \/ waiting' = waiting
          \/ waiting' = [waiting EXCEPT ![m.w] = @ \ here]
      BY <1>9 DEF Reply
    <3>2. waiting \in [Workers -> SUBSET [id : Ids, of : Calls]]
      BY DEF TypeOK
    <3> HIDE DEF here
    <3>3. QED
      BY <3>1, <3>2
  <2>5. got' \subseteq [asked : Calls, answered : Calls]
    <3>1. \/ got' = got
          \/ got' = got \cup {[asked |-> p.of, answered |-> m.of] : p \in here}
      BY <1>9 DEF Reply
    <3>2. m.of \in Calls /\ \A p \in here : p.of \in Calls
      BY <2>2 DEF Posts
    <3>3. got \subseteq [asked : Calls, answered : Calls]
      BY DEF TypeOK
    <3>4. {[asked |-> p.of, answered |-> m.of] : p \in here} \subseteq [asked : Calls, answered : Calls]
      BY <3>2
    <3> HIDE DEF here
    <3>5. QED
      BY <3>1, <3>3, <3>4
  <2>4. QED
    BY <2>1, <2>3, <2>5 DEF TypeOK, Pipes
<1>10. ASSUME NEW call \in work, Answer(call) PROVE TypeOK' /\ Pipes'
  BY <1>10 DEF Answer, pool, web, rpc, TypeOK, Pipes
<1>11. CASE Boot
  BY <1>11 DEF Boot, pool, web, rpc, TypeOK, Pipes
<1>12. CASE Close
  BY <1>12 DEF Close, pool, web, rpc, TypeOK, Pipes
<1>13. CASE Closed
  BY <1>13 DEF Closed, pool, web, rpc, TypeOK, Pipes
<1>14. CASE UNCHANGED vars
  BY <1>14 DEF vars, pool, web, rpc, TypeOK, Pipes
<1>15. QED
  BY <1>1, <1>2, <1>3, <1>4, <1>5, <1>6, <1>7, <1>8, <1>9, <1>10, <1>11, <1>12, <1>13, <1>14 DEF Next

(* A process that is replaced died by itself.                              *)
LEMMA LivesKept ==
  ASSUME WorkerPoolAssumption, IInv, [Next]_vars
  PROVE  Lives'
<1> USE DEF WorkerPoolAssumption, IInv
<1>1. ASSUME NEW w \in Workers, Listen(w) PROVE Lives'
  BY <1>1 DEF Listen, Tell, pool, web, rpc, TypeOK, Lives
<1>2. ASSUME NEW w \in Workers, Ask(w) PROVE Lives'
  BY <1>2 DEF Ask, Tell, pool, web, rpc, TypeOK, Lives
<1>3. ASSUME NEW w \in Workers, Die(w) PROVE Lives'
  <2>1. UNCHANGED <<phase, told, life>> /\ deaths' = deaths + 1
    BY <1>3 DEF Die, Gone
  <2>2. deaths \in Nat /\ \A v \in Workers : life[v] \in Nat
    BY DEF TypeOK
  <2>3. QED
    BY <2>1, <2>2 DEF Lives
<1>4. ASSUME NEW w \in Workers, Shutdown(w) PROVE Lives'
  BY <1>4 DEF Shutdown, Gone, pool, web, rpc, TypeOK, Lives
<1>5. ASSUME NEW w \in Workers, Read(w) PROVE Lives'
  BY <1>5 DEF Read, pool, web, rpc, TypeOK, Lives
<1>6. ASSUME NEW w \in Workers, Exit(w) PROVE Lives'
  <2>1. /\ phase' \in {"boot", "run"} => phase \in {"boot", "run"} /\ told' = told
        /\ UNCHANGED deaths /\ proc[w] = "dead"
    BY <1>6 DEF Exit
  <2>2. CASE ready[w] /\ phase \in {"boot", "run"}
    <3>1. /\ life' = [life EXCEPT ![w] = @ + 1] /\ proc' = [proc EXCEPT ![w] = "starting"]
      BY <1>6, <2>2 DEF Exit, Spawn
    <3>2. life[w] <= deaths
      BY <2>1, <2>2 DEF Lives
    <3>3. \A v \in Workers : life'[v] <= deaths + 1
      <4>1. life \in [Workers -> 1..(MaxDeaths + 1)] /\ deaths \in Nat
        BY DEF TypeOK
      <4>2. life'[w] = life[w] + 1 /\ \A v \in Workers \ {w} : life'[v] = life[v]
        BY <3>1, <4>1
      <4>3. QED
        BY <3>2, <4>1, <4>2 DEF Lives
    <3>4. \A v \in Workers : proc'[v] = "dead" => proc[v] = "dead" /\ life'[v] = life[v]
      BY <3>1 DEF TypeOK
    <3>5. QED
      BY <2>1, <2>2, <3>3, <3>4 DEF Lives
  <2>3. CASE ~(ready[w] /\ phase \in {"boot", "run"})
    <3>1. UNCHANGED life /\ proc' = [proc EXCEPT ![w] = "none"]
      BY <1>6, <2>3 DEF Exit, Forget
    <3>2. QED
      BY <2>1, <3>1 DEF Lives, TypeOK
  <2>4. QED
    BY <2>2, <2>3
<1>7. ASSUME NEW w \in Workers, NEW n \in 0..MaxClients, Clients(w, n) PROVE Lives'
  BY <1>7 DEF Clients, Tell, pool, web, rpc, TypeOK, Lives
<1>8. ASSUME NEW w \in Workers, NEW p \in waiting[w], Timeout(w, p) PROVE Lives'
  BY <1>8 DEF Timeout, pool, web, rpc, TypeOK, Lives
<1>9. ASSUME NEW m \in replies, Reply(m) PROVE Lives'
  BY <1>9 DEF Reply, pool, web, rpc, TypeOK, Lives
<1>10. ASSUME NEW call \in work, Answer(call) PROVE Lives'
  BY <1>10 DEF Answer, pool, web, rpc, TypeOK, Lives
<1>11. CASE Boot
  BY <1>11 DEF Boot, pool, web, rpc, TypeOK, Lives
<1>12. CASE Close
  BY <1>12 DEF Close, pool, web, rpc, TypeOK, Lives
<1>13. CASE Closed
  BY <1>13 DEF Closed, pool, web, rpc, TypeOK, Lives
<1>14. CASE UNCHANGED vars
  BY <1>14 DEF vars, pool, web, rpc, TypeOK, Lives
<1>15. QED
  BY <1>1, <1>2, <1>3, <1>4, <1>5, <1>6, <1>7, <1>8, <1>9, <1>10, <1>11, <1>12, <1>13, <1>14 DEF Next

(* Nobody who was not told to leave is left behind.                        *)
LEMMA LeavingKept ==
  ASSUME WorkerPoolAssumption, IInv, [Next]_vars
  PROVE  Leaving'
<1> USE DEF WorkerPoolAssumption, IInv
<1>1. ASSUME NEW w \in Workers, Listen(w) PROVE Leaving'
  BY <1>1 DEF Listen, Tell, pool, web, rpc, TypeOK, Lives, Leaving, Alive, NoOrphan
<1>2. ASSUME NEW w \in Workers, Ask(w) PROVE Leaving'
  BY <1>2 DEF Ask, Tell, pool, web, rpc, TypeOK, Lives, Leaving, Alive, NoOrphan
<1>3. ASSUME NEW w \in Workers, Die(w) PROVE Leaving'
  BY <1>3 DEF Die, Gone, pool, web, rpc, TypeOK, Lives, Leaving, Alive, NoOrphan
<1>4. ASSUME NEW w \in Workers, Shutdown(w) PROVE Leaving'
  BY <1>4 DEF Shutdown, Gone, pool, web, rpc, TypeOK, Lives, Leaving, Alive, NoOrphan
<1>5. ASSUME NEW w \in Workers, Read(w) PROVE Leaving'
  BY <1>5 DEF Read, TypeOK, Leaving, Alive, NoOrphan
<1>6. ASSUME NEW w \in Workers, Exit(w) PROVE Leaving'
  <2>1. proc[w] = "dead" /\ UNCHANGED booted
    BY <1>6 DEF Exit
  <2>2. CASE ready[w] /\ phase \in {"boot", "run"}
    <3>1. UNCHANGED <<phase, told>> /\ ready' = [ready EXCEPT ![w] = FALSE]
      BY <1>6, <2>2 DEF Exit, Spawn, Leaving
    <3>2. QED
      BY <2>1, <2>2, <3>1 DEF Leaving, NoOrphan, TypeOK
  <2>3. CASE ~(ready[w] /\ phase \in {"boot", "run"})
    <3>1. proc' = [proc EXCEPT ![w] = "none"] /\ UNCHANGED ready
      BY <1>6, <2>3 DEF Exit, Forget
    <3>2. \A v \in Workers : Alive(v)' => Alive(v) /\ proc[v] # "none" /\ v # w
      BY <2>1, <3>1 DEF Alive, TypeOK
    <3>3. \/ phase' = phase /\ told' = told
          \/ phase' = "closing" /\ told' = {v \in Workers \ {w} : proc[v] # "none"}
      BY <1>6 DEF Exit
    <3>4. QED
      BY <2>1, <3>1, <3>2, <3>3 DEF Leaving, NoOrphan
  <2>4. QED
    BY <2>2, <2>3
<1>7. ASSUME NEW w \in Workers, NEW n \in 0..MaxClients, Clients(w, n) PROVE Leaving'
  BY <1>7 DEF Clients, Tell, pool, web, rpc, TypeOK, Lives, Leaving, Alive, NoOrphan
<1>8. ASSUME NEW w \in Workers, NEW p \in waiting[w], Timeout(w, p) PROVE Leaving'
  BY <1>8 DEF Timeout, pool, web, rpc, TypeOK, Lives, Leaving, Alive, NoOrphan
<1>9. ASSUME NEW m \in replies, Reply(m) PROVE Leaving'
  BY <1>9 DEF Reply, pool, web, rpc, TypeOK, Lives, Leaving, Alive, NoOrphan
<1>10. ASSUME NEW call \in work, Answer(call) PROVE Leaving'
  BY <1>10 DEF Answer, pool, web, rpc, TypeOK, Lives, Leaving, Alive, NoOrphan
<1>11. CASE Boot
  BY <1>11 DEF Boot, pool, web, rpc, TypeOK, Lives, Leaving, Alive, NoOrphan
<1>12. CASE Close
  BY <1>12 DEF Close, pool, web, rpc, TypeOK, Lives, Leaving, Alive, NoOrphan
<1>13. CASE Closed
  BY <1>13 DEF Closed, pool, web, rpc, TypeOK, Lives, Leaving, Alive, NoOrphan
<1>14. CASE UNCHANGED vars
  BY <1>14 DEF vars, pool, web, rpc, TypeOK, Lives, Leaving, Alive, NoOrphan
<1>15. QED
  BY <1>1, <1>2, <1>3, <1>4, <1>5, <1>6, <1>7, <1>8, <1>9, <1>10, <1>11, <1>12, <1>13, <1>14 DEF Next

(* The primary will have the count of each process that is there.          *)
LEMMA CountsKept ==
  ASSUME WorkerPoolAssumption, IInv, [Next]_vars
  PROVE  Counts'
<1> USE DEF WorkerPoolAssumption, IInv
<1>1. ASSUME NEW w \in Workers, Listen(w) PROVE Counts'
  <2>1. [toil |-> "ready", n |-> 0] \in Message /\ pipe[w] \in Seq(Message)
    BY DEF Message, Pipes
  <2>2. pipe' = [pipe EXCEPT ![w] = Append(pipe[w], [toil |-> "ready", n |-> 0])]
    BY <1>1 DEF Listen, Tell, Pipes
  <2>3. CountIs(pipe[w], counts[w], clients[w])
    BY <1>1 DEF Listen, Counts, Alive
  <2>4. CountIs(pipe'[w], counts[w], clients[w])
    BY <2>1, <2>2, <2>3, CountAfterOther DEF Pipes
  <2>5. QED
    BY <1>1, <2>2, <2>4 DEF Listen, TypeOK, Pipes, Counts, Alive, web
<1>2. ASSUME NEW w \in Workers, Ask(w) PROVE Counts'
  <2> DEFINE p == [id |-> Number(w), of |-> Call(w, sent[w] + 1)]
             m == Request(p)
  <2>1. m \in Message /\ pipe[w] \in Seq(Message) /\ m.toil # "clientCount"
    BY <1>2, Asked
  <2>2. pipe' = [pipe EXCEPT ![w] = Append(pipe[w], m)]
    BY <1>2, Asked
  <2>3. CountIs(pipe[w], counts[w], clients[w])
    BY <1>2 DEF Ask, Counts, Alive
  <2>4. CountIs(pipe'[w], counts[w], clients[w])
    BY <2>1, <2>2, <2>3, CountAfterOther DEF Pipes
  <2>5. QED
    BY <1>2, <2>2, <2>4 DEF Ask, TypeOK, Pipes, Counts, Alive, pool, web
<1>3. ASSUME NEW w \in Workers, Die(w) PROVE Counts'
  BY <1>3 DEF Die, Gone, pool, web, rpc, TypeOK, Counts, Alive
<1>4. ASSUME NEW w \in Workers, Shutdown(w) PROVE Counts'
  BY <1>4 DEF Shutdown, Gone, pool, web, rpc, TypeOK, Counts, Alive
<1>5. ASSUME NEW w \in Workers, Read(w) PROVE Counts'
  <2>1. /\ pipe[w] \in Seq(Message) /\ pipe[w] # <<>>
        /\ pipe' = [pipe EXCEPT ![w] = Tail(pipe[w])]
    BY <1>5 DEF Read, Pipes
  <2> DEFINE k == IF Head(pipe[w]).toil = "clientCount" THEN Head(pipe[w]).n ELSE counts[w]
  <2>2. counts'[w] = k /\ \A v \in Workers \ {w} : counts'[v] = counts[v]
    BY <1>5 DEF Read, TypeOK
  <2>3. Alive(w) => CountIs(Tail(pipe[w]), k, clients[w])
    BY <2>1, CountAfterRead DEF Counts
  <2>4. pipe'[w] = Tail(pipe[w]) /\ \A v \in Workers \ {w} : pipe'[v] = pipe[v]
    BY <2>1 DEF Pipes
  <2> HIDE DEF k
  <2>5. UNCHANGED <<proc, clients>>
    BY <1>5 DEF Read
  <2>6. \A v \in Workers : (Alive(v) => CountIs(pipe[v], counts[v], clients[v]))'
    BY <2>2, <2>3, <2>4, <2>5 DEF Counts, Alive
  <2>7. proc[w] # "none"
    BY <2>1 DEF Counts
  <2>8. QED
    BY <2>2, <2>4, <2>5, <2>6, <2>7 DEF Counts
<1>6. ASSUME NEW w \in Workers, Exit(w) PROVE Counts'
  <2>1. /\ pipe'[w] = <<>> /\ \A v \in Workers \ {w} : pipe'[v] = pipe[v]
        /\ clients[w] = 0 /\ UNCHANGED clients
    BY <1>6 DEF Exit, Pipes, Counts
  <2>2. CountIs(<<>>, 0, 0)
    BY DEF CountIs
  <2>3. \A v \in Workers \ {w} : counts'[v] = counts[v] /\ proc'[v] = proc[v]
    BY <1>6 DEF Exit, Spawn, Forget, TypeOK
  <2>4. \/ proc'[w] = "starting" /\ counts'[w] = 0
        \/ proc'[w] = "none" /\ counts'[w] = Unknown
    BY <1>6 DEF Exit, Spawn, Forget, TypeOK
  <2>5. \A v \in Workers : (Alive(v) => CountIs(pipe[v], counts[v], clients[v]))'
    BY <2>1, <2>2, <2>3, <2>4 DEF Counts, Alive
  <2>6. QED
    BY <2>1, <2>3, <2>4, <2>5 DEF Counts
<1>7. ASSUME NEW w \in Workers, NEW n \in 0..MaxClients, Clients(w, n) PROVE Counts'
  <2>1. pipe' = [pipe EXCEPT ![w] = Append(pipe[w], [toil |-> "clientCount", n |-> n])]
    BY <1>7 DEF Clients, Tell, Pipes
  <2>2. CountIs(pipe'[w], counts[w], n)
    BY <2>1, CountAfterCount DEF Pipes
  <2>3. QED
    BY <1>7, <2>1, <2>2 DEF Clients, TypeOK, Pipes, Counts, Alive, pool
<1>8. ASSUME NEW w \in Workers, NEW p \in waiting[w], Timeout(w, p) PROVE Counts'
  BY <1>8 DEF Timeout, pool, web, rpc, TypeOK, Counts, Alive
<1>9. ASSUME NEW m \in replies, Reply(m) PROVE Counts'
  BY <1>9 DEF Reply, pool, web, rpc, TypeOK, Counts, Alive
<1>10. ASSUME NEW call \in work, Answer(call) PROVE Counts'
  BY <1>10 DEF Answer, pool, web, rpc, TypeOK, Counts, Alive
<1>11. CASE Boot
  BY <1>11 DEF Boot, pool, web, rpc, TypeOK, Counts, Alive
<1>12. CASE Close
  BY <1>12 DEF Close, pool, web, rpc, TypeOK, Counts, Alive
<1>13. CASE Closed
  BY <1>13 DEF Closed, pool, web, rpc, TypeOK, Counts, Alive
<1>14. CASE UNCHANGED vars
  BY <1>14 DEF vars, pool, web, rpc, TypeOK, Counts, Alive
<1>15. QED
  BY <1>1, <1>2, <1>3, <1>4, <1>5, <1>6, <1>7, <1>8, <1>9, <1>10, <1>11, <1>12, <1>13, <1>14 DEF Next

(* A request that waits stays on its way.                                  *)
LEMMA NoneLostKept ==
  ASSUME WorkerPoolAssumption, IInv, [Next]_vars
  PROVE  NoneLost'
<1> USE DEF WorkerPoolAssumption, IInv
<1>1. ASSUME NEW w \in Workers, Listen(w) PROVE NoneLost'
  <2>1. /\ proc[w] # "up"
        /\ \A v \in Workers \ {w} : pipe'[v] = pipe[v] /\ proc'[v] = proc[v]
    BY <1>1 DEF Listen, Tell, Pipes, TypeOK
  <2>2. UNCHANGED <<life, waiting, work, replies>>
    BY <1>1 DEF Listen, rpc
  <2>3. waiting[w] = {}
    BY <2>1 DEF NoneLost, TypeOK
  <2>4. QED
    BY <2>1, <2>2, <2>3 DEF NoneLost, Underway
<1>2. ASSUME NEW w \in Workers, Ask(w) PROVE NoneLost'
  <2> DEFINE p == [id |-> Number(w), of |-> Call(w, sent[w] + 1)]
             m == Request(p)
  <2>1. m \in Message /\ pipe[w] \in Seq(Message)
    BY <1>2, Asked
  <2>2. /\ pipe'[w] = Append(pipe[w], m) /\ \A v \in Workers \ {w} : pipe'[v] = pipe[v]
        /\ UNCHANGED <<proc, life, work, replies>>
    <3>1. pipe' = [pipe EXCEPT ![w] = Append(pipe[w], m)]
      BY <1>2, Asked
    <3>2. QED
      BY <1>2, <3>1 DEF Ask, Pipes, pool
  <2>3. /\ waiting'[w] \subseteq waiting[w] \cup {p}
        /\ \A v \in Workers \ {w} : waiting'[v] = waiting[v]
    BY <1>2 DEF Ask, TypeOK
  <2>4. ASSUME NEW q, q = p \/ \E i \in 1..Len(pipe[w]) : pipe[w][i] = Request(q)
        PROVE  \E i \in 1..Len(pipe'[w]) : pipe'[w][i] = Request(q)
    <3>1. Request(q) = m \/ \E i \in 1..Len(pipe[w]) : pipe[w][i] = Request(q)
      BY <2>4
    <3> HIDE DEF m
    <3>2. QED
      BY <2>1, <2>2, <3>1, HasAfterAppend
  <2>5. proc[w] = "up"
    BY <1>2 DEF Ask
  <2> HIDE DEF p, m
  <2>6. ASSUME NEW v \in Workers, NEW q \in waiting'[v]
        PROVE  proc'[v] = "up" /\ Underway(v, q)'
    <3>1. CASE v # w
      BY <2>2, <2>3, <2>6, <3>1 DEF NoneLost, Underway
    <3>2. CASE v = w /\ q = p
      BY <2>2, <2>4, <2>5, <3>2 DEF Underway
    <3>3. CASE v = w /\ q \in waiting[w]
      BY <2>2, <2>4, <2>5, <3>3 DEF NoneLost, Underway
    <3>4. QED
      BY <2>3, <2>6, <3>1, <3>2, <3>3
  <2>7. QED
    BY <2>6 DEF NoneLost
<1>3. ASSUME NEW w \in Workers, Die(w) PROVE NoneLost'
  BY <1>3 DEF Die, Gone, pool, web, rpc, TypeOK, NoneLost, Underway
<1>4. ASSUME NEW w \in Workers, Shutdown(w) PROVE NoneLost'
  BY <1>4 DEF Shutdown, Gone, pool, web, rpc, TypeOK, NoneLost, Underway
<1>5. ASSUME NEW w \in Workers, Read(w) PROVE NoneLost'
  <2>1. /\ pipe[w] \in Seq(Message) /\ pipe[w] # <<>>
        /\ pipe'[w] = Tail(pipe[w]) /\ \A v \in Workers \ {w} : pipe'[v] = pipe[v]
        /\ UNCHANGED <<proc, life, waiting, replies>> /\ work \subseteq work'
    BY <1>5 DEF Read, Pipes
  <2>2. ASSUME NEW p, Head(pipe[w]) = Request(p)
        PROVE  [w |-> w, life |-> life[w], id |-> p.id, of |-> p.of] \in work'
    BY <1>5, <2>2 DEF Read, Request
  <2>3. ASSUME NEW p, NEW i \in 1..Len(pipe[w]), pipe[w][i] = Request(p)
        PROVE  \/ \E j \in 1..Len(pipe'[w]) : pipe'[w][j] = Request(p)
               \/ [w |-> w, life |-> life[w], id |-> p.id, of |-> p.of] \in work'
    BY <2>1, <2>2, <2>3, HasAfterRead
  <2>4. ASSUME NEW v \in Workers, NEW p \in waiting[v] PROVE Underway(v, p)'
    <3>1. Underway(v, p) /\ life'[v] = life[v]
      BY <2>1 DEF NoneLost
    <3>2. CASE v = w
      BY <2>1, <2>3, <3>1, <3>2 DEF Underway
    <3>3. CASE v # w
      BY <2>1, <3>1, <3>3 DEF Underway
    <3>4. QED
      BY <3>2, <3>3
  <2>5. QED
    BY <2>1, <2>4 DEF NoneLost
<1>6. ASSUME NEW w \in Workers, Exit(w) PROVE NoneLost'
  <2>1. /\ proc[w] # "up"
        /\ \A v \in Workers \ {w} :
             pipe'[v] = pipe[v] /\ proc'[v] = proc[v] /\ life'[v] = life[v]
        /\ UNCHANGED <<waiting, work, replies>>
    BY <1>6 DEF Exit, Spawn, Forget, Pipes, TypeOK
  <2>2. waiting[w] = {}
    BY <2>1 DEF NoneLost, TypeOK
  <2>3. QED
    BY <2>1, <2>2 DEF NoneLost, Underway
<1>7. ASSUME NEW w \in Workers, NEW n \in 0..MaxClients, Clients(w, n) PROVE NoneLost'
  <2> DEFINE m == [toil |-> "clientCount", n |-> n]
  <2>1. m \in Message /\ pipe[w] \in Seq(Message)
    BY DEF Pipes, Message
  <2>2. /\ pipe'[w] = Append(pipe[w], m) /\ \A v \in Workers \ {w} : pipe'[v] = pipe[v]
        /\ UNCHANGED <<proc, life, waiting, work, replies>>
    BY <1>7 DEF Clients, Tell, Pipes, pool, rpc
  <2>3. ASSUME NEW p, NEW i \in 1..Len(pipe[w]), pipe[w][i] = Request(p)
        PROVE  \E j \in 1..Len(pipe'[w]) : pipe'[w][j] = Request(p)
    BY <2>1, <2>2, <2>3, HasAfterAppend
  <2>4. QED
    BY <2>2, <2>3 DEF NoneLost, Underway
<1>8. ASSUME NEW w \in Workers, NEW p \in waiting[w], Timeout(w, p) PROVE NoneLost'
  BY <1>8 DEF Timeout, pool, web, rpc, TypeOK, NoneLost, Underway
<1>9. ASSUME NEW m \in replies, Reply(m) PROVE NoneLost'
  <2>1. UNCHANGED <<proc, life, pipe, work>> /\ replies' = replies \ {m}
    BY <1>9 DEF Reply, pool
  <2> DEFINE here == {p \in waiting[m.w] : p.id = m.id}
  <2>2. \A v \in Workers : waiting'[v] \subseteq waiting[v]
    <3>1. \/ waiting' = waiting
          \/ waiting' = [waiting EXCEPT ![m.w] = @ \ here]
      BY <1>9 DEF Reply
    <3>2. waiting \in [Workers -> SUBSET [id : Ids, of : Calls]]
      BY DEF TypeOK
    <3> HIDE DEF here
    <3>3. QED
      BY <3>1, <3>2
  <2>3. ASSUME NEW v \in Workers, NEW p \in waiting'[v]
        PROVE  m # [w |-> v, life |-> life[v], id |-> p.id, of |-> p.of]
    <3>1. SUFFICES ASSUME m = [w |-> v, life |-> life[v], id |-> p.id, of |-> p.of] PROVE FALSE
      OBVIOUS
    <3>2. m.w = v /\ m.life = life[v] /\ m.id = p.id
      BY <3>1
    <3>3. p \in waiting[v] /\ Alive(v)
      BY <2>2 DEF NoneLost, Alive
    <3>4. waiting' = [waiting EXCEPT ![v] = @ \ here] /\ p \in here
      BY <1>9, <3>2, <3>3 DEF Reply
    <3> HIDE DEF here
    <3>5. QED
      BY <3>4 DEF TypeOK
  <2>4. QED
    BY <2>1, <2>2, <2>3 DEF NoneLost, Underway
<1>10. ASSUME NEW call \in work, Answer(call) PROVE NoneLost'
  <2>1. /\ UNCHANGED <<proc, life, pipe, waiting>>
        /\ work' = work \ {call} /\ replies' = replies \cup {call}
    BY <1>10 DEF Answer, pool
  <2>2. QED
    BY <2>1 DEF NoneLost, Underway
<1>11. CASE Boot
  BY <1>11 DEF Boot, pool, web, rpc, TypeOK, NoneLost, Underway
<1>12. CASE Close
  BY <1>12 DEF Close, pool, web, rpc, TypeOK, NoneLost, Underway
<1>13. CASE Closed
  BY <1>13 DEF Closed, pool, web, rpc, TypeOK, NoneLost, Underway
<1>14. CASE UNCHANGED vars
  BY <1>14 DEF vars, pool, web, rpc, TypeOK, NoneLost, Underway
<1>15. QED
  BY <1>1, <1>2, <1>3, <1>4, <1>5, <1>6, <1>7, <1>8, <1>9, <1>10, <1>11, <1>12, <1>13, <1>14 DEF Next

(* A number stands for the request that was given it, wherever it is.      *)
LEMMA NumbersKept ==
  ASSUME WorkerPoolAssumption, IInv, [Next]_vars
  PROVE  Numbers'
<1> USE DEF WorkerPoolAssumption, IInv
<1>1. ASSUME NEW w \in Workers, Listen(w) PROVE Numbers'
  <2> DEFINE m == [toil |-> "ready", n |-> 0]
  <2>1. m \in Message /\ pipe[w] \in Seq(Message) /\ Len(pipe[w]) \in Nat /\ m.toil # "request"
    BY DEF Pipes, Message
  <2>2. /\ pipe'[w] = Append(pipe[w], m) /\ \A v \in Workers \ {w} : pipe'[v] = pipe[v]
        /\ UNCHANGED <<life, waiting, work, replies, got>>
    BY <1>1 DEF Listen, Tell, Pipes, rpc
  <2> HIDE DEF m
  <2>3. ASSUME NEW i \in 1..Len(pipe'[w]), pipe'[w][i].toil = "request"
        PROVE  i \in 1..Len(pipe[w]) /\ pipe'[w][i] = pipe[w][i]
    BY <2>1, <2>2, <2>3, Appended
  <2>4. QED
    BY <2>2, <2>3 DEF Numbers, Named, Call
<1>2. ASSUME NEW w \in Workers, Ask(w) PROVE Numbers'
  <2> DEFINE p == [id |-> Number(w), of |-> Call(w, sent[w] + 1)]
             m == Request(p)
  <2>1. m \in Message /\ pipe[w] \in Seq(Message) /\ m.n = p.id /\ m.of = p.of
    BY <1>2, Asked DEF Request
  <2>2. p.of = Call(w, p.id)
    BY DEF Number
  <2>3. /\ pipe'[w] = Append(pipe[w], m) /\ \A v \in Workers \ {w} : pipe'[v] = pipe[v]
        /\ UNCHANGED <<life, work, replies, got>>
    <3>1. pipe' = [pipe EXCEPT ![w] = Append(pipe[w], m)]
      BY <1>2, Asked
    <3>2. QED
      BY <1>2, <3>1 DEF Ask, Pipes, pool
  <2>4. /\ waiting'[w] \subseteq waiting[w] \cup {p}
        /\ \A v \in Workers \ {w} : waiting'[v] = waiting[v]
    BY <1>2 DEF Ask, TypeOK
  <2> HIDE DEF p, m
  <2>5. \A v \in Workers : \A q \in waiting'[v] : q.of = Call(v, q.id)'
    BY <2>2, <2>3, <2>4 DEF Numbers, Call
  <2>6. ASSUME NEW v \in Workers, NEW i \in 1..Len(pipe'[v]), pipe'[v][i].toil = "request"
        PROVE  pipe'[v][i].of = Call(v, pipe'[v][i].n)
    <3>1. CASE v # w
      BY <2>3, <2>6, <3>1 DEF Numbers, Call
    <3>2. CASE v = w
      <4>1. Len(pipe[w]) \in Nat
        BY <2>1
      <4>2. \/ i \in 1..Len(pipe[w]) /\ pipe'[w][i] = pipe[w][i]
            \/ pipe'[w][i] = m
        BY <2>1, <2>3, <2>6, <3>2, <4>1, Appended
      <4>3. CASE pipe'[w][i] = m
        BY <2>1, <2>2, <3>2, <4>3 DEF Call
      <4>4. CASE i \in 1..Len(pipe[w]) /\ pipe'[w][i] = pipe[w][i]
        BY <2>6, <3>2, <4>4 DEF Numbers
      <4>5. QED
        BY <3>2, <4>2, <4>3, <4>4
    <3>3. QED
      BY <3>1, <3>2
  <2>7. \A c \in work' \cup replies' : Named(c)
    BY <2>3 DEF Numbers
  <2>8. QED
    BY <2>3, <2>5, <2>6, <2>7 DEF Numbers, Named, Call
<1>3. ASSUME NEW w \in Workers, Die(w) PROVE Numbers'
  BY <1>3 DEF Die, Gone, pool, web, rpc, TypeOK, Numbers, Named, Call
<1>4. ASSUME NEW w \in Workers, Shutdown(w) PROVE Numbers'
  BY <1>4 DEF Shutdown, Gone, pool, web, rpc, TypeOK, Numbers, Named, Call
<1>5. ASSUME NEW w \in Workers, Read(w) PROVE Numbers'
  <2> DEFINE h == Head(pipe[w])
             c == [w |-> w, life |-> life[w], id |-> h.n, of |-> h.of]
  <2>1. /\ pipe[w] \in Seq(Message) /\ pipe[w] # <<>>
        /\ pipe'[w] = Tail(pipe[w]) /\ \A v \in Workers \ {w} : pipe'[v] = pipe[v]
        /\ UNCHANGED <<life, waiting, replies, got>>
        /\ work' = IF h.toil = "request" THEN work \cup {c} ELSE work
    BY <1>5 DEF Read, Pipes
  <2>2. /\ h = pipe[w][1] /\ Len(pipe[w]) \in Nat \ {0} /\ Len(pipe'[w]) = Len(pipe[w]) - 1
        /\ \A i \in 1..(Len(pipe[w]) - 1) : pipe'[w][i] = pipe[w][i + 1]
    BY <2>1, Taken
  <2>3. h.toil = "request" => Named(c)
    BY <2>2 DEF Numbers, Named, Call
  <2> HIDE DEF h, c
  <2>4. \A e \in work' \cup replies' : Named(e)
    BY <2>1, <2>3 DEF Numbers
  <2>5. ASSUME NEW i \in 1..Len(pipe'[w])
        PROVE  i + 1 \in 1..Len(pipe[w]) /\ pipe'[w][i] = pipe[w][i + 1]
    BY <2>2
  <2>6. ASSUME NEW i \in 1..Len(pipe'[w]), pipe'[w][i].toil = "request"
        PROVE  pipe'[w][i].of = Call(w, pipe'[w][i].n)
    BY <2>5, <2>6 DEF Numbers
  <2>7. ASSUME NEW v \in Workers, NEW i \in 1..Len(pipe'[v]), pipe'[v][i].toil = "request"
        PROVE  pipe'[v][i].of = [w |-> v, life |-> life'[v], id |-> pipe'[v][i].n]
    <3>1. pipe'[v][i].of = Call(v, pipe'[v][i].n)
      <4>1. CASE v = w
        BY <2>6, <2>7, <4>1
      <4>2. CASE v # w
        BY <2>1, <2>7, <4>2 DEF Numbers
      <4>3. QED
        BY <4>1, <4>2
    <3>2. QED
      BY <2>1, <3>1 DEF Call
  <2>8. \A v \in Workers : \A p \in waiting'[v] : p.of = [w |-> v, life |-> life'[v], id |-> p.id]
    BY <2>1 DEF Numbers, Call
  <2>9. \A g \in got' : g.asked = g.answered
    BY <2>1 DEF Numbers
  <2>10. QED
    BY <2>4, <2>7, <2>8, <2>9 DEF Numbers, Call
<1>6. ASSUME NEW w \in Workers, Exit(w) PROVE Numbers'
  <2>1. /\ pipe'[w] = <<>> /\ \A v \in Workers \ {w} : pipe'[v] = pipe[v] /\ life'[v] = life[v]
        /\ UNCHANGED <<waiting, work, replies, got>>
    BY <1>6 DEF Exit, Spawn, Forget, Pipes, TypeOK
  <2>2. waiting[w] = {}
    BY <1>6 DEF Exit, NoneLost, TypeOK
  <2>3. Len(<<>>) = 0
    OBVIOUS
  <2>4. \A v \in Workers : \A p \in waiting'[v] : p.of = Call(v, p.id)'
    BY <2>1, <2>2 DEF Numbers, Call
  <2>5. ASSUME NEW v \in Workers, NEW i \in 1..Len(pipe'[v])
        PROVE  v # w /\ i \in 1..Len(pipe[v])
    BY <2>1, <2>3, <2>5
  <2>6. ASSUME NEW v \in Workers, NEW i \in 1..Len(pipe'[v]), pipe'[v][i].toil = "request"
        PROVE  pipe'[v][i].of = [w |-> v, life |-> life'[v], id |-> pipe'[v][i].n]
    <3>1. v # w /\ i \in 1..Len(pipe[v])
      BY <2>5
    <3>2. pipe'[v] = pipe[v] /\ life'[v] = life[v]
      BY <2>1, <3>1
    <3>3. pipe[v][i].of = Call(v, pipe[v][i].n)
      BY <2>6, <3>1, <3>2 DEF Numbers
    <3>4. QED
      BY <3>2, <3>3 DEF Call
  <2>7. \A c \in work' \cup replies' : Named(c)
    BY <2>1 DEF Numbers
  <2>8. QED
    BY <2>1, <2>4, <2>6, <2>7 DEF Numbers, Named, Call
<1>7. ASSUME NEW w \in Workers, NEW n \in 0..MaxClients, Clients(w, n) PROVE Numbers'
  <2> DEFINE m == [toil |-> "clientCount", n |-> n]
  <2>1. m \in Message /\ pipe[w] \in Seq(Message) /\ Len(pipe[w]) \in Nat /\ m.toil # "request"
    BY DEF Pipes, Message
  <2>2. /\ pipe'[w] = Append(pipe[w], m) /\ \A v \in Workers \ {w} : pipe'[v] = pipe[v]
        /\ UNCHANGED <<life, waiting, work, replies, got>>
    BY <1>7 DEF Clients, Tell, Pipes, pool, rpc
  <2> HIDE DEF m
  <2>3. ASSUME NEW i \in 1..Len(pipe'[w]), pipe'[w][i].toil = "request"
        PROVE  i \in 1..Len(pipe[w]) /\ pipe'[w][i] = pipe[w][i]
    BY <2>1, <2>2, <2>3, Appended
  <2>4. QED
    BY <2>2, <2>3 DEF Numbers, Named, Call
<1>8. ASSUME NEW w \in Workers, NEW p \in waiting[w], Timeout(w, p) PROVE Numbers'
  BY <1>8 DEF Timeout, pool, web, rpc, TypeOK, Numbers, Named, Call
<1>9. ASSUME NEW m \in replies, Reply(m) PROVE Numbers'
  <2> DEFINE here == {p \in waiting[m.w] : p.id = m.id}
  <2>1. UNCHANGED <<life, pipe, work>> /\ replies' = replies \ {m}
    BY <1>9 DEF Reply, pool
  <2>2. m.w \in Workers /\ m.of = [w |-> m.w, life |-> m.life, id |-> m.id]
    BY DEF TypeOK, Posts, Numbers, Named
  <2>3. CASE Alive(m.w) /\ life[m.w] = m.life
    <3>1. /\ waiting' = [waiting EXCEPT ![m.w] = @ \ here]
          /\ got' = got \cup {[asked |-> p.of, answered |-> m.of] : p \in here}
      BY <1>9, <2>3 DEF Reply
    <3>2. \A p \in here : p.of = m.of
      BY <2>2, <2>3 DEF Numbers, Call
    <3> HIDE DEF here
    <3>3. \A v \in Workers : waiting'[v] \subseteq waiting[v]
      BY <3>1 DEF TypeOK
    <3>4. \A g \in got' : g.asked = g.answered
      BY <3>1, <3>2 DEF Numbers
    <3>5. QED
      BY <2>1, <3>3, <3>4 DEF Numbers, Named, Call
  <2>4. CASE ~(Alive(m.w) /\ life[m.w] = m.life)
    <3>1. UNCHANGED <<waiting, got>>
      BY <1>9, <2>4 DEF Reply
    <3>2. QED
      BY <2>1, <3>1 DEF Numbers, Named, Call
  <2>5. QED
    BY <2>3, <2>4
<1>10. ASSUME NEW call \in work, Answer(call) PROVE Numbers'
  BY <1>10 DEF Answer, pool, web, rpc, TypeOK, Numbers, Named, Call
<1>11. CASE Boot
  BY <1>11 DEF Boot, pool, web, rpc, TypeOK, Numbers, Named, Call
<1>12. CASE Close
  BY <1>12 DEF Close, pool, web, rpc, TypeOK, Numbers, Named, Call
<1>13. CASE Closed
  BY <1>13 DEF Closed, pool, web, rpc, TypeOK, Numbers, Named, Call
<1>14. CASE UNCHANGED vars
  BY <1>14 DEF vars, pool, web, rpc, TypeOK, Numbers, Named, Call
<1>15. QED
  BY <1>1, <1>2, <1>3, <1>4, <1>5, <1>6, <1>7, <1>8, <1>9, <1>10, <1>11, <1>12, <1>13, <1>14 DEF Next

LEMMA Inductive == WorkerPoolAssumption /\ IInv /\ [Next]_vars => IInv'
BY TypesKept, LivesKept, LeavingKept, CountsKept, NoneLostKept, NumbersKept DEF IInv

LEMMA Invariance == ASSUME WorkerPoolAssumption PROVE Spec => []IInv
<1>1. Init => IInv
  BY Initially
<1>2. IInv /\ [Next]_vars => IInv'
  BY Inductive
<1>3. QED
  BY <1>1, <1>2, PTL DEF Spec

-----------------------------------------------------------------------------
(* What follows                                                            *)

(* The shape of every variable, for any bounds.                            *)
THEOREM TypeCorrect ==
  ASSUME WorkerPoolAssumption
  PROVE  Spec => []TypeOK
<1>1. IInv => TypeOK
  BY DEF IInv
<1>2. QED
  BY <1>1, Invariance, PTL

(* A reply resolves the very request the primary ran it for, and no        *)
(* request is forgotten while its process waits for it: it is in the pipe, *)
(* at work or answered to that process.  The argument: a number stands for *)
(* one request of one process wherever it is held (Numbers), and the pipe  *)
(* of a process is emptied before its slot is given to the next.           *)
THEOREM RepliesFindTheirRequest ==
  ASSUME WorkerPoolAssumption
  PROVE  Spec => []OwnReply
<1>1. IInv => OwnReply
  BY DEF IInv, NoneLost, Numbers, OwnReply
<1>2. QED
  BY <1>1, Invariance, PTL

(* When the primary has read every message and handled every exit, its     *)
(* client counts are those of the processes that are there.                *)
THEOREM CountsSettle ==
  ASSUME WorkerPoolAssumption
  PROVE  Spec => []CountSettles
<1>1. IInv => CountSettles
  <2>1. SUFFICES ASSUME IInv, \A w \in Workers : pipe[w] = <<>> /\ proc[w] # "dead"
                 PROVE  Total = Cardinality(Sockets(clients))
    BY DEF CountSettles
  <2>2. \A w \in Workers : \/ counts[w] = clients[w]
                           \/ counts[w] = Unknown /\ clients[w] = 0
    <3>1. ASSUME NEW w \in Workers, Alive(w) PROVE counts[w] = clients[w]
      BY <2>1, <3>1 DEF IInv, Counts, CountIs
    <3>2. ASSUME NEW w \in Workers, ~Alive(w) PROVE counts[w] = Unknown /\ clients[w] = 0
      BY <2>1, <3>2 DEF IInv, TypeOK, Counts, Alive
    <3>3. QED
      BY <3>1, <3>2
  <2>3. \A x \in Workers \X (1..MaxClients) : x[2] <= counts[x[1]] <=> x[2] <= clients[x[1]]
    <3>1. ASSUME NEW w \in Workers, NEW c \in 1..MaxClients
          PROVE  c <= counts[w] <=> c <= clients[w]
      BY <2>2 DEF Unknown
    <3>2. QED
      BY <3>1
  <2>4. Sockets(counts) = Sockets(clients)
    BY <2>3 DEF Sockets
  <2>5. QED
    BY <2>4 DEF Total
<1>2. QED
  BY <1>1, Invariance, PTL

(* When close() has returned, or the boot has failed, no process is left,  *)
(* whoever died or was being replaced when it began.                       *)
THEOREM ClosedIsEmpty ==
  ASSUME WorkerPoolAssumption
  PROVE  Spec => []NoOrphan
<1>1. IInv => NoOrphan
  BY DEF IInv, Leaving
<1>2. QED
  BY <1>1, Invariance, PTL
=============================================================================
