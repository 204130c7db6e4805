---------------------------- MODULE EventFoldProofs ----------------------------
(***************************************************************************)
(* Proofs about EventFold, for any events, derives, limits, requests and   *)
(* faults: what the folds have seen, what is queued, and what a request    *)
(* was told.                                                               *)
(***************************************************************************)
EXTENDS EventFold, FiniteSetTheorems, TLAPS

-----------------------------------------------------------------------------
(* The inductive invariant                                                 *)

(* A log holds an id once, and the ids that are remembered are those of    *)
(* the log.                                                                *)
Once(s) ==
  /\ \A p, q \in DOMAIN s.log : s.log[p].id = s.log[q].id => p = q
  /\ \A p \in DOMAIN s.log : s.log[p].id \in s.ids
  /\ \A id \in s.ids : \E p \in DOMAIN s.log : s.log[p].id = id

(* What a derive has passed is in its view.                                *)
Folded(s) == \A d \in Derives : LiveIn(s.log, 0, s.cursor[d]) \subseteq s.view[d]

Sound(s) == StoreOK(s) /\ Once(s) /\ Folded(s)

(* The store still has what a request was told.                            *)
Holds(s, a) ==
  /\ a[2] \in s.ids
  /\ a[1] = "erased" => \A p \in DOMAIN s.log : s.log[p].id = a[2] => ~s.log[p].live

(* Answers: in memory, and on disk what a snapshot was written for.        *)
Answers ==
  /\ \A r \in Requests : \A a \in told[r] : Holds(db, a)
  /\ \A a \in acked : Holds(db, a) /\ (unwritten = 0 => Holds(disk, a))
  /\ \A a \in saved.acked : Holds(disk, a)

(* A derive that runs reads from its own cursor, and has in hand what it   *)
(* read and did not publish.                                               *)
Running ==
  /\ thread.at = "idle" => ~InRun
  /\ thread.at = "hot" => InRun
  /\ InRun /\ thread.at # "hot" => key = thread.d
  /\ InRun /\ thread.staged # None =>
       LiveIn(db.log, 0, thread.staged) \subseteq db.view[thread.d] \cup thread.got

(* In a round only the derive that runs can have been queued again.        *)
InRound ==
  thread.at = "cold" =>
    /\ thread.d \notin thread.todo
    /\ \A d \in thread.todo : db.queue[d] = thread.token[d]
    /\ InRun => thread.again = (db.queue[thread.d] # thread.token[thread.d])

Owing ==
  /\ OwedIsQueued
  /\ InRun /\ thread.again => db.queue[thread.d] # 0
  /\ InRound

(* The types; those of the stores are in Sound.                            *)
Thread(gen, len) ==
  [at : {"idle", "tick", "start", "cold", "hot"}, d : Derives \cup {Nobody},
   todo : SUBSET Derives, token : [Derives -> 0..gen], wrote : BOOLEAN,
   staged : None..len, got : SUBSET (1..len), again : BOOLEAN]

Asked == {"sent", "erased"} \X EventIds

Shapes ==
  /\ up \in BOOLEAN /\ waits \in BOOLEAN
  /\ pend \subseteq Derives
  /\ key \in Derives \cup {Nobody}
  /\ thread \in Thread(db.gen, Len(db.log))
  /\ told \in [Requests -> SUBSET Asked]
  /\ acked \subseteq Asked
  /\ owed \in [Derives -> BOOLEAN]
  /\ saved \in [acked : SUBSET Asked, owed : [Derives -> BOOLEAN]]
  /\ unwritten \in 0..MaxFaults
  /\ faults \in 0..MaxFaults

IInv == Shapes /\ Sound(db) /\ Sound(disk) /\ Answers /\ Running /\ Owing

-----------------------------------------------------------------------------
(* The store                                                               *)

(* What every step does to the store, but for the loss of a crash.         *)
Keeps(s, t) ==
  /\ Len(s.log) <= Len(t.log) /\ s.gen <= t.gen
  /\ \A a \in Asked : Holds(s, a) => Holds(t, a)

(* A batch that ends at e adds to what was read up to f.                   *)
LEMMA ReadOn ==
  ASSUME NEW log, NEW f \in Nat, NEW e \in Nat
  PROVE  LiveIn(log, 0, e) \subseteq LiveIn(log, 0, f) \cup LiveIn(log, f, e)
BY DEF LiveIn

(* append, once for every id.                                              *)
LEMMA Appending ==
  ASSUME NEW s, Sound(s), NEW id \in EventIds
  PROVE  LET t == Appended(s, id)
         IN  /\ Sound(t) /\ Keeps(s, t) /\ t.queue = s.queue /\ t.gen = s.gen
             /\ Holds(t, <<"sent", id>>)
<1> DEFINE t == Appended(s, id)
           e == [id |-> id, live |-> TRUE]
<1>1. CASE id \in s.ids
  BY <1>1 DEF Appended, Sound, StoreOK, Keeps, Holds
<1>2. CASE id \notin s.ids
  <2>1. s.log \in Seq(Event) /\ Len(s.log) \in Nat /\ e \in Event
    BY DEF Sound, StoreOK, Event
  <2>2. /\ DOMAIN t = DOMAIN s
        /\ t.log = Append(s.log, e) /\ t.ids = s.ids \cup {id}
        /\ t.cursor = s.cursor /\ t.view = s.view /\ t.gen = s.gen /\ t.queue = s.queue
    BY <1>2 DEF Appended, Sound, StoreOK
  <2>3. /\ t.log \in Seq(Event) /\ Len(t.log) = Len(s.log) + 1 /\ t.log[Len(s.log) + 1] = e
        /\ \A p \in 1..Len(s.log) : t.log[p] = s.log[p]
    BY <2>1, <2>2
  <2>4. DOMAIN s.log = 1..Len(s.log) /\ DOMAIN t.log = 1..(Len(s.log) + 1)
    BY <2>1, <2>3
  <2> HIDE DEF t
  <2>5. StoreOK(t)
    <3>1. t.cursor \in [Derives -> 0..Len(t.log)]
      BY <2>1, <2>2, <2>3 DEF Sound, StoreOK
    <3>2. t.view \in [Derives -> SUBSET (1..Len(t.log))]
      BY <2>1, <2>2, <2>3 DEF Sound, StoreOK
    <3>3. QED
      BY <2>2, <2>3, <3>1, <3>2 DEF Sound, StoreOK
  <2>6. Once(t)
    <3> DEFINE new == Len(s.log) + 1
    <3>1. \A p \in DOMAIN t.log : p = new \/ (p \in DOMAIN s.log /\ t.log[p] = s.log[p])
      BY <2>1, <2>3, <2>4
    <3>2. t.log[new].id = id /\ new \in DOMAIN t.log
      BY <2>1, <2>3, <2>4
    <3>3. \A p \in DOMAIN s.log : s.log[p].id \in s.ids /\ s.log[p].id # id
      BY <1>2 DEF Sound, Once
    <3> HIDE DEF new
    <3>4. ASSUME NEW p \in DOMAIN t.log, NEW q \in DOMAIN t.log, t.log[p].id = t.log[q].id
          PROVE  p = q
      BY <3>1, <3>2, <3>3, <3>4 DEF Sound, Once
    <3>5. \A p \in DOMAIN t.log : t.log[p].id \in t.ids
      BY <2>2, <3>1, <3>2, <3>3
    <3>6. ASSUME NEW i \in t.ids PROVE \E p \in DOMAIN t.log : t.log[p].id = i
      <4>1. CASE i = id
        BY <3>2, <4>1
      <4>2. CASE i \in s.ids
        <5>1. PICK p \in DOMAIN s.log : s.log[p].id = i
          BY <4>2 DEF Sound, Once
        <5>2. p \in DOMAIN t.log /\ t.log[p] = s.log[p]
          BY <2>1, <2>3, <2>4
        <5>3. QED
          BY <5>1, <5>2
      <4>3. QED
        BY <2>2, <4>1, <4>2
    <3>7. QED
      BY <3>4, <3>5, <3>6 DEF Once
  <2>7. Folded(t)
    <3>1. SUFFICES ASSUME NEW d \in Derives PROVE LiveIn(t.log, 0, t.cursor[d]) \subseteq t.view[d]
      BY DEF Folded
    <3>2. t.cursor[d] \in 0..Len(s.log) /\ LiveIn(s.log, 0, s.cursor[d]) \subseteq s.view[d]
      BY <2>2 DEF Sound, StoreOK, Folded
    <3>3. LiveIn(t.log, 0, t.cursor[d]) = LiveIn(s.log, 0, s.cursor[d])
      BY <2>1, <2>2, <2>3, <3>2 DEF LiveIn
    <3>4. QED
      BY <2>2, <3>2, <3>3
  <2>8. ASSUME NEW a \in Asked, Holds(s, a) PROVE Holds(t, a)
    <3>1. a[2] \in t.ids /\ a[2] # id
      BY <1>2, <2>2, <2>8 DEF Holds
    <3>2. ASSUME a[1] = "erased", NEW p \in DOMAIN t.log, t.log[p].id = a[2]
          PROVE  ~t.log[p].live
      <4>1. p # Len(s.log) + 1
        BY <2>3, <3>1, <3>2
      <4>2. p \in DOMAIN s.log /\ t.log[p] = s.log[p]
        BY <2>1, <2>3, <2>4, <4>1
      <4>3. QED
        BY <2>8, <3>2, <4>2 DEF Holds
    <3>3. QED
      BY <3>1, <3>2 DEF Holds
  <2>9. QED
    BY <2>1, <2>2, <2>3, <2>5, <2>6, <2>7, <2>8 DEF Sound, StoreOK, Keeps, Holds, t
<1>3. QED
  BY <1>1, <1>2

(* redact: nothing is behind a cursor any more.                            *)
LEMMA Redacting ==
  ASSUME NEW s, Sound(s), NEW p \in DOMAIN s.log
  PROVE  LET t == Redacted(s, p)
         IN  /\ Sound(t) /\ Keeps(s, t) /\ t.queue = s.queue /\ t.gen = s.gen
             /\ Holds(t, <<"erased", s.log[p].id>>) /\ s.log[p].id \in EventIds
<1> DEFINE t == Redacted(s, p)
<1>1. /\ s.log \in Seq(Event) /\ Len(s.log) \in Nat /\ DOMAIN s.log = 1..Len(s.log)
      /\ \A q \in DOMAIN s.log : s.log[q] \in Event
  BY DEF Sound, StoreOK
<1>2. /\ DOMAIN t = DOMAIN s
      /\ t.log = [q \in DOMAIN s.log |->
                    IF q = p THEN [s.log[q] EXCEPT !.live = FALSE] ELSE s.log[q]]
      /\ t.cursor = [d \in Derives |-> 0]
      /\ t.ids = s.ids /\ t.view = s.view /\ t.gen = s.gen /\ t.queue = s.queue
  BY DEF Redacted, Sound, StoreOK
<1> HIDE DEF t
<1>3. /\ DOMAIN t.log = DOMAIN s.log
      /\ \A q \in DOMAIN s.log :
           /\ t.log[q] \in Event /\ t.log[q].id = s.log[q].id
           /\ q = p => ~t.log[q].live
           /\ q # p => t.log[q] = s.log[q]
  <2>1. DOMAIN t.log = DOMAIN s.log
    BY <1>2
  <2>2. ASSUME NEW q \in DOMAIN s.log, q # p PROVE t.log[q] = s.log[q]
    BY <1>2, <2>2
  <2>3. t.log[p] = [s.log[p] EXCEPT !.live = FALSE] /\ s.log[p] \in Event
    BY <1>1, <1>2
  <2>4. t.log[p] \in Event /\ t.log[p].id = s.log[p].id /\ ~t.log[p].live
    BY <2>3 DEF Event
  <2>5. QED
    BY <1>1, <2>1, <2>2, <2>4
<1>4. t.log \in Seq(Event) /\ Len(t.log) = Len(s.log)
  <2>1. t.log \in [1..Len(s.log) -> Event]
    BY <1>1, <1>2, <1>3
  <2>2. QED
    BY <1>1, <2>1
<1>5. StoreOK(t)
  BY <1>1, <1>2, <1>4 DEF Sound, StoreOK
<1>6. Once(t)
  BY <1>2, <1>3 DEF Once, Sound
<1>7. Folded(t)
  BY <1>2 DEF Folded, LiveIn
<1>8. ASSUME NEW a \in Asked, Holds(s, a) PROVE Holds(t, a)
  BY <1>2, <1>3, <1>8 DEF Holds
<1>9. Holds(t, <<"erased", s.log[p].id>>)
  BY <1>2, <1>3 DEF Holds, Sound, Once
<1>10. QED
  BY <1>1, <1>2, <1>4, <1>5, <1>6, <1>7, <1>8, <1>9 DEF Sound, StoreOK, Keeps, Event, t

(* A view that only grows, a cursor that only passes what is in the view,  *)
(* and whatever is queued keep the store sound.                            *)
LEMMA Advancing ==
  ASSUME NEW s, Sound(s), NEW t, DOMAIN t = DOMAIN s, t.log = s.log, t.ids = s.ids,
         t.cursor \in [Derives -> 0..Len(s.log)],
         t.view \in [Derives -> SUBSET (1..Len(s.log))],
         t.gen \in Nat, s.gen <= t.gen, t.queue \in [Derives -> 0..t.gen], Folded(t)
  PROVE  Sound(t) /\ Keeps(s, t)
<1>1. StoreOK(t)
  BY DEF Sound, StoreOK
<1>2. Once(t)
  BY DEF Sound, Once
<1>3. Keeps(s, t)
  BY DEF Sound, StoreOK, Keeps, Holds
<1>4. QED
  BY <1>1, <1>2, <1>3 DEF Sound

(* The cursor of a derive that returned passes only what is in its view.   *)
LEMMA Committing ==
  ASSUME EventFoldAssumption, IInv, InRun, GuestDone
  PROVE  LET t == Committed(db, thread.d)
         IN  Sound(t) /\ Keeps(db, t) /\ t.queue = db.queue /\ t.gen = db.gen
<1> DEFINE t == Committed(db, thread.d)
<1> USE DEF IInv
<1>1. CASE thread.staged = None
  BY <1>1 DEF Committed, Keeps, Sound, StoreOK
<1>2. CASE thread.staged # None
  <2>1. /\ thread.d \in Derives /\ thread.staged \in 0..Len(db.log)
        /\ LiveIn(db.log, 0, thread.staged) \subseteq db.view[thread.d]
    <3>1. thread.d \in Derives /\ thread.staged \in None..Len(db.log)
      BY DEF InRun, Shapes, Thread
    <3>2. LiveIn(db.log, 0, thread.staged) \subseteq db.view[thread.d]
      BY <1>2 DEF Running, GuestDone
    <3>3. Len(db.log) \in Nat
      BY DEF Sound, StoreOK
    <3>4. QED
      BY <1>2, <3>1, <3>2, <3>3 DEF None
  <2>2. /\ DOMAIN t = DOMAIN db /\ t.log = db.log /\ t.ids = db.ids /\ t.view = db.view
        /\ t.gen = db.gen /\ t.queue = db.queue
        /\ t.cursor = [db.cursor EXCEPT ![thread.d] = thread.staged]
    BY <1>2 DEF Committed, Sound, StoreOK
  <2> HIDE DEF t
  <2>3. t.cursor \in [Derives -> 0..Len(db.log)]
    BY <2>1, <2>2 DEF Sound, StoreOK
  <2>4. Folded(t)
    BY <2>1, <2>2 DEF Sound, StoreOK, Folded
  <2>5. /\ t.view \in [Derives -> SUBSET (1..Len(db.log))] /\ t.gen \in Nat /\ db.gen <= t.gen
        /\ t.queue \in [Derives -> 0..t.gen] /\ Sound(db)
    BY <2>2 DEF Sound, StoreOK
  <2>6. Sound(t) /\ Keeps(db, t)
    BY <2>2, <2>3, <2>4, <2>5, Advancing
  <2>7. QED
    BY <2>2, <2>6 DEF t
<1>3. QED
  BY <1>1, <1>2

(* The continuation is cleared if it is the one the run was started for.   *)
LEMMA Acknowledging ==
  ASSUME NEW s, Sound(s), NEW d \in Derives
  PROVE  LET t == Acknowledged(s, d)
         IN  /\ Sound(t) /\ Keeps(s, t)
             /\ \A e \in Derives \ {d} : t.queue[e] = s.queue[e]
             /\ t.queue[d] = IF s.queue[d] = thread.token[d] THEN 0 ELSE s.queue[d]
             /\ t # s => s.queue[d] # 0 /\ s.queue[d] = thread.token[d]
<1> DEFINE t == Acknowledged(s, d)
<1>1. CASE s.queue[d] = 0 \/ s.queue[d] # thread.token[d]
  BY <1>1 DEF Acknowledged, Keeps, Sound, StoreOK
<1>2. CASE ~(s.queue[d] = 0 \/ s.queue[d] # thread.token[d])
  <2>1. /\ DOMAIN t = DOMAIN s /\ t.log = s.log /\ t.ids = s.ids /\ t.view = s.view
        /\ t.cursor = s.cursor /\ t.gen = s.gen + 1 /\ t.queue = [s.queue EXCEPT ![d] = 0]
    BY <1>2 DEF Acknowledged, Sound, StoreOK
  <2> HIDE DEF t
  <2>2. /\ t.gen \in Nat /\ s.gen <= t.gen /\ t.queue \in [Derives -> 0..t.gen]
        /\ t.cursor \in [Derives -> 0..Len(s.log)]
        /\ t.view \in [Derives -> SUBSET (1..Len(s.log))]
    BY <2>1 DEF Sound, StoreOK
  <2>3. Folded(t)
    BY <2>1 DEF Sound, Folded
  <2>4. Sound(t) /\ Keeps(s, t)
    BY <2>1, <2>2, <2>3, Advancing
  <2>5. QED
    BY <1>2, <2>1, <2>4 DEF Sound, StoreOK, t
<1>3. QED
  BY <1>1, <1>2

(* The store a request or a derive was told about is kept.                 *)
LEMMA KeepsSame ==
  ASSUME NEW s, Sound(s)
  PROVE  Keeps(s, s)
BY DEF Keeps, Sound, StoreOK

LEMMA KeepsTwice ==
  ASSUME NEW s, NEW t, NEW u, Sound(s), Sound(t), Sound(u), Keeps(s, t), Keeps(t, u)
  PROVE  Keeps(s, u)
BY DEF Keeps, Sound, StoreOK

-----------------------------------------------------------------------------
(* Every step keeps the invariant                                          *)

LEMMA Initially == EventFoldAssumption /\ Init => IInv
<1> SUFFICES ASSUME EventFoldAssumption, Init PROVE IInv
  OBVIOUS
<1>1. Sound(db) /\ Sound(disk)
  <2>1. StoreOK(db)
    BY DEF Init, StoreOK
  <2>2. Once(db) /\ Folded(db)
    BY DEF Init, Once, Folded, LiveIn
  <2>3. QED
    BY <2>1, <2>2 DEF Init, Sound
<1>2. thread \in Thread(db.gen, Len(db.log))
  BY DEF Init, Free, Thread, None, Nobody
<1>3. Shapes
  <2>1. up \in BOOLEAN /\ owed \in [Derives -> BOOLEAN]
    BY DEF Init
  <2>2. told \in [Requests -> SUBSET Asked] /\ acked \subseteq Asked /\ pend \subseteq Derives
    BY DEF Init
  <2>3. key \in Derives \cup {Nobody} /\ faults \in 0..MaxFaults
    BY DEF EventFoldAssumption, Init
  <2>4. /\ waits \in BOOLEAN /\ unwritten \in 0..MaxFaults
        /\ saved \in [acked : SUBSET Asked, owed : [Derives -> BOOLEAN]]
    <3>1. waits \in BOOLEAN
      BY Zenon DEF Init
    <3>2. unwritten \in 0..MaxFaults
      BY DEF EventFoldAssumption, Init
    <3>3. saved = [acked |-> acked, owed |-> owed]
      BY DEF Init
    <3>4. QED
      BY <2>1, <2>2, <3>1, <3>2, <3>3
  <2>5. QED
    BY <1>2, <2>1, <2>2, <2>3, <2>4 DEF Shapes
<1>4. Answers /\ Running
  BY DEF Init, Free, Answers, Running, InRun
<1>5. Owing
  BY DEF Init, Free, Owing, OwedIsQueued, InRound, InRun
<1>6. QED
  BY <1>1, <1>3, <1>4, <1>5 DEF IInv

(* A snapshot is not taken, or written, or fails.                          *)
Snapped ==
  \/ UNCHANGED <<disk, saved, unwritten>>
  \/ disk' = db' /\ saved' = [acked |-> acked', owed |-> owed'] /\ unwritten' = unwritten
  \/ UNCHANGED <<disk, saved>> /\ faults' + unwritten < MaxFaults /\ unwritten' = unwritten + 1

(* What becomes of the snapshot in a step.                                 *)
LEMMA Snapshots ==
  ASSUME [Next]_vars
  PROVE  Snapped
<1>1. Persist => Snapped
  BY DEF Persist, Snapped
<1>2. ASSUME NEW r \in Requests, NEW id \in EventIds, RequestAppend(r, id) PROVE Snapped
  BY <1>2 DEF RequestAppend, Snapped
<1>3. ASSUME NEW r \in Requests, NEW p \in DOMAIN db.log, RequestRedact(r, p) PROVE Snapped
  BY <1>3 DEF RequestRedact, Snapped
<1>4. ASSUME NEW r \in Requests, Finish(r) \/ Trap(r) PROVE Snapped
  BY <1>1, <1>4 DEF Finish, Trap, Close
<1>5. ASSUME NEW id \in EventIds, TickAppend(id) PROVE Snapped
  BY <1>5 DEF TickAppend, Calm, Snapped
<1>6. ASSUME NEW p \in DOMAIN db.log, TickRedact(p) PROVE Snapped
  BY <1>6 DEF TickRedact, Calm, Snapped
<1>7. ASSUME NEW d \in Derives, JobDerive(d) \/ HotRun(d) PROVE Snapped
  BY <1>7 DEF JobDerive, HotRun, Calm, Snapped
<1>8. ASSUME NEW n \in Limits, Since(n) PROVE Snapped
  BY <1>8 DEF Since, Calm, Snapped
<1>9. CASE Start \/ Stop \/ Tick \/ TickEnd \/ Retry \/ TrapHot \/ TrapJob \/ Crash
  BY <1>9 DEF Start, Stop, Tick, TickEnd, Retry, TrapHot, TrapJob, Crash, Snapped
<1>10. CASE StartFails \/ RoundEnd \/ Continue \/ TrapCold
  BY <1>1, <1>10 DEF StartFails, RoundEnd, Continue, TrapCold
<1>11. CASE Pick \/ Publish \/ ReturnHot \/ ReturnJob
  BY <1>11 DEF Pick, Publish, ReturnHot, ReturnJob, Calm, Snapped
<1>12. CASE ReturnCold
  <2>1. UNCHANGED <<disk, saved, unwritten>> \/ Persist
    BY <1>12 DEF ReturnCold
  <2>2. QED
    BY <1>1, <2>1 DEF Snapped
<1>13. CASE UNCHANGED vars
  BY <1>13 DEF vars, Snapped
<1>14. QED
  BY <1>2, <1>3, <1>4, <1>5, <1>6, <1>7, <1>8, <1>9, <1>10, <1>11, <1>12, <1>13 DEF Next

(* What a step may do to the stores.                                       *)
Stored ==
  /\ Sound(db') /\ Sound(disk') /\ disk' \in {disk, db'}
  /\ \/ Keeps(db, db')
     \/ /\ db' = disk /\ disk' = disk /\ acked' = saved.acked
        /\ told' = [r \in Requests |-> {}] /\ thread' = Free

(* A store stays sound, and what it held it holds, but for a crash.        *)
LEMMA StoresKept ==
  ASSUME EventFoldAssumption, IInv, [Next]_vars
  PROVE  Stored
<1> USE DEF EventFoldAssumption, IInv
<1> Keeps(db, db) /\ Sound(db) /\ Sound(disk)
  BY KeepsSame
<1>1. ASSUME NEW r \in Requests, NEW id \in EventIds, RequestAppend(r, id) PROVE Stored
  <2>1. Sound(db') /\ Keeps(db, db')
    BY <1>1, Appending DEF RequestAppend, MayCall
  <2>2. QED
    BY <1>1, <2>1 DEF RequestAppend, MayCall, Stored
<1>2. ASSUME NEW r \in Requests, NEW p \in DOMAIN db.log, RequestRedact(r, p) PROVE Stored
  <2>1. Sound(db') /\ Keeps(db, db')
    BY <1>2, Redacting DEF RequestRedact, MayCall
  <2>2. QED
    BY <1>2, <2>1 DEF RequestRedact, MayCall, Stored
<1>3. ASSUME NEW r \in Requests, Finish(r) PROVE Stored
  BY <1>3 DEF Finish, Close, Persist, Stored
<1>4. ASSUME NEW r \in Requests, Trap(r) PROVE Stored
  BY <1>4 DEF Trap, Close, Persist, Stored
<1>5. ASSUME NEW id \in EventIds, TickAppend(id) PROVE Stored
  <2>1. Sound(db') /\ Keeps(db, db')
    BY <1>5, Appending DEF TickAppend, InBody, Calm
  <2>2. QED
    BY <1>5, <2>1 DEF TickAppend, InBody, Calm, Stored
<1>6. ASSUME NEW p \in DOMAIN db.log, TickRedact(p) PROVE Stored
  <2>1. Sound(db') /\ Keeps(db, db')
    BY <1>6, Redacting DEF TickRedact, InBody, Calm
  <2>2. QED
    BY <1>6, <2>1 DEF TickRedact, InBody, Calm, Stored
<1>7. ASSUME NEW d \in Derives, JobDerive(d) PROVE Stored
  BY <1>7 DEF JobDerive, InBody, Calm, Stored
<1>8. ASSUME NEW d \in Derives, HotRun(d) PROVE Stored
  BY <1>8 DEF HotRun, Calm, Free, Stored
<1>9. ASSUME NEW n \in Limits, Since(n) PROVE Stored
  BY <1>9 DEF Since, Calm, Stored
<1>10. CASE Start
  BY <1>10 DEF Start, Free, Fault, Stored
<1>11. CASE StartFails
  BY <1>11 DEF StartFails, Free, Fault, Persist, Stored
<1>12. CASE Stop
  BY <1>12 DEF Stop, Fault, Stored
<1>13. CASE Tick
  BY <1>13 DEF Tick, Free, Stored
<1>14. CASE TickEnd
  BY <1>14 DEF TickEnd, InBody, Round, Free, Stored
<1>15. CASE Retry
  BY <1>15 DEF Retry, Round, Free, Stored
<1>16. CASE Pick
  BY <1>16 DEF Pick, Calm, Stored
<1>17. CASE RoundEnd
  BY <1>17 DEF RoundEnd, Free, Persist, Stored
<1>18. CASE Publish
  <2>1. /\ DOMAIN db' = DOMAIN db /\ db'.log = db.log /\ db'.ids = db.ids
        /\ db'.gen = db.gen /\ db'.queue = db.queue /\ db'.cursor = db.cursor
    BY <1>18 DEF Publish, Calm, Sound, StoreOK
  <2>2. /\ thread.d \in Derives /\ thread.got \subseteq 1..Len(db.log)
        /\ db.view \in [Derives -> SUBSET (1..Len(db.log))]
    BY <1>18 DEF Publish, Calm, InRun, Shapes, Thread, Sound, StoreOK
  <2>3. /\ db'.view \in [Derives -> SUBSET (1..Len(db.log))]
        /\ \A d \in Derives : db.view[d] \subseteq db'.view[d]
    <3>1. db'.view = [db.view EXCEPT ![thread.d] = db.view[thread.d] \cup thread.got]
      BY <1>18 DEF Publish, Calm, Sound, StoreOK
    <3>2. QED
      BY <2>2, <3>1
  <2>4. Folded(db')
    BY <2>1, <2>3 DEF Sound, Folded
  <2>5. /\ db'.cursor \in [Derives -> 0..Len(db.log)] /\ db'.gen \in Nat /\ db.gen <= db'.gen
        /\ db'.queue \in [Derives -> 0..db'.gen]
    BY <2>1 DEF Sound, StoreOK
  <2>6. Sound(db') /\ Keeps(db, db')
    BY <2>1, <2>3, <2>4, <2>5, Advancing
  <2>7. QED
    BY <1>18, <2>6 DEF Publish, Calm, Stored
<1>19. CASE Continue
  <2>1. /\ DOMAIN db' = DOMAIN db /\ db'.log = db.log /\ db'.ids = db.ids
        /\ db'.gen = db.gen + 1 /\ db'.cursor = db.cursor /\ db'.view = db.view
        /\ db'.queue = [db.queue EXCEPT ![thread.d] = db.gen + 1]
    BY <1>19 DEF Continue, Persist, Sound, StoreOK
  <2>2. /\ db'.view \in [Derives -> SUBSET (1..Len(db.log))] /\ db'.gen \in Nat /\ db.gen <= db'.gen
        /\ db'.cursor \in [Derives -> 0..Len(db.log)] /\ db'.queue \in [Derives -> 0..db'.gen]
    <3>1. db.gen \in Nat /\ db.queue \in [Derives -> 0..db.gen]
      BY DEF Sound, StoreOK
    <3>2. db.gen + 1 \in 0..(db.gen + 1) /\ 0..db.gen \subseteq 0..(db.gen + 1)
      BY <3>1
    <3>3. db'.queue \in [Derives -> 0..(db.gen + 1)]
      BY <2>1, <3>1, <3>2
    <3>4. QED
      BY <2>1, <3>1, <3>3 DEF Sound, StoreOK
  <2>3. Folded(db')
    BY <2>1 DEF Sound, Folded
  <2>4. Sound(db') /\ Keeps(db, db')
    BY <2>1, <2>2, <2>3, Advancing
  <2>5. QED
    BY <1>19, <2>4 DEF Continue, Persist, Stored
<1>20. CASE ReturnCold
  <2> DEFINE s == Committed(db, thread.d)
  <2>1. InRun /\ GuestDone /\ thread.d \in Derives
    BY <1>20 DEF ReturnCold, InRun, Shapes, Thread
  <2>2. Sound(s) /\ Keeps(db, s)
    BY <2>1, Committing
  <2>3. db' = Acknowledged(s, thread.d) /\ disk' \in {disk, db'}
    BY <1>20, Snapshots DEF ReturnCold, Snapped
  <2> HIDE DEF s
  <2>4. Sound(db') /\ Keeps(s, db')
    BY <2>1, <2>2, <2>3, Acknowledging
  <2>5. Keeps(db, db')
    BY <2>2, <2>4, KeepsTwice
  <2>6. QED
    BY <2>3, <2>4, <2>5 DEF Stored
<1>21. CASE ReturnHot
  <2>1. InRun /\ GuestDone /\ db' = Committed(db, thread.d)
    BY <1>21 DEF ReturnHot, Free, Calm, Running
  <2>2. QED
    BY <1>21, <2>1, Committing DEF ReturnHot, Free, Calm, Stored
<1>22. CASE ReturnJob
  <2>1. InRun /\ GuestDone /\ db' = Committed(db, thread.d)
    BY <1>22 DEF ReturnJob, Calm, Running
  <2>2. QED
    BY <1>22, <2>1, Committing DEF ReturnJob, Calm, Stored
<1>23. CASE TrapCold
  BY <1>23 DEF TrapCold, FoldTrap, Fault, Free, Persist, Stored
<1>24. CASE TrapHot
  BY <1>24 DEF TrapHot, FoldTrap, Fault, Free, Stored
<1>25. CASE TrapJob
  BY <1>25 DEF TrapJob, FoldTrap, Fault, Round, Free, Stored
<1>26. CASE Crash
  BY <1>26 DEF Crash, Fault, Free, Stored
<1>27. CASE UNCHANGED vars
  BY <1>27 DEF vars, Stored
<1>28. QED
  BY <1>1, <1>2, <1>3, <1>4, <1>5, <1>6, <1>7, <1>8, <1>9, <1>10, <1>11, <1>12, <1>13, <1>14, <1>15, <1>16, <1>17, <1>18, <1>19, <1>20, <1>21, <1>22, <1>23, <1>24, <1>25, <1>26, <1>27 DEF Next

(* Where since starts and stops.                                           *)
LEMMA Reading ==
  ASSUME IInv
  PROVE  /\ From \in 0..Len(db.log) /\ Len(db.log) \in Nat
         /\ \A n \in Limits : \A e \in Stops(n) :
              /\ e \in Nat /\ e \in None..Len(db.log) /\ e # None
              /\ LiveIn(db.log, From, e) \subseteq 1..Len(db.log)
<1>1. Len(db.log) \in Nat /\ db.cursor \in [Derives -> 0..Len(db.log)]
  BY DEF IInv, Sound, StoreOK
<1>2. /\ thread.staged \in None..Len(db.log) /\ thread.d \in Derives \cup {Nobody}
      /\ key \in Derives \cup {Nobody}
  BY DEF IInv, Shapes, Thread
<1>3. Key \in Derives \cup {Nobody}
  BY <1>2 DEF Key
<1>4. From \in 0..Len(db.log)
  BY <1>1, <1>2, <1>3 DEF From, None
<1>5. ASSUME NEW n \in Limits, NEW e \in Stops(n)
      PROVE  /\ e \in Nat /\ e \in None..Len(db.log) /\ e # None
             /\ LiveIn(db.log, From, e) \subseteq 1..Len(db.log)
  <2>1. e \in From..Len(db.log)
    BY DEF Stops
  <2>2. QED
    BY <1>1, <1>4, <2>1 DEF LiveIn, None
<1>6. QED
  BY <1>1, <1>4, <1>5

(* The types of what is not a store.                                       *)
Typed ==
  /\ thread' \in Thread(db.gen, Len(db.log)) \/ thread' = Free
  /\ up' \in BOOLEAN /\ waits' \in BOOLEAN /\ pend' \subseteq Derives /\ key' \in Derives \cup {Nobody}
  /\ told' \in [Requests -> SUBSET Asked] /\ acked' \subseteq Asked
  /\ owed' \in [Derives -> BOOLEAN] /\ faults' \in 0..MaxFaults

(* The types of what is not a store.                                       *)
LEMMA TypedKept ==
  ASSUME EventFoldAssumption, IInv, [Next]_vars
  PROVE  Typed
<1> USE DEF EventFoldAssumption, IInv
<1>1. ASSUME NEW r \in Requests, NEW id \in EventIds, RequestAppend(r, id) PROVE Typed
  BY <1>1 DEF RequestAppend, MayCall, Shapes, Typed, Asked
<1>2. ASSUME NEW r \in Requests, NEW p \in DOMAIN db.log, RequestRedact(r, p) PROVE Typed
  <2>1. db.log[p].id \in EventIds
    BY <1>2, Redacting
  <2>2. QED
    BY <1>2, <2>1 DEF RequestRedact, MayCall, Shapes, Typed, Asked
<1>3. ASSUME NEW r \in Requests, Finish(r) PROVE Typed
  BY <1>3 DEF Finish, Close, Persist, Shapes, Typed, Asked
<1>4. ASSUME NEW r \in Requests, Trap(r) PROVE Typed
  BY <1>4 DEF Trap, Close, Persist, Shapes, Typed, Asked
<1>5. ASSUME NEW id \in EventIds, TickAppend(id) PROVE Typed
  <2>1. None \in None..Len(db.log) /\ Len(db.log) \in Nat
    BY DEF Sound, StoreOK, None
  <2>2. thread' \in Thread(db.gen, Len(db.log))
    BY <1>5, <2>1 DEF TickAppend, InBody, Calm, Shapes, Thread
  <2>3. QED
    BY <1>5, <2>2 DEF TickAppend, InBody, Calm, Shapes, Typed
<1>6. ASSUME NEW p \in DOMAIN db.log, TickRedact(p) PROVE Typed
  <2>1. None \in None..Len(db.log) /\ Len(db.log) \in Nat
    BY DEF Sound, StoreOK, None
  <2>2. thread' \in Thread(db.gen, Len(db.log))
    BY <1>6, <2>1 DEF TickRedact, InBody, Calm, Shapes, Thread
  <2>3. QED
    BY <1>6, <2>2 DEF TickRedact, InBody, Calm, Shapes, Typed
<1>7. ASSUME NEW d \in Derives, JobDerive(d) PROVE Typed
  <2>1. None \in None..Len(db.log) /\ Len(db.log) \in Nat
    BY DEF Sound, StoreOK, None
  <2>2. thread' \in Thread(db.gen, Len(db.log))
    BY <1>7, <2>1 DEF JobDerive, InBody, Calm, Shapes, Thread
  <2>3. QED
    BY <1>7, <2>2 DEF JobDerive, InBody, Calm, Shapes, Typed
<1>8. ASSUME NEW d \in Derives, HotRun(d) PROVE Typed
  <2>1. thread' \in Thread(db.gen, Len(db.log))
    <3>1. None \in None..Len(db.log) /\ db.gen \in Nat
      BY DEF Sound, StoreOK, None
    <3>2. thread' = [at |-> "hot", d |-> d, todo |-> {}, token |-> [e \in Derives |-> 0],
                     wrote |-> FALSE, staged |-> None, got |-> {}, again |-> FALSE]
      BY <1>8 DEF HotRun, Calm, Free
    <3>3. [e \in Derives |-> 0] \in [Derives -> 0..db.gen]
      BY <3>1
    <3>4. QED
      BY <3>1, <3>2, <3>3 DEF Thread
  <2>2. up' \in BOOLEAN /\ waits' \in BOOLEAN
    BY <1>8 DEF HotRun, Calm, Free, Shapes
  <2>3. QED
    BY <1>8, <2>1, <2>2 DEF HotRun, Calm, Free, Shapes, Typed
<1>9. ASSUME NEW n \in Limits, Since(n) PROVE Typed
  <2>1. PICK e \in Stops(n) :
          thread' = [thread EXCEPT !.staged = e,
                       !.got = IF InRun THEN @ \cup LiveIn(db.log, From, e) ELSE {}]
    BY <1>9 DEF Since
  <2>2. e \in None..Len(db.log) /\ LiveIn(db.log, From, e) \subseteq 1..Len(db.log)
    BY <2>1, Reading
  <2>3. thread' \in Thread(db.gen, Len(db.log))
    BY <2>1, <2>2 DEF Shapes, Thread
  <2>4. QED
    BY <1>9, <2>3 DEF Since, Calm, Shapes, Typed
<1>10. CASE Start
  <2>1. thread' \in Thread(db.gen, Len(db.log))
    <3>1. None \in None..Len(db.log) /\ db.gen \in Nat
      BY DEF Sound, StoreOK, None
    <3>2. thread' = [at |-> "start", d |-> Nobody, todo |-> {}, token |-> [e \in Derives |-> 0],
                     wrote |-> FALSE, staged |-> None, got |-> {}, again |-> FALSE]
      BY <1>10 DEF Start, Free, Fault
    <3>3. [e \in Derives |-> 0] \in [Derives -> 0..db.gen]
      BY <3>1
    <3>4. QED
      BY <3>1, <3>2, <3>3 DEF Thread
  <2>2. up' \in BOOLEAN /\ waits' \in BOOLEAN
    BY <1>10 DEF Start, Free, Fault, Shapes
  <2>3. QED
    BY <1>10, <2>1, <2>2 DEF Start, Free, Fault, Shapes, Typed
<1>11. CASE StartFails
  <2>1. up' \in BOOLEAN /\ waits' \in BOOLEAN
    BY <1>11 DEF StartFails, Free, Fault, Persist
  <2>2. QED
    BY <1>11, <2>1 DEF StartFails, Free, Fault, Persist, Shapes, Typed
<1>12. CASE Stop
  <2>1. up' \in BOOLEAN /\ waits' \in BOOLEAN
    BY <1>12 DEF Stop, Fault
  <2>2. QED
    BY <1>12, <2>1 DEF Stop, Fault, Shapes, Typed
<1>13. CASE Tick
  <2>1. thread' \in Thread(db.gen, Len(db.log))
    <3>1. None \in None..Len(db.log) /\ db.gen \in Nat
      BY DEF Sound, StoreOK, None
    <3>2. thread' = [at |-> "tick", d |-> Nobody, todo |-> {}, token |-> [e \in Derives |-> 0],
                     wrote |-> FALSE, staged |-> None, got |-> {}, again |-> FALSE]
      BY <1>13 DEF Tick, Free
    <3>3. [e \in Derives |-> 0] \in [Derives -> 0..db.gen]
      BY <3>1
    <3>4. QED
      BY <3>1, <3>2, <3>3 DEF Thread
  <2>2. up' \in BOOLEAN /\ waits' \in BOOLEAN
    BY <1>13 DEF Tick, Free, Shapes
  <2>3. QED
    BY <1>13, <2>1, <2>2 DEF Tick, Free, Shapes, Typed
<1>14. CASE TickEnd
  <2>1. db.queue \in [Derives -> 0..db.gen] /\ pend' \subseteq Derives
    BY <1>14 DEF TickEnd, InBody, Round, Free, Sound, StoreOK, Shapes
  <2>2. thread' \in Thread(db.gen, Len(db.log))
    <3>1. thread' = [at |-> "cold", d |-> Nobody, todo |-> pend', token |-> db.queue,
                     wrote |-> FALSE, staged |-> None, got |-> {}, again |-> FALSE]
      BY <1>14 DEF TickEnd, InBody, Round, Free
    <3>2. None \in None..Len(db.log)
      BY DEF Sound, StoreOK, None
    <3>3. QED
      BY <2>1, <3>1, <3>2 DEF Thread
  <2>3. QED
    BY <1>14, <2>1, <2>2 DEF TickEnd, InBody, Round, Free, Shapes, Typed
<1>15. CASE Retry
  <2>1. db.queue \in [Derives -> 0..db.gen] /\ pend' \subseteq Derives
    BY <1>15 DEF Retry, Round, Free, Sound, StoreOK, Shapes
  <2>2. thread' \in Thread(db.gen, Len(db.log))
    <3>1. thread' = [at |-> "cold", d |-> Nobody, todo |-> pend', token |-> db.queue,
                     wrote |-> FALSE, staged |-> None, got |-> {}, again |-> FALSE]
      BY <1>15 DEF Retry, Round, Free
    <3>2. None \in None..Len(db.log)
      BY DEF Sound, StoreOK, None
    <3>3. QED
      BY <2>1, <3>1, <3>2 DEF Thread
  <2>3. QED
    BY <1>15, <2>1, <2>2 DEF Retry, Round, Free, Shapes, Typed
<1>16. CASE Pick
  <2>1. None \in None..Len(db.log) /\ Len(db.log) \in Nat
    BY DEF Sound, StoreOK, None
  <2>2. PICK d \in thread.todo :
          /\ thread' = [thread EXCEPT !.d = d, !.todo = @ \ {d}, !.staged = None,
                                      !.got = {}, !.again = FALSE]
          /\ key' = d
    BY <1>16 DEF Pick
  <2>3. d \in Derives
    BY <2>2 DEF Shapes, Thread
  <2>4. thread' \in Thread(db.gen, Len(db.log))
    BY <2>1, <2>2, <2>3 DEF Shapes, Thread
  <2>5. QED
    BY <1>16, <2>2, <2>3, <2>4 DEF Pick, Calm, Shapes, Typed
<1>17. CASE RoundEnd
  BY <1>17 DEF RoundEnd, Free, Persist, Shapes, Typed, Asked
<1>18. CASE Publish
  BY <1>18 DEF Publish, Calm, Shapes, Typed, Asked
<1>19. CASE Continue
  <2>1. None \in None..Len(db.log) /\ Len(db.log) \in Nat
    BY DEF Sound, StoreOK, None
  <2>2. thread' \in Thread(db.gen, Len(db.log))
    BY <1>19, <2>1 DEF Continue, Persist, Shapes, Thread
  <2>3. QED
    BY <1>19, <2>2 DEF Continue, Persist, Shapes, Typed
<1>20. CASE ReturnCold
  <2>1. None \in None..Len(db.log) /\ Len(db.log) \in Nat
    BY DEF Sound, StoreOK, None
  <2>2. thread' \in Thread(db.gen, Len(db.log))
    BY <1>20, <2>1 DEF ReturnCold, Shapes, Thread
  <2>3. owed' \in [Derives -> BOOLEAN]
    <3>1. thread.again \in BOOLEAN /\ owed' = [owed EXCEPT ![thread.d] = thread.again]
      BY <1>20 DEF ReturnCold, Shapes, Thread
    <3>2. QED
      BY <3>1 DEF Shapes
  <2>4. pend' \subseteq Derives /\ UNCHANGED <<up, waits, key, told, acked, faults>>
    BY <1>20 DEF ReturnCold, Shapes
  <2>5. QED
    BY <2>2, <2>3, <2>4 DEF Shapes, Typed
<1>21. CASE ReturnHot
  BY <1>21 DEF ReturnHot, Free, Calm, Shapes, Typed, Asked
<1>22. CASE ReturnJob
  <2>1. None \in None..Len(db.log) /\ Len(db.log) \in Nat
    BY DEF Sound, StoreOK, None
  <2>2. thread' \in Thread(db.gen, Len(db.log))
    BY <1>22, <2>1 DEF ReturnJob, Calm, Shapes, Thread
  <2>3. QED
    BY <1>22, <2>2 DEF ReturnJob, Calm, Shapes, Typed
<1>23. CASE TrapCold
  BY <1>23 DEF TrapCold, FoldTrap, Fault, Free, Persist, Shapes, Typed, Asked
<1>24. CASE TrapHot
  BY <1>24 DEF TrapHot, FoldTrap, Fault, Free, Shapes, Typed, Asked
<1>25. CASE TrapJob
  <2>1. db.queue \in [Derives -> 0..db.gen] /\ pend' \subseteq Derives
    BY <1>25 DEF TrapJob, FoldTrap, Fault, Round, Free, Sound, StoreOK, Shapes
  <2>2. thread' \in Thread(db.gen, Len(db.log))
    <3>1. thread' = [at |-> "cold", d |-> Nobody, todo |-> pend', token |-> db.queue,
                     wrote |-> FALSE, staged |-> None, got |-> {}, again |-> FALSE]
      BY <1>25 DEF TrapJob, FoldTrap, Fault, Round, Free
    <3>2. None \in None..Len(db.log)
      BY DEF Sound, StoreOK, None
    <3>3. QED
      BY <2>1, <3>1, <3>2 DEF Thread
  <2>3. QED
    BY <1>25, <2>1, <2>2 DEF TrapJob, FoldTrap, Fault, Round, Free, Shapes, Typed
<1>26. CASE Crash
  <2>1. up' \in BOOLEAN /\ waits' \in BOOLEAN
    BY <1>26 DEF Crash, Fault, Free
  <2>2. QED
    BY <1>26, <2>1 DEF Crash, Fault, Free, Shapes, Typed
<1>27. CASE UNCHANGED vars
  BY <1>27 DEF vars, Shapes, Typed, Asked
<1>28. QED
  BY <1>1, <1>2, <1>3, <1>4, <1>5, <1>6, <1>7, <1>8, <1>9, <1>10, <1>11, <1>12, <1>13, <1>14, <1>15, <1>16, <1>17, <1>18, <1>19, <1>20, <1>21, <1>22, <1>23, <1>24, <1>25, <1>26, <1>27 DEF Next

LEMMA OneMore ==
  ASSUME NEW m \in Nat, NEW f \in Nat, NEW u \in Nat, f + u < m
  PROVE  u + 1 \in 0..m
OBVIOUS

(* Shapes, with the bounds of the next store.                              *)
LEMMA ShapesKept ==
  ASSUME EventFoldAssumption, IInv, [Next]_vars
  PROVE  Shapes'
<1>1. Typed /\ Stored
  BY TypedKept, StoresKept
<1>2. db.gen \in Nat /\ db'.gen \in Nat /\ Len(db.log) \in Nat /\ Len(db'.log) \in Nat
  BY <1>1 DEF IInv, Stored, Sound, StoreOK
<1>3. thread' \in Thread(db'.gen, Len(db'.log))
  <2>1. CASE thread' = Free
    <3>1. None \in None..Len(db'.log) /\ [d \in Derives |-> 0] \in [Derives -> 0..db'.gen]
      BY <1>2 DEF None
    <3>2. QED
      BY <2>1, <3>1 DEF Free, Thread
  <2>2. CASE thread' # Free
    <3>1. thread' \in Thread(db.gen, Len(db.log))
      BY <1>1, <2>2 DEF Typed
    <3>2. db.gen <= db'.gen /\ Len(db.log) <= Len(db'.log)
      BY <1>1, <2>2 DEF Stored, Keeps
    <3>3. /\ [Derives -> 0..db.gen] \subseteq [Derives -> 0..db'.gen]
          /\ None..Len(db.log) \subseteq None..Len(db'.log)
          /\ SUBSET (1..Len(db.log)) \subseteq SUBSET (1..Len(db'.log))
      BY <1>2, <3>2 DEF None
    <3>4. QED
      BY <3>1, <3>3 DEF Thread
  <2>3. QED
    BY <2>1, <2>2
<1>4. saved' \in [acked : SUBSET Asked, owed : [Derives -> BOOLEAN]]
  <2>1. /\ saved \in [acked : SUBSET Asked, owed : [Derives -> BOOLEAN]]
        /\ acked' \subseteq Asked /\ owed' \in [Derives -> BOOLEAN]
    BY <1>1 DEF IInv, Shapes, Typed
  <2>2. saved' = saved \/ saved' = [acked |-> acked', owed |-> owed']
    BY Snapshots DEF Snapped
  <2>3. QED
    BY <2>1, <2>2
<1>5. unwritten' \in 0..MaxFaults
  <2>1. MaxFaults \in Nat /\ unwritten \in 0..MaxFaults /\ faults' \in 0..MaxFaults
    BY <1>1 DEF EventFoldAssumption, IInv, Shapes, Typed
  <2>2. unwritten' = unwritten \/ (faults' + unwritten < MaxFaults /\ unwritten' = unwritten + 1)
    BY Snapshots DEF Snapped
  <2>3. unwritten \in Nat /\ faults' \in Nat
    BY <2>1
  <2>4. CASE unwritten' = unwritten
    BY <2>1, <2>4
  <2>5. CASE faults' + unwritten < MaxFaults /\ unwritten' = unwritten + 1
    <3>1. unwritten + 1 \in 0..MaxFaults
      BY <2>1, <2>3, <2>5, OneMore, Zenon
    <3>2. QED
      BY <2>5, <3>1
  <2>6. QED
    BY <2>2, <2>4, <2>5
<1>6. QED
  BY <1>1, <1>3, <1>4, <1>5 DEF Typed, Shapes

(* What is told is held, and what is answered was told.                    *)
TellsTrue ==
  /\ \A r \in Requests : \A a \in told'[r] : a \in told[r] \/ Holds(db', a)
  /\ \/ acked' = acked
     \/ acked' = saved.acked /\ db' = disk /\ disk' = disk
     \/ db' = db /\ Persist /\ \E r \in Requests : acked' = acked \cup told[r]

(* What requests are told.                                                 *)
LEMMA TellsKept ==
  ASSUME EventFoldAssumption, IInv, [Next]_vars
  PROVE  TellsTrue
<1> USE DEF EventFoldAssumption, IInv
<1>1. ASSUME NEW r \in Requests, NEW id \in EventIds, RequestAppend(r, id) PROVE TellsTrue
  <2>1. Holds(db', <<"sent", id>>) /\ told' = [told EXCEPT ![r] = @ \cup {<<"sent", id>>}]
    BY <1>1, Appending DEF RequestAppend, MayCall
  <2>2. QED
    BY <1>1, <2>1 DEF RequestAppend, MayCall, Shapes, TellsTrue
<1>2. ASSUME NEW r \in Requests, NEW p \in DOMAIN db.log, RequestRedact(r, p) PROVE TellsTrue
  <2>1. /\ Holds(db', <<"erased", db.log[p].id>>)
        /\ told' = [told EXCEPT ![r] = @ \cup {<<"erased", db.log[p].id>>}]
    BY <1>2, Redacting DEF RequestRedact, MayCall
  <2>2. QED
    BY <1>2, <2>1 DEF RequestRedact, MayCall, Shapes, TellsTrue
<1>3. ASSUME NEW r \in Requests, Finish(r) PROVE TellsTrue
  BY <1>3 DEF Finish, Close, Shapes, TellsTrue
<1>4. ASSUME NEW r \in Requests, Trap(r) PROVE TellsTrue
  BY <1>4 DEF Trap, Close, Persist, Shapes, TellsTrue
<1>5. ASSUME NEW id \in EventIds, TickAppend(id) PROVE TellsTrue
  BY <1>5 DEF TickAppend, InBody, Calm, Shapes, TellsTrue
<1>6. ASSUME NEW p \in DOMAIN db.log, TickRedact(p) PROVE TellsTrue
  BY <1>6 DEF TickRedact, InBody, Calm, Shapes, TellsTrue
<1>7. ASSUME NEW d \in Derives, JobDerive(d) PROVE TellsTrue
  BY <1>7 DEF JobDerive, InBody, Calm, Shapes, TellsTrue
<1>8. ASSUME NEW d \in Derives, HotRun(d) PROVE TellsTrue
  BY <1>8 DEF HotRun, Calm, Free, Shapes, TellsTrue
<1>9. ASSUME NEW n \in Limits, Since(n) PROVE TellsTrue
  BY <1>9 DEF Since, Calm, Shapes, TellsTrue
<1>10. CASE Start
  BY <1>10 DEF Start, Free, Fault, Shapes, TellsTrue
<1>11. CASE StartFails
  BY <1>11 DEF StartFails, Free, Fault, Persist, Shapes, TellsTrue
<1>12. CASE Stop
  BY <1>12 DEF Stop, Fault, Shapes, TellsTrue
<1>13. CASE Tick
  BY <1>13 DEF Tick, Free, Shapes, TellsTrue
<1>14. CASE TickEnd
  BY <1>14 DEF TickEnd, InBody, Round, Free, Shapes, TellsTrue
<1>15. CASE Retry
  BY <1>15 DEF Retry, Round, Free, Shapes, TellsTrue
<1>16. CASE Pick
  BY <1>16 DEF Pick, Calm, Shapes, TellsTrue
<1>17. CASE RoundEnd
  BY <1>17 DEF RoundEnd, Free, Persist, Shapes, TellsTrue
<1>18. CASE Publish
  BY <1>18 DEF Publish, Calm, Shapes, TellsTrue
<1>19. CASE Continue
  BY <1>19 DEF Continue, Persist, Shapes, TellsTrue
<1>20. CASE ReturnCold
  BY <1>20 DEF ReturnCold, Shapes, TellsTrue
<1>21. CASE ReturnHot
  BY <1>21 DEF ReturnHot, Free, Calm, Shapes, TellsTrue
<1>22. CASE ReturnJob
  BY <1>22 DEF ReturnJob, Calm, Shapes, TellsTrue
<1>23. CASE TrapCold
  BY <1>23 DEF TrapCold, FoldTrap, Fault, Free, Persist, Shapes, TellsTrue
<1>24. CASE TrapHot
  BY <1>24 DEF TrapHot, FoldTrap, Fault, Free, Shapes, TellsTrue
<1>25. CASE TrapJob
  BY <1>25 DEF TrapJob, FoldTrap, Fault, Round, Free, Shapes, TellsTrue
<1>26. CASE Crash
  BY <1>26 DEF Crash, Fault, Free, Shapes, TellsTrue
<1>27. CASE UNCHANGED vars
  BY <1>27 DEF vars, Shapes, TellsTrue
<1>28. QED
  BY <1>1, <1>2, <1>3, <1>4, <1>5, <1>6, <1>7, <1>8, <1>9, <1>10, <1>11, <1>12, <1>13, <1>14, <1>15, <1>16, <1>17, <1>18, <1>19, <1>20, <1>21, <1>22, <1>23, <1>24, <1>25, <1>26, <1>27 DEF Next

(* What a request was told stays true.                                     *)
LEMMA AnswersKept ==
  ASSUME EventFoldAssumption, IInv, [Next]_vars
  PROVE  Answers'
<1>1. Stored /\ TellsTrue
  BY StoresKept, TellsKept
<1>2. told \in [Requests -> SUBSET Asked] /\ acked \subseteq Asked
  BY DEF IInv, Shapes
<1>3. ASSUME NEW r \in Requests, NEW a \in told'[r] PROVE Holds(db', a)
  <2>1. CASE Keeps(db, db')
    BY <1>1, <1>2, <1>3, <2>1 DEF IInv, Answers, TellsTrue, Keeps
  <2>2. CASE told' = [q \in Requests |-> {}]
    BY <1>3, <2>2
  <2>3. QED
    BY <1>1, <2>1, <2>2 DEF Stored
<1>4. ASSUME NEW a \in acked' PROVE Holds(db', a)
  <2>1. CASE a \in saved.acked /\ db' = disk
    BY <2>1 DEF IInv, Answers
  <2>2. CASE Keeps(db, db') /\ (a \in acked \/ \E r \in Requests : a \in told[r])
    <3>1. Holds(db, a) /\ a \in Asked
      BY <1>2, <2>2 DEF IInv, Answers
    <3>2. QED
      BY <2>2, <3>1 DEF Keeps
  <2>3. QED
    BY <1>1, <1>4, <2>1, <2>2 DEF Stored, TellsTrue
<1>5. ASSUME NEW a \in saved'.acked PROVE Holds(disk', a)
  BY <1>1, <1>4, <1>5, Snapshots DEF IInv, Answers, Snapped
<1>6. ASSUME unwritten' = 0, NEW a \in acked' PROVE Holds(disk', a)
  <2>1. CASE disk' = db'
    BY <1>4, <2>1
  <2>2. CASE disk' # db'
    <3>1. unwritten \in Nat
      BY DEF IInv, Shapes
    <3>2. UNCHANGED <<disk, saved, unwritten>>
      BY <1>6, <2>2, <3>1, Snapshots DEF Snapped
    <3>3. acked' = acked \/ acked' = saved.acked
      BY <1>1, <1>6, <2>2, <3>1, <3>2 DEF TellsTrue, Persist
    <3>4. QED
      BY <1>6, <3>2, <3>3 DEF IInv, Answers
  <2>3. QED
    BY <2>1, <2>2
<1>7. QED
  BY <1>3, <1>4, <1>5, <1>6 DEF Answers

(* Who runs, from where, and what it has in hand.                          *)
LEMMA RunningKept ==
  ASSUME EventFoldAssumption, IInv, [Next]_vars
  PROVE  Running'
<1> USE DEF EventFoldAssumption, IInv
<1>1. ASSUME NEW r \in Requests, NEW id \in EventIds, RequestAppend(r, id) PROVE Running'
  BY <1>1 DEF RequestAppend, MayCall, Shapes, Thread, Running, InRun, Nobody
<1>2. ASSUME NEW r \in Requests, NEW p \in DOMAIN db.log, RequestRedact(r, p) PROVE Running'
  BY <1>2 DEF RequestRedact, MayCall, Shapes, Thread, Running, InRun, Nobody
<1>3. ASSUME NEW r \in Requests, Finish(r) PROVE Running'
  BY <1>3 DEF Finish, Close, Persist, Shapes, Thread, Running, InRun, Nobody
<1>4. ASSUME NEW r \in Requests, Trap(r) PROVE Running'
  BY <1>4 DEF Trap, Close, Persist, Shapes, Thread, Running, InRun, Nobody
<1>5. ASSUME NEW id \in EventIds, TickAppend(id) PROVE Running'
  BY <1>5 DEF TickAppend, InBody, Calm, Shapes, Thread, Running, InRun, Nobody
<1>6. ASSUME NEW p \in DOMAIN db.log, TickRedact(p) PROVE Running'
  BY <1>6 DEF TickRedact, InBody, Calm, Shapes, Thread, Running, InRun, Nobody
<1>7. ASSUME NEW d \in Derives, JobDerive(d) PROVE Running'
  BY <1>7 DEF JobDerive, InBody, Calm, Shapes, Thread, Running, InRun
<1>8. ASSUME NEW d \in Derives, HotRun(d) PROVE Running'
  <2>1. thread'.at = "hot" /\ thread'.d = d /\ thread'.staged = None /\ d # Nobody
    BY <1>8 DEF HotRun, Calm, Free, Derives, Nobody
  <2>2. QED
    BY <2>1 DEF Running, InRun
<1>9. ASSUME NEW n \in Limits, Since(n) PROVE Running'
  <2>1. PICK e \in Stops(n) :
          thread' = [thread EXCEPT !.staged = e,
                       !.got = IF InRun THEN @ \cup LiveIn(db.log, From, e) ELSE {}]
    BY <1>9 DEF Since
  <2>2. /\ UNCHANGED <<db, key>> /\ thread'.at = thread.at /\ thread'.d = thread.d
        /\ thread'.staged = e
        /\ InRun => thread'.got = thread.got \cup LiveIn(db.log, From, e)
    BY <1>9, <2>1 DEF Since, Shapes, Thread
  <2>3. ASSUME InRun PROVE LiveIn(db.log, 0, e) \subseteq db.view[thread.d] \cup thread'.got
    <3>1. /\ From \in Nat /\ e \in Nat
      BY <2>1, Reading
    <3>2. LiveIn(db.log, 0, From) \subseteq db.view[thread.d] \cup thread.got
      <4>1. CASE thread.staged # None
        BY <2>3, <4>1 DEF From, Running
      <4>2. CASE thread.staged = None
        <5>1. Key = thread.d /\ thread.d # Nobody /\ thread.d \in Derives
          BY <2>3 DEF Key, Running, InRun, Shapes, Thread
        <5>2. From = db.cursor[thread.d]
          BY <4>2, <5>1 DEF From
        <5>3. QED
          BY <5>1, <5>2 DEF Sound, Folded
      <4>3. QED
        BY <4>1, <4>2
    <3>3. QED
      BY <2>2, <2>3, <3>1, <3>2, ReadOn
  <2>4. QED
    BY <2>2, <2>3 DEF Running, InRun
<1>10. CASE Start
  BY <1>10 DEF Start, Free, Fault, Shapes, Thread, Running, InRun, Nobody
<1>11. CASE StartFails
  BY <1>11 DEF StartFails, Free, Fault, Persist, Shapes, Thread, Running, InRun, Nobody
<1>12. CASE Stop
  BY <1>12 DEF Stop, Fault, Shapes, Thread, Running, InRun, Nobody
<1>13. CASE Tick
  BY <1>13 DEF Tick, Free, Shapes, Thread, Running, InRun, Nobody
<1>14. CASE TickEnd
  BY <1>14 DEF TickEnd, InBody, Round, Free, Shapes, Thread, Running, InRun, Nobody
<1>15. CASE Retry
  BY <1>15 DEF Retry, Round, Free, Shapes, Thread, Running, InRun, Nobody
<1>16. CASE Pick
  BY <1>16 DEF Pick, Calm, Shapes, Thread, Running, InRun
<1>17. CASE RoundEnd
  BY <1>17 DEF RoundEnd, Free, Persist, Shapes, Thread, Running, InRun, Nobody
<1>18. CASE Publish
  <2>1. /\ UNCHANGED <<key, thread>> /\ db'.log = db.log
        /\ db'.view = [db.view EXCEPT ![thread.d] = @ \cup thread.got]
    BY <1>18 DEF Publish, Calm, Sound, StoreOK
  <2>2. thread.d \in Derives /\ db.view \in [Derives -> SUBSET (1..Len(db.log))]
    BY <1>18 DEF Publish, Calm, InRun, Shapes, Thread, Sound, StoreOK
  <2>3. db.view[thread.d] \subseteq db'.view[thread.d]
    BY <2>1, <2>2
  <2>4. QED
    BY <2>1, <2>3 DEF Running, InRun
<1>19. CASE Continue
  <2>1. /\ UNCHANGED key /\ db'.log = db.log /\ db'.view = db.view
        /\ thread' = [thread EXCEPT !.again = TRUE]
    BY <1>19 DEF Continue, Persist, Sound, StoreOK
  <2>2. /\ thread'.at = thread.at /\ thread'.d = thread.d /\ thread'.staged = thread.staged
        /\ thread'.got = thread.got
    BY <2>1 DEF Shapes, Thread
  <2>3. QED
    BY <2>1, <2>2 DEF Running, InRun
<1>20. CASE ReturnCold
  BY <1>20 DEF ReturnCold, Shapes, Thread, Running, InRun, Nobody
<1>21. CASE ReturnHot
  BY <1>21 DEF ReturnHot, Free, Calm, Shapes, Thread, Running, InRun, Nobody
<1>22. CASE ReturnJob
  BY <1>22 DEF ReturnJob, Calm, Shapes, Thread, Running, InRun, Nobody
<1>23. CASE TrapCold
  BY <1>23 DEF TrapCold, FoldTrap, Fault, Free, Persist, Shapes, Thread, Running, InRun, Nobody
<1>24. CASE TrapHot
  BY <1>24 DEF TrapHot, FoldTrap, Fault, Free, Shapes, Thread, Running, InRun, Nobody
<1>25. CASE TrapJob
  BY <1>25 DEF TrapJob, FoldTrap, Fault, Round, Free, Shapes, Thread, Running, InRun, Nobody
<1>26. CASE Crash
  BY <1>26 DEF Crash, Fault, Free, Shapes, Thread, Running, InRun, Nobody
<1>27. CASE UNCHANGED vars
  BY <1>27 DEF vars, Running, InRun
<1>28. QED
  BY <1>1, <1>2, <1>3, <1>4, <1>5, <1>6, <1>7, <1>8, <1>9, <1>10, <1>11, <1>12, <1>13, <1>14, <1>15, <1>16, <1>17, <1>18, <1>19, <1>20, <1>21, <1>22, <1>23, <1>24, <1>25, <1>26, <1>27 DEF Next

(* A snapshot keeps what is owed queued on disk, if it is so in memory.    *)
LEMMA OwedOnDisk ==
  ASSUME IInv, Snapped, \A d \in Derives : owed'[d] = (db'.queue[d] # 0),
         unwritten' = 0 /\ UNCHANGED disk =>
           \A d \in Derives : owed'[d] = (disk.queue[d] # 0)
  PROVE  OwedIsQueued'
<1>1. CASE UNCHANGED <<disk, saved, unwritten>>
  BY <1>1 DEF IInv, Owing, OwedIsQueued
<1>2. CASE disk' = db' /\ saved' = [acked |-> acked', owed |-> owed']
  BY <1>2 DEF OwedIsQueued
<1>3. CASE UNCHANGED <<disk, saved>> /\ unwritten' = unwritten + 1
  <2>1. unwritten' # 0
    BY <1>3 DEF IInv, Shapes
  <2>2. QED
    BY <1>3, <2>1 DEF IInv, Owing, OwedIsQueued
<1>4. QED
  BY <1>1, <1>2, <1>3 DEF Snapped

(* Nothing is queued and nothing acknowledged.                             *)
LEMMA StillOwed ==
  ASSUME IInv, Snapped, db'.queue = db.queue, UNCHANGED owed
  PROVE  OwedIsQueued'
<1>1. \A d \in Derives : owed'[d] = (db'.queue[d] # 0)
  BY DEF IInv, Owing, OwedIsQueued
<1>2. CASE unwritten' = 0 /\ unwritten = 0
  <2>1. \A d \in Derives : owed'[d] = (disk.queue[d] # 0)
    BY <1>2 DEF IInv, Owing, OwedIsQueued
  <2>2. QED
    BY <1>1, <2>1, OwedOnDisk
<1>3. CASE unwritten' # 0
  BY <1>1, <1>3, OwedOnDisk
<1>4. CASE unwritten' = 0 /\ unwritten # 0
  <2>1. unwritten \in Nat
    BY DEF IInv, Shapes
  <2>2. FALSE
    BY <1>4, <2>1 DEF Snapped
  <2>3. QED
    BY <2>2
<1>5. QED
  BY <1>2, <1>3, <1>4

(* What is queued, in memory and on disk, and in the round.                *)
LEMMA OwingKept ==
  ASSUME EventFoldAssumption, IInv, [Next]_vars
  PROVE  Owing'
<1> Snapped
  BY Snapshots
<1> USE DEF EventFoldAssumption, IInv
<1>1. ASSUME NEW r \in Requests, NEW id \in EventIds, RequestAppend(r, id) PROVE Owing'
  <2>1. db'.queue = db.queue /\ UNCHANGED owed
    BY <1>1, Appending DEF RequestAppend, MayCall
  <2>2. OwedIsQueued'
    BY <2>1, StillOwed
  <2>3. thread'.at # "cold" /\ ~InRun'
    BY <1>1 DEF RequestAppend, MayCall, Shapes, Thread, Running, InRun
  <2>4. QED
    BY <2>2, <2>3 DEF Owing, InRound
<1>2. ASSUME NEW r \in Requests, NEW p \in DOMAIN db.log, RequestRedact(r, p) PROVE Owing'
  <2>1. db'.queue = db.queue /\ UNCHANGED owed
    BY <1>2, Redacting DEF RequestRedact, MayCall
  <2>2. OwedIsQueued'
    BY <2>1, StillOwed
  <2>3. thread'.at # "cold" /\ ~InRun'
    BY <1>2 DEF RequestRedact, MayCall, Shapes, Thread, Running, InRun
  <2>4. QED
    BY <2>2, <2>3 DEF Owing, InRound
<1>3. ASSUME NEW r \in Requests, Finish(r) PROVE Owing'
  <2>1. db'.queue = db.queue /\ UNCHANGED owed
    BY <1>3 DEF Finish, Close, Persist
  <2>2. OwedIsQueued'
    BY <2>1, StillOwed
  <2>3. thread'.at # "cold" /\ ~InRun'
    BY <1>3 DEF Finish, Close, Persist, Shapes, Thread, Running, InRun
  <2>4. QED
    BY <2>2, <2>3 DEF Owing, InRound
<1>4. ASSUME NEW r \in Requests, Trap(r) PROVE Owing'
  <2>1. db'.queue = db.queue /\ UNCHANGED owed
    BY <1>4 DEF Trap, Close, Persist
  <2>2. OwedIsQueued'
    BY <2>1, StillOwed
  <2>3. thread'.at # "cold" /\ ~InRun'
    BY <1>4 DEF Trap, Close, Persist, Shapes, Thread, Running, InRun
  <2>4. QED
    BY <2>2, <2>3 DEF Owing, InRound
<1>5. ASSUME NEW id \in EventIds, TickAppend(id) PROVE Owing'
  <2>1. db'.queue = db.queue /\ UNCHANGED owed
    BY <1>5, Appending DEF TickAppend, InBody, Calm
  <2>2. OwedIsQueued'
    BY <2>1, StillOwed
  <2>3. thread'.at # "cold" /\ ~InRun'
    BY <1>5 DEF TickAppend, InBody, Calm, Shapes, Thread, Running, InRun
  <2>4. QED
    BY <2>2, <2>3 DEF Owing, InRound
<1>6. ASSUME NEW p \in DOMAIN db.log, TickRedact(p) PROVE Owing'
  <2>1. db'.queue = db.queue /\ UNCHANGED owed
    BY <1>6, Redacting DEF TickRedact, InBody, Calm
  <2>2. OwedIsQueued'
    BY <2>1, StillOwed
  <2>3. thread'.at # "cold" /\ ~InRun'
    BY <1>6 DEF TickRedact, InBody, Calm, Shapes, Thread, Running, InRun
  <2>4. QED
    BY <2>2, <2>3 DEF Owing, InRound
<1>7. ASSUME NEW d \in Derives, JobDerive(d) PROVE Owing'
  <2>1. db'.queue = db.queue /\ UNCHANGED owed
    BY <1>7 DEF JobDerive, InBody, Calm
  <2>2. OwedIsQueued'
    BY <2>1, StillOwed
  <2>3. QED
    BY <1>7, <2>1, <2>2 DEF JobDerive, InBody, Calm, Shapes, Thread, Owing, InRound, InRun, Nobody
<1>8. ASSUME NEW d \in Derives, HotRun(d) PROVE Owing'
  <2>1. db'.queue = db.queue /\ UNCHANGED owed
    BY <1>8 DEF HotRun, Calm, Free
  <2>2. OwedIsQueued'
    BY <2>1, StillOwed
  <2>3. QED
    BY <1>8, <2>1, <2>2 DEF HotRun, Calm, Free, Shapes, Thread, Owing, InRound, InRun, Nobody
<1>9. ASSUME NEW n \in Limits, Since(n) PROVE Owing'
  <2>1. db'.queue = db.queue /\ UNCHANGED owed
    BY <1>9 DEF Since, Calm
  <2>2. OwedIsQueued'
    BY <2>1, StillOwed
  <2>3. QED
    BY <1>9, <2>1, <2>2 DEF Since, Calm, Shapes, Thread, Owing, InRound, InRun, Nobody
<1>10. CASE Start
  <2>1. db'.queue = db.queue /\ UNCHANGED owed
    BY <1>10 DEF Start, Free, Fault
  <2>2. OwedIsQueued'
    BY <2>1, StillOwed
  <2>3. thread'.at # "cold" /\ ~InRun'
    BY <1>10 DEF Start, Free, Fault, Shapes, Thread, Running, InRun
  <2>4. QED
    BY <2>2, <2>3 DEF Owing, InRound
<1>11. CASE StartFails
  <2>1. db'.queue = db.queue /\ UNCHANGED owed
    BY <1>11 DEF StartFails, Free, Fault, Persist
  <2>2. OwedIsQueued'
    BY <2>1, StillOwed
  <2>3. thread'.at # "cold" /\ ~InRun'
    BY <1>11 DEF StartFails, Free, Fault, Persist, Shapes, Thread, Running, InRun
  <2>4. QED
    BY <2>2, <2>3 DEF Owing, InRound
<1>12. CASE Stop
  <2>1. db'.queue = db.queue /\ UNCHANGED owed
    BY <1>12 DEF Stop, Fault
  <2>2. OwedIsQueued'
    BY <2>1, StillOwed
  <2>3. thread'.at # "cold" /\ ~InRun'
    BY <1>12 DEF Stop, Fault, Shapes, Thread, Running, InRun
  <2>4. QED
    BY <2>2, <2>3 DEF Owing, InRound
<1>13. CASE Tick
  <2>1. db'.queue = db.queue /\ UNCHANGED owed
    BY <1>13 DEF Tick, Free
  <2>2. OwedIsQueued'
    BY <2>1, StillOwed
  <2>3. thread'.at # "cold" /\ ~InRun'
    BY <1>13 DEF Tick, Free, Shapes, Thread, Running, InRun
  <2>4. QED
    BY <2>2, <2>3 DEF Owing, InRound
<1>14. CASE TickEnd
  <2>1. db'.queue = db.queue /\ UNCHANGED owed
    BY <1>14 DEF TickEnd, InBody, Round, Free
  <2>2. OwedIsQueued'
    BY <2>1, StillOwed
  <2>3. thread'.d = Nobody /\ thread'.token = db.queue /\ thread'.todo \subseteq Derives
    BY <1>14 DEF TickEnd, InBody, Round, Free, Shapes
  <2>4. QED
    BY <2>1, <2>2, <2>3 DEF Owing, InRound, InRun, Derives, Nobody
<1>15. CASE Retry
  <2>1. db'.queue = db.queue /\ UNCHANGED owed
    BY <1>15 DEF Retry, Round, Free
  <2>2. OwedIsQueued'
    BY <2>1, StillOwed
  <2>3. thread'.d = Nobody /\ thread'.token = db.queue /\ thread'.todo \subseteq Derives
    BY <1>15 DEF Retry, Round, Free, Shapes
  <2>4. QED
    BY <2>1, <2>2, <2>3 DEF Owing, InRound, InRun, Derives, Nobody
<1>16. CASE Pick
  <2>1. db'.queue = db.queue /\ UNCHANGED owed
    BY <1>16 DEF Pick, Calm
  <2>2. OwedIsQueued'
    BY <2>1, StillOwed
  <2>3. PICK d \in thread.todo :
          thread' = [thread EXCEPT !.d = d, !.todo = @ \ {d}, !.staged = None,
                                   !.got = {}, !.again = FALSE]
    BY <1>16 DEF Pick
  <2>4. /\ thread'.d = d /\ thread'.todo = thread.todo \ {d}
        /\ thread'.token = thread.token /\ thread'.again = FALSE
    BY <2>3 DEF Shapes, Thread
  <2>5. InRound'
    BY <1>16, <2>1, <2>3, <2>4 DEF Pick, Owing, InRound
  <2>6. QED
    BY <2>2, <2>4, <2>5 DEF Owing
<1>17. CASE RoundEnd
  <2>1. db'.queue = db.queue /\ UNCHANGED owed
    BY <1>17 DEF RoundEnd, Free, Persist
  <2>2. OwedIsQueued'
    BY <2>1, StillOwed
  <2>3. thread'.at # "cold" /\ ~InRun'
    BY <1>17 DEF RoundEnd, Free, Persist, Shapes, Thread, Running, InRun
  <2>4. QED
    BY <2>2, <2>3 DEF Owing, InRound
<1>18. CASE Publish
  <2>1. db'.queue = db.queue /\ UNCHANGED owed
    BY <1>18 DEF Publish, Calm, Sound, StoreOK
  <2>2. OwedIsQueued'
    BY <2>1, StillOwed
  <2>3. QED
    BY <1>18, <2>1, <2>2 DEF Publish, Calm, Shapes, Thread, Owing, InRound, InRun, Nobody
<1>19. CASE Continue
  <2> DEFINE d == thread.d
  <2>1. /\ d \in Derives /\ d # Nobody /\ db.gen \in Nat /\ db.queue \in [Derives -> 0..db.gen]
        /\ thread.token \in [Derives -> 0..db.gen] /\ owed \in [Derives -> BOOLEAN]
    BY <1>19 DEF Continue, InRun, Shapes, Thread, Sound, StoreOK
  <2>2. /\ db'.queue = [db.queue EXCEPT ![d] = db.gen + 1]
        /\ owed' = [owed EXCEPT ![d] = TRUE]
    BY <1>19 DEF Continue, Sound, StoreOK
  <2>3. thread' = [thread EXCEPT !.again = TRUE]
    BY <1>19 DEF Continue
  <2>4. /\ thread'.at = thread.at /\ thread'.d = d /\ thread'.todo = thread.todo
        /\ thread'.token = thread.token /\ thread'.again = TRUE
    BY <2>3 DEF Shapes, Thread
  <2> HIDE DEF d
  <2>5. /\ db'.queue[d] = db.gen + 1 /\ db'.queue[d] # 0 /\ db'.queue[d] # thread.token[d]
        /\ \A e \in Derives \ {d} : db'.queue[e] = db.queue[e]
    BY <2>1, <2>2
  <2>6. OwedIsQueued'
    <3>1. \A e \in Derives : owed'[e] = (db'.queue[e] # 0)
      BY <2>1, <2>2, <2>5 DEF Owing, OwedIsQueued
    <3>2. ASSUME unwritten' = 0 PROVE disk' = db'
      <4>1. unwritten \in Nat
        BY DEF Shapes
      <4>2. QED
        BY <1>19, <3>2, <4>1 DEF Continue, Persist
    <3>3. QED
      BY <3>1, <3>2, OwedOnDisk
  <2>7. InRound'
    <3>1. SUFFICES ASSUME thread'.at = "cold" PROVE InRound'
      BY DEF InRound
    <3>2. d \notin thread.todo /\ \A e \in thread.todo : db.queue[e] = thread.token[e]
      BY <2>4, <3>1 DEF Owing, InRound, d
    <3>3. thread.todo \subseteq Derives
      BY DEF Shapes, Thread
    <3>4. \A e \in thread.todo : db'.queue[e] = thread.token[e]
      BY <2>5, <3>2, <3>3
    <3>5. QED
      BY <2>4, <2>5, <3>2, <3>4 DEF InRound, InRun
  <2>8. QED
    BY <2>4, <2>5, <2>6, <2>7 DEF Owing
<1>20. CASE ReturnCold
  <2> DEFINE d == thread.d
             s == Committed(db, d)
  <2>1. /\ InRun /\ GuestDone /\ d \in Derives /\ thread.at = "cold"
        /\ owed \in [Derives -> BOOLEAN] /\ thread.again \in BOOLEAN
        /\ thread.todo \subseteq Derives /\ d \notin thread.todo
    BY <1>20 DEF ReturnCold, InRun, Shapes, Thread, Owing, InRound
  <2>2. Sound(s) /\ s.queue = db.queue
    BY <2>1, Committing
  <2>3. /\ db' = Acknowledged(s, d) /\ owed' = [owed EXCEPT ![d] = thread.again]
        /\ IF db' = s THEN UNCHANGED <<disk, saved, unwritten>> ELSE Persist
    BY <1>20 DEF ReturnCold
  <2>4. thread' = [thread EXCEPT !.d = Nobody, !.staged = None, !.got = {}, !.again = FALSE]
    BY <1>20 DEF ReturnCold
  <2>5. thread'.d = Nobody /\ thread'.todo = thread.todo /\ thread'.token = thread.token
    BY <2>4 DEF Shapes, Thread
  <2> HIDE DEF d, s
  <2>6. /\ \A e \in Derives \ {d} : db'.queue[e] = db.queue[e]
        /\ db'.queue[d] = IF db.queue[d] = thread.token[d] THEN 0 ELSE db.queue[d]
        /\ db' # s => db.queue[d] # 0 /\ db.queue[d] = thread.token[d]
    BY <2>1, <2>2, <2>3, Acknowledging
  <2>7. /\ thread.again = (db.queue[d] # thread.token[d])
        /\ thread.again => db.queue[d] # 0
    BY <2>1 DEF Owing, InRound, d
  <2>8. OwedIsQueued'
    <3>1. \A e \in Derives : owed[e] = (db.queue[e] # 0)
      BY DEF Owing, OwedIsQueued
    <3>2. owed'[d] = thread.again /\ \A e \in Derives \ {d} : owed'[e] = owed[e]
      BY <2>1, <2>3
    <3>3. CASE db' = s
      <4>1. db'.queue[d] = db.queue[d] /\ UNCHANGED <<disk, saved, unwritten>>
        BY <2>2, <2>3, <3>3
      <4>2. thread.again = (db.queue[d] # 0)
        BY <2>6, <2>7, <4>1
      <4>3. \A e \in Derives : owed'[e] = owed[e]
        BY <3>1, <3>2, <4>2
      <4>4. \A e \in Derives : owed'[e] = (db'.queue[e] # 0)
        BY <2>6, <3>1, <4>1, <4>3
      <4>5. unwritten' = 0 => \A e \in Derives : owed'[e] = (disk.queue[e] # 0)
        BY <4>1, <4>3 DEF Owing, OwedIsQueued
      <4>6. QED
        BY <4>4, <4>5, OwedOnDisk
    <3>4. CASE db' # s
      <4>1. db'.queue[d] = 0 /\ thread.again = FALSE
        BY <2>6, <2>7, <3>4
      <4>2. \A e \in Derives : owed'[e] = (db'.queue[e] # 0)
        BY <2>6, <3>1, <3>2, <4>1
      <4>3. ASSUME unwritten' = 0 PROVE disk' = db'
        <5>1. unwritten \in Nat
          BY DEF Shapes
        <5>2. QED
          BY <2>3, <3>4, <4>3, <5>1 DEF Persist
      <4>4. QED
        BY <4>2, <4>3, OwedOnDisk
    <3>5. QED
      BY <3>3, <3>4
  <2>9. InRound'
    BY <2>1, <2>5, <2>6 DEF Owing, InRound, InRun, Derives, Nobody
  <2>10. QED
    BY <2>5, <2>8, <2>9 DEF Owing, InRun
<1>21. CASE ReturnHot
  <2>1. InRun /\ GuestDone /\ db' = Committed(db, thread.d)
    BY <1>21 DEF ReturnHot, Free, Calm, Running
  <2>2. db'.queue = db.queue /\ UNCHANGED owed
    BY <1>21, <2>1, Committing DEF ReturnHot, Free, Calm
  <2>3. OwedIsQueued'
    BY <2>2, StillOwed
  <2>4. thread'.at # "cold" /\ ~InRun'
    BY <1>21 DEF ReturnHot, Free, Calm, Shapes, Thread, InRun
  <2>5. QED
    BY <2>3, <2>4 DEF Owing, InRound
<1>22. CASE ReturnJob
  <2>1. InRun /\ GuestDone /\ db' = Committed(db, thread.d)
    BY <1>22 DEF ReturnJob, Calm, Running
  <2>2. db'.queue = db.queue /\ UNCHANGED owed
    BY <1>22, <2>1, Committing DEF ReturnJob, Calm
  <2>3. OwedIsQueued'
    BY <2>2, StillOwed
  <2>4. thread'.at # "cold" /\ ~InRun'
    BY <1>22 DEF ReturnJob, Calm, Shapes, Thread, InRun
  <2>5. QED
    BY <2>3, <2>4 DEF Owing, InRound
<1>23. CASE TrapCold
  <2>1. db'.queue = db.queue /\ UNCHANGED owed
    BY <1>23 DEF TrapCold, FoldTrap, Fault, Free, Persist
  <2>2. OwedIsQueued'
    BY <2>1, StillOwed
  <2>3. thread'.at # "cold" /\ ~InRun'
    BY <1>23 DEF TrapCold, FoldTrap, Fault, Free, Persist, Shapes, Thread, Running, InRun
  <2>4. QED
    BY <2>2, <2>3 DEF Owing, InRound
<1>24. CASE TrapHot
  <2>1. db'.queue = db.queue /\ UNCHANGED owed
    BY <1>24 DEF TrapHot, FoldTrap, Fault, Free
  <2>2. OwedIsQueued'
    BY <2>1, StillOwed
  <2>3. thread'.at # "cold" /\ ~InRun'
    BY <1>24 DEF TrapHot, FoldTrap, Fault, Free, Shapes, Thread, Running, InRun
  <2>4. QED
    BY <2>2, <2>3 DEF Owing, InRound
<1>25. CASE TrapJob
  <2>1. db'.queue = db.queue /\ UNCHANGED owed
    BY <1>25 DEF TrapJob, FoldTrap, Fault, Round, Free
  <2>2. OwedIsQueued'
    BY <2>1, StillOwed
  <2>3. thread'.d = Nobody /\ thread'.token = db.queue /\ thread'.todo \subseteq Derives
    BY <1>25 DEF TrapJob, FoldTrap, Fault, Round, Free, Shapes
  <2>4. QED
    BY <2>1, <2>2, <2>3 DEF Owing, InRound, InRun, Derives, Nobody
<1>26. CASE Crash
  <2>1. /\ db' = disk /\ UNCHANGED <<disk, saved, unwritten>> /\ owed' = saved.owed
        /\ thread' = Free
    BY <1>26 DEF Crash
  <2>2. OwedIsQueued'
    BY <2>1 DEF Owing, OwedIsQueued
  <2>3. QED
    BY <2>1, <2>2 DEF Owing, InRound, InRun, Free
<1>27. CASE UNCHANGED vars
  <2>1. db'.queue = db.queue /\ UNCHANGED owed
    BY <1>27 DEF vars
  <2>2. OwedIsQueued'
    BY <2>1, StillOwed
  <2>3. QED
    BY <1>27, <2>1, <2>2 DEF vars, Shapes, Thread, Owing, InRound, InRun, Nobody
<1>28. QED
  BY <1>1, <1>2, <1>3, <1>4, <1>5, <1>6, <1>7, <1>8, <1>9, <1>10, <1>11, <1>12, <1>13, <1>14, <1>15, <1>16, <1>17, <1>18, <1>19, <1>20, <1>21, <1>22, <1>23, <1>24, <1>25, <1>26, <1>27 DEF Next

LEMMA Inductive == EventFoldAssumption /\ IInv /\ [Next]_vars => IInv'
BY StoresKept, ShapesKept, AnswersKept, RunningKept, OwingKept DEF IInv, Stored

LEMMA Invariance == ASSUME EventFoldAssumption PROVE Spec => []IInv
<1>1. Init => IInv
  BY Initially
<1>2. IInv /\ [Next]_vars => IInv'
  BY Inductive
<1>3. QED
  BY <1>1, <1>2, PTL DEF Spec

-----------------------------------------------------------------------------
(* What follows                                                            *)

(* The shape of the stores and of all else: no cursor, view or queued      *)
(* generation is ahead of its store, in memory or on disk.                 *)
THEOREM TypeCorrect ==
  ASSUME EventFoldAssumption
  PROVE  Spec => []TypeOK
<1>1. IInv => TypeOK
  BY DEF IInv, Sound, Shapes, Thread, Asked, TypeOK
<1>2. QED
  BY <1>1, Invariance, PTL

(* Whatever traps, crashes and redactions do, a derive has folded every    *)
(* event before its cursor, in memory and on disk.                         *)
THEOREM FoldsSkipNothing ==
  ASSUME EventFoldAssumption
  PROVE  Spec => []NothingSkipped
<1>1. IInv => NothingSkipped
  BY DEF IInv, Sound, Folded, NothingSkipped
<1>2. QED
  BY <1>1, Invariance, PTL

(* A derive that asked to run again is queued until a run that began after *)
(* it asked has returned, and no longer; on disk too, but for what changed *)
(* since a snapshot failed.                                                *)
THEOREM OwedStaysQueued ==
  ASSUME EventFoldAssumption
  PROVE  Spec => []OwedIsQueued
<1>1. IInv => OwedIsQueued
  BY DEF IInv, Owing
<1>2. QED
  BY <1>1, Invariance, PTL

(* What a request was told when it was answered stays true: what it sent   *)
(* is in the log once, and what it erased stays erased; after a crash too, *)
(* unless a snapshot had failed and none was written between.              *)
THEOREM AnswersStand ==
  ASSUME EventFoldAssumption
  PROVE  Spec => []AnswersHold
<1>1. ASSUME NEW s, Sound(s), NEW a, Holds(s, a)
      PROVE  /\ Cardinality(At(s, a[2])) = 1
             /\ a[1] = "erased" => \A p \in At(s, a[2]) : ~s.log[p].live
  <2>1. PICK p \in DOMAIN s.log : s.log[p].id = a[2]
    BY <1>1 DEF Sound, Once, Holds
  <2>2. At(s, a[2]) = {p}
    BY <1>1, <2>1 DEF At, Sound, Once
  <2>3. Cardinality({p}) = 1
    BY FS_Singleton
  <2>4. QED
    BY <1>1, <2>1, <2>2, <2>3 DEF Holds
<1>2. IInv => AnswersHold
  BY <1>1 DEF IInv, Answers, AnswersHold, Honors
<1>3. QED
  BY <1>2, Invariance, PTL
=============================================================================
