------------------------------- MODULE EventFold -------------------------------
(***************************************************************************)
(* One event log, the derives that fold it into views with events.since,   *)
(* and the daemon that runs them (src/src/devserver/db/database.ts, events *)
(* family; src/src/devserver/daemon/index.ts).                             *)
(*                                                                         *)
(* Requests append to the log and redact events; so do the scheduled jobs  *)
(* of the daemon.  A derive reads the log past its cursor, publishes what  *)
(* it read and returns; only then does the cursor move.  A derive that has *)
(* more to read may ask for a continuation, which is on disk before the    *)
(* call returns and is acknowledged, by generation, by a later run.        *)
(*                                                                         *)
(* Guest code is synchronous once it is entered: thread is what the only   *)
(* JavaScript thread is executing, and nothing but a crash comes between   *)
(* the steps of a job or of a derive.  The hot artifact runs the same      *)
(* derives: Materializer says when, here it may do so whenever the thread  *)
(* is free.  A view is abstracted to the set of log positions folded into  *)
(* it (the fold is idempotent, as the documentation requires).             *)
(***************************************************************************)
EXTENDS Integers, Sequences, FiniteSets

CONSTANTS
  Requests,    (* requests that may be open at the same time             *)
  EventIds,    (* ids given to appendOnce, or idempotency keys of append *)
  NumDerives,  (* derives of the artifact, in catalog order              *)
  Limits,      (* limits passed to since                                 *)
  Stubborn,    (* derives that may trap without end                      *)
  Continues,   (* guests that leave events unread ask for a continuation *)
  MaxCalls,    (* bound: different things one request is told            *)
  MaxGen,      (* bound: continuation generations                        *)
  MaxFaults    (* bound: other traps, daemon reloads, crashes and        *)
               (* snapshots that cannot be written                       *)

Derives == 1..NumDerives
Nobody  == 0

ASSUME EventFoldAssumption ==
  /\ NumDerives \in Nat
  /\ Limits \subseteq Nat
  /\ Stubborn \subseteq Derives
  /\ Continues \in BOOLEAN
  /\ MaxCalls \in Nat /\ MaxGen \in Nat
  /\ MaxFaults \in Nat

VARIABLES
  db,      (* the store: log, dedup ids, cursors, views, continuations   *)
  disk,    (* the store in the last snapshot                             *)
  up,      (* the daemon is running                                      *)
  waits,   (* it does not start before there is a new artifact           *)
  pend,    (* pendingDerives of the daemon                               *)
  key,     (* deriveKey of the daemon's database state                   *)
  thread,  (* what is executing                                          *)
  told,    (* history: what each open request was told                   *)
  acked,   (* history: what requests that answered were told             *)
  owed,    (* history: derives that asked to run again and did not yet   *)
  saved,   (* history: the last two, but for what changed in them after  *)
           (* a snapshot had failed and before the next one              *)
  unwritten, (* snapshots that could not be written so far               *)
  faults   (* traps, reloads and crashes so far                          *)

vars == <<db, disk, up, waits, pend, key, thread, told, acked, owed, saved, unwritten, faults>>

Event == [id : EventIds, live : BOOLEAN]
None  == -1                                (* no cursor is staged         *)

Free == [at |-> "idle", d |-> Nobody, todo |-> {}, token |-> [d \in Derives |-> 0],
         wrote |-> FALSE, staged |-> None, got |-> {}, again |-> FALSE]

InBody == thread.at \in {"tick", "start"} /\ thread.d = Nobody
InRun  == thread.d # Nobody

(* Events still readable at the positions after a, up to b.                *)
LiveIn(log, a, b) == {p \in (a + 1)..b : log[p].live}

Init ==
  /\ db = [log |-> <<>>, ids |-> {}, cursor |-> [d \in Derives |-> 0],
           view |-> [d \in Derives |-> {}], queue |-> [d \in Derives |-> 0], gen |-> 0]
  /\ disk = db
  /\ up = FALSE /\ waits = FALSE /\ pend = {} /\ key = Nobody
  /\ thread = Free
  /\ told = [r \in Requests |-> {}]
  /\ acked = {}
  /\ owed = [d \in Derives |-> FALSE]
  /\ saved = [acked |-> acked, owed |-> owed] /\ unwritten = 0
  /\ faults = 0

Fault == faults + unwritten < MaxFaults /\ faults' = faults + 1

(* persist: the store as it is, or nothing when writing the file fails;    *)
(* the failure is swallowed and the caller goes on all the same.           *)
Persist ==
  \/ disk' = db' /\ saved' = [acked |-> acked', owed |-> owed'] /\ UNCHANGED unwritten
  \/ faults' + unwritten < MaxFaults /\ unwritten' = unwritten + 1 /\ UNCHANGED <<disk, saved>>

-----------------------------------------------------------------------------
(* The log                                                                 *)

(* append with an idempotency key, and appendOnce.                         *)
(* Mutant: the id is not remembered.                                       *)
AppendedAgain(s, id) == [s EXCEPT !.log = Append(@, [id |-> id, live |-> TRUE])]

Appended(s, id) ==
  IF id \in s.ids THEN s
  ELSE [s EXCEPT !.log = Append(@, [id |-> id, live |-> TRUE]), !.ids = @ \cup {id}]

(* eventsRedact: the payload goes, and every derive rereads from the start.*)
Redacted(s, p) ==
  [s EXCEPT !.log = [q \in DOMAIN @ |-> IF q = p THEN [@[q] EXCEPT !.live = FALSE] ELSE @[q]],
            !.cursor = [d \in Derives |-> 0]]

MayCall(r) == thread.at = "idle" /\ Cardinality(told[r]) < MaxCalls

RequestAppend(r, id) ==
  /\ MayCall(r)
  /\ db' = Appended(db, id)
  /\ told' = [told EXCEPT ![r] = @ \cup {<<"sent", id>>}]
  /\ UNCHANGED <<disk, up, waits, pend, key, thread, acked, owed, saved, unwritten, faults>>

RequestRedact(r, p) ==
  /\ MayCall(r)
  /\ db' = Redacted(db, p)
  /\ told' = [told EXCEPT ![r] = @ \cup {<<"erased", db.log[p].id>>}]
  /\ UNCHANGED <<disk, up, waits, pend, key, thread, acked, owed, saved, unwritten, faults>>

(* finishDispatch, and the trap of a request: both write the snapshot.     *)
Close(r) ==
  /\ thread.at = "idle"
  /\ told[r] # {}
  /\ told' = [told EXCEPT ![r] = {}]
  /\ UNCHANGED <<db, up, waits, pend, key, thread, owed, faults>>
  /\ Persist

Finish(r) == acked' = acked \cup told[r] /\ Close(r)
Trap(r)   == UNCHANGED acked /\ Close(r)

-----------------------------------------------------------------------------
(* The daemon                                                              *)

(* refresh, then start: a new box, every derive pending.                   *)
Start ==
  /\ thread.at = "idle"
  /\ IF up THEN Fault ELSE UNCHANGED faults
  /\ up' = TRUE /\ waits' = FALSE
  /\ pend' = Derives
  /\ key' = Nobody
  /\ thread' = [Free EXCEPT !.at = "start"]
  /\ UNCHANGED <<db, disk, told, acked, owed, saved, unwritten>>

(* daemon_start fails or traps: no derive runs, what it wrote is saved,    *)
(* and refresh passes over an artifact it has loaded once already.         *)
StartFails ==
  /\ thread.at = "start"
  /\ Fault
  /\ up' = FALSE /\ waits' = TRUE
  /\ thread' = Free
  /\ UNCHANGED <<db, pend, key, told, acked, owed>>
  /\ Persist

(* The artifact is gone.                                                   *)
Stop ==
  /\ thread.at = "idle" /\ up
  /\ Fault
  /\ up' = FALSE /\ waits' = TRUE
  /\ UNCHANGED <<db, disk, pend, key, thread, told, acked, owed, saved, unwritten>>

(* runTick enters the guest.                                               *)
Tick ==
  /\ thread.at = "idle" /\ up
  /\ thread' = [Free EXCEPT !.at = "tick"]
  /\ UNCHANGED <<db, disk, up, waits, pend, key, told, acked, owed, saved, unwritten, faults>>

Calm == UNCHANGED <<disk, up, waits, pend, told, acked, owed, saved, unwritten, faults>>

TickAppend(id) ==
  /\ InBody
  /\ db' = Appended(db, id)
  /\ thread' = [thread EXCEPT !.wrote = @ \/ id \notin db.ids]
  /\ UNCHANGED key
  /\ Calm

TickRedact(p) ==
  /\ InBody
  /\ db' = Redacted(db, p)
  /\ thread' = [thread EXCEPT !.wrote = TRUE, !.staged = None]
  /\ UNCHANGED key
  /\ Calm

(* begin_derive: a job runs a derive itself.                               *)
JobDerive(d) ==
  /\ InBody
  /\ thread' = [thread EXCEPT !.d = d, !.staged = None, !.got = {}, !.again = FALSE]
  /\ key' = d
  /\ UNCHANGED db
  /\ Calm

(* materializeWrites: what is queued, was pending, or reads what the job   *)
(* wrote, is run in catalog order.                                         *)
Round ==
  LET due == pend \cup {d \in Derives : db.queue[d] # 0}
                  \cup (IF thread.wrote THEN Derives ELSE {})
  IN  /\ pend' = due
      /\ thread' = [Free EXCEPT !.at = "cold", !.todo = due, !.token = db.queue]

(* The job, or daemon_start, returns or traps: the round follows.          *)
TickEnd ==
  /\ InBody
  /\ Round
  /\ UNCHANGED <<db, disk, up, waits, key, told, acked, owed, saved, unwritten, faults>>

(* The retry timer.                                                        *)
(* Mutant: it looks at failed derives only.                                *)
RetryFailed ==
  /\ thread.at = "idle" /\ up
  /\ pend # {}
  /\ Round
  /\ UNCHANGED <<db, disk, up, waits, key, told, acked, owed, saved, unwritten, faults>>

Retry ==
  /\ thread.at = "idle" /\ up
  /\ pend # {} \/ \E d \in Derives : db.queue[d] # 0
  /\ Round
  /\ UNCHANGED <<db, disk, up, waits, key, told, acked, owed, saved, unwritten, faults>>

Pick ==
  /\ thread.at = "cold" /\ ~InRun
  /\ \E d \in thread.todo :
       /\ \A e \in thread.todo : d <= e
       /\ thread' = [thread EXCEPT !.d = d, !.todo = @ \ {d}, !.staged = None,
                                   !.got = {}, !.again = FALSE]
       /\ key' = d
  /\ UNCHANGED db
  /\ Calm

RoundEnd ==
  /\ thread.at = "cold" /\ ~InRun /\ thread.todo = {}
  /\ thread' = Free
  /\ UNCHANGED <<db, up, waits, pend, key, told, acked, owed, faults>>
  /\ Persist

(* The hot artifact runs a derive (Materializer), in a state of its own.   *)
HotRun(d) ==
  /\ thread.at = "idle"
  /\ thread' = [Free EXCEPT !.at = "hot", !.d = d]
  /\ UNCHANGED <<db, key>>
  /\ Calm

-----------------------------------------------------------------------------
(* A derive                                                                *)

Key == IF thread.at = "hot" THEN thread.d ELSE key

(* Where since starts: the staged cursor, the durable one, the beginning.  *)
From == IF thread.staged # None THEN thread.staged
        ELSE IF Key # Nobody THEN db.cursor[Key] ELSE 0

(* Where it stops: at the end of the log, or once it has n events.         *)
Stops(n) == {e \in From..Len(db.log) :
               /\ Cardinality(LiveIn(db.log, From, e)) <= n
               /\ e = Len(db.log) \/ Cardinality(LiveIn(db.log, From, e)) = n
               /\ \A f \in From..(e - 1) : Cardinality(LiveIn(db.log, From, f)) < n}

(* events.since, in a derive or in the body of a job.  The batch is what a *)
(* derive has to publish.                                                  *)
Since(n) ==
  /\ InRun \/ InBody
  /\ \E e \in Stops(n) :
       thread' = [thread EXCEPT !.staged = e,
                                !.got = IF InRun THEN @ \cup LiveIn(db.log, From, e) ELSE {}]
  /\ UNCHANGED <<db, key>>
  /\ Calm

Publish ==
  /\ InRun
  /\ db' = [db EXCEPT !.view = [db.view EXCEPT ![thread.d] = @ \cup thread.got]]
  /\ UNCHANGED <<key, thread>>
  /\ Calm

(* requestContinuation.  The second call of a run does nothing.            *)
Continue ==
  /\ InRun /\ ~thread.again
  /\ db.gen + NumDerives < MaxGen
  /\ db' = [db EXCEPT !.gen = @ + 1, !.queue = [@ EXCEPT ![thread.d] = db.gen + 1]]
  /\ thread' = [thread EXCEPT !.again = TRUE]
  /\ owed' = [owed EXCEPT ![thread.d] = TRUE]
  /\ UNCHANGED <<up, waits, pend, key, told, acked, faults>>
  /\ Persist

(* commitDeriveCheckpoints.                                                *)
Committed(s, d) ==
  IF thread.staged = None THEN s
  ELSE [s EXCEPT !.cursor = [@ EXCEPT ![d] = thread.staged]]

(* acknowledgeContinuation: only the generation seen before the round.     *)
(* Mutant: whatever is queued is acknowledged.                             *)
AcknowledgedAny(s, d) ==
  IF s.queue[d] = 0 THEN s
  ELSE [s EXCEPT !.gen = @ + 1, !.queue = [@ EXCEPT ![d] = 0]]

Acknowledged(s, d) ==
  IF s.queue[d] = 0 \/ s.queue[d] # thread.token[d] THEN s
  ELSE [s EXCEPT !.gen = @ + 1, !.queue = [@ EXCEPT ![d] = 0]]

(* The guest published all it read, and asks to run again if it left some. *)
GuestDone ==
  /\ thread.got \subseteq db.view[thread.d]
  /\ Continues => thread.again \/ LiveIn(db.log, From, Len(db.log)) = {}

ReturnCold ==
  /\ thread.at = "cold" /\ InRun /\ GuestDone
  /\ LET d == thread.d
         s == Committed(db, d)
     IN  /\ db' = Acknowledged(s, d)
         /\ pend' = pend \ {d}
         /\ owed' = [owed EXCEPT ![d] = thread.again]
         /\ UNCHANGED <<up, waits, key, told, acked, faults>>
         /\ IF db' = s THEN UNCHANGED <<disk, saved, unwritten>> ELSE Persist
  /\ thread' = [thread EXCEPT !.d = Nobody, !.staged = None, !.got = {}, !.again = FALSE]

ReturnHot ==
  /\ thread.at = "hot" /\ GuestDone
  /\ db' = Committed(db, thread.d)
  /\ thread' = Free
  /\ UNCHANGED key
  /\ Calm

(* end_derive.                                                             *)
ReturnJob ==
  /\ thread.at \in {"tick", "start"} /\ InRun /\ GuestDone
  /\ db' = Committed(db, thread.d)
  /\ thread' = [thread EXCEPT !.d = Nobody, !.staged = None, !.got = {}, !.again = FALSE]
  /\ key' = Nobody
  /\ Calm

FoldTrap == IF thread.d \in Stubborn THEN UNCHANGED faults ELSE Fault

(* A fold that failed: the rest of the round is given up.                  *)
(* Mutant: the cursor moves all the same.                                  *)
TrapColdCommits ==
  /\ thread.at = "cold" /\ InRun /\ FoldTrap
  /\ db' = Committed(db, thread.d)
  /\ thread' = Free
  /\ UNCHANGED <<up, waits, pend, key, told, acked, owed>>
  /\ Persist

TrapCold ==
  /\ thread.at = "cold" /\ InRun /\ FoldTrap
  /\ thread' = Free
  /\ UNCHANGED <<db, up, waits, pend, key, told, acked, owed>>
  /\ Persist

TrapHot ==
  /\ thread.at = "hot" /\ FoldTrap
  /\ thread' = Free
  /\ UNCHANGED <<db, disk, up, waits, pend, key, told, acked, owed, saved, unwritten>>

(* The job traps with its derive.                                          *)
TrapJob ==
  /\ thread.at = "tick" /\ InRun /\ FoldTrap
  /\ Round
  /\ UNCHANGED <<db, disk, up, waits, key, told, acked, owed, saved, unwritten>>

-----------------------------------------------------------------------------
(* The process dies; a new one loads the snapshot, and what was answered   *)
(* or asked for since a snapshot failed is gone.                           *)
Crash ==
  /\ Fault
  /\ db' = disk
  /\ up' = FALSE /\ waits' = FALSE /\ pend' = {} /\ key' = Nobody
  /\ thread' = Free
  /\ told' = [r \in Requests |-> {}]
  /\ acked' = saved.acked /\ owed' = saved.owed
  /\ UNCHANGED <<disk, saved, unwritten>>

Next ==
  \/ \E r \in Requests :
        \/ \E id \in EventIds : RequestAppend(r, id)
        \/ \E p \in DOMAIN db.log : RequestRedact(r, p)
        \/ Finish(r) \/ Trap(r)
  \/ \E id \in EventIds : TickAppend(id)
  \/ \E p \in DOMAIN db.log : TickRedact(p)
  \/ \E d \in Derives : JobDerive(d) \/ HotRun(d)
  \/ \E n \in Limits : Since(n)
  \/ Start \/ StartFails \/ Stop \/ Tick \/ TickEnd \/ Retry \/ Pick \/ RoundEnd
  \/ Publish \/ Continue \/ ReturnCold \/ ReturnHot \/ ReturnJob
  \/ TrapCold \/ TrapHot \/ TrapJob
  \/ Crash

Spec == Init /\ [][Next]_vars

(* A daemon that neither failed to start nor lost its artifact is started, *)
(* guest code ends, and a timer that is due is not put off for ever by the *)
(* other callbacks of the event loop.                                      *)
FairSpec ==
  /\ Spec
  /\ SF_vars(~up /\ ~waits /\ Start) /\ SF_vars(Retry) /\ SF_vars(TickEnd)
  /\ WF_vars(Pick) /\ WF_vars(RoundEnd)
  /\ WF_vars(\E n \in Limits : Since(n)) /\ WF_vars(Publish) /\ WF_vars(Continue)
  /\ WF_vars(ReturnCold) /\ WF_vars(ReturnHot) /\ WF_vars(ReturnJob)

-----------------------------------------------------------------------------
(* Properties                                                              *)

(* The shape of a store, in memory or on disk.                             *)
StoreOK(s) ==
  /\ DOMAIN s = {"log", "ids", "cursor", "view", "queue", "gen"}
  /\ s.log \in Seq(Event)
  /\ s.ids \subseteq EventIds
  /\ s.cursor \in [Derives -> 0..Len(s.log)]
  /\ s.view \in [Derives -> SUBSET (1..Len(s.log))]
  /\ s.gen \in Nat
  /\ s.queue \in [Derives -> 0..s.gen]

(* The shape of every variable: no cursor and no view is ahead of its log, *)
(* in memory or on disk, and no queued generation was never handed out.    *)
TypeOK ==
  /\ StoreOK(db) /\ StoreOK(disk)
  /\ up \in BOOLEAN /\ waits \in BOOLEAN
  /\ pend \subseteq Derives
  /\ key \in Derives \cup {Nobody}
  /\ thread \in [at : {"idle", "tick", "start", "cold", "hot"}, d : Derives \cup {Nobody},
                 todo : SUBSET Derives, token : [Derives -> 0..db.gen], wrote : BOOLEAN,
                 staged : None..Len(db.log), got : SUBSET (1..Len(db.log)), again : BOOLEAN]
  /\ told \in [Requests -> SUBSET ({"sent", "erased"} \X EventIds)]
  /\ acked \subseteq {"sent", "erased"} \X EventIds
  /\ owed \in [Derives -> BOOLEAN]
  /\ saved \in [acked : SUBSET ({"sent", "erased"} \X EventIds), owed : [Derives -> BOOLEAN]]
  /\ unwritten \in 0..MaxFaults
  /\ faults \in 0..MaxFaults

(* docs/background/derive.md:161, a crash re-folds a batch instead of      *)
(* skipping it: whatever traps, crashes and redactions do, every event     *)
(* before a derive's cursor is in its view, in memory and on disk.         *)
NothingSkipped ==
  \A s \in {db, disk}, d \in Derives : LiveIn(s.log, 0, s.cursor[d]) \subseteq s.view[d]

(* docs/background/derive.md:270-293: a derive that asked to run again is  *)
(* queued, in memory and on disk, exactly until a run that started after   *)
(* it asked has returned; on disk, but for what was asked for or done      *)
(* since a snapshot failed (:273 "persisted before the call returns" does  *)
(* not hold then, database.ts 547 swallows the failure).                   *)
OwedIsQueued ==
  \A d \in Derives :
    /\ owed[d] = (db.queue[d] # 0)
    /\ saved.owed[d] = (disk.queue[d] # 0)
    /\ unwritten = 0 => owed[d] = (disk.queue[d] # 0)

At(s, id) == {p \in DOMAIN s.log : s.log[p].id = id}

(* An event that was sent is in the log of s once, and one that was erased *)
(* stays erased.                                                           *)
Honors(s, answers) ==
  \A a \in answers :
     /\ Cardinality(At(s, a[2])) = 1
     /\ a[1] = "erased" => \A p \in At(s, a[2]) : ~s.log[p].live

(* What a request that answered was told survives, however often it sends  *)
(* an event again and across traps, crashes and reloads: in memory, and on *)
(* disk but for the answers since a snapshot failed, which a crash takes.  *)
AnswersHold ==
  /\ Honors(db, acked) /\ Honors(disk, saved.acked)
  /\ unwritten = 0 => Honors(disk, acked)

(* Events that are still to be folded by d.                                *)
Unfolded(d) == LiveIn(db.log, 0, Len(db.log)) \ db.view[d]

(* docs/background/derive.md:134-137 "a failed cold fold retains its       *)
(* pending work ... retries": a derive that does not fail for ever, and    *)
(* has none that does before it in the catalog, ends up having folded      *)
(* every event, unless the daemon has to wait for a new artifact.  A round *)
(* ends at the first derive that fails (index.ts 553), so one after it may *)
(* starve, although :121 says that each runs independently.                *)
EachFolds ==
  \A d \in Derives : (\A e \in Stubborn : d < e) =>
    ((Unfolded(d) # {}) ~> (Unfolded(d) = {} \/ waits))
=============================================================================
