---------------------------- MODULE Materializer ----------------------------
(***************************************************************************)
(* The views of one database and the derives that materialize them in the  *)
(* hot artifact (src/src/devserver/runtime/module.ts, db/changes.ts,       *)
(* db/derives.ts, db/materialization.ts).                                  *)
(*                                                                         *)
(* Requests write source rows while they run; several may be suspended     *)
(* between two database operations (dispatchAsync).  When a request        *)
(* returns, the derives of the database run on its changes frame: the keys *)
(* its operations named, or a full rescan.  A derive that traps stays      *)
(* pending and is tried again, with a full rescan, before and after later  *)
(* requests.  The first dispatch after a load rebuilds every view.         *)
(*                                                                         *)
(* A row is abstracted to the number of times it was written and a view    *)
(* entry to the version of the row it shows.  The guest's derive is not in *)
(* the repository: it is taken to do what the documentation asks of it,    *)
(* and to trap at any point, leaving part of its publishes done.           *)
(***************************************************************************)
EXTENDS Integers, FiniteSets

CONSTANTS
  Requests,     (* requests that may be running at the same time         *)
  Keys,         (* keys of the source collection                         *)
  Derives,      (* derives of the database, each with a view of its own  *)
  MaxKeys,      (* keys a changes frame can hold, 256 in the code        *)
  MaxVersion,   (* bound: writes of one key                              *)
  MaxFaults,    (* bound: derive traps, reloads, unloads, crashes and    *)
                (* snapshots that cannot be written                      *)
  Trapping,     (* whether requests may trap                             *)
  LoadMayFail,  (* whether a derive may trap in the rebuild after a load *)
  Enqueuing     (* whether requests use documents.enqueue                *)

ASSUME MaterializerAssumption ==
  /\ MaxKeys \in Nat /\ MaxVersion \in Nat
  /\ MaxFaults \in Nat
  /\ IsFiniteSet(Keys) /\ IsFiniteSet(Derives)
  /\ Trapping \in BOOLEAN /\ LoadMayFail \in BOOLEAN /\ Enqueuing \in BOOLEAN

VARIABLES
  rows,     (* the source rows in memory                                 *)
  view,     (* the view of each derive in memory                         *)
  disk,     (* rows and views of the last snapshot                       *)
  loaded,   (* module # null                                             *)
  dirty,    (* derivesDirty                                              *)
  pending,  (* pendingDerives                                            *)
  req,      (* each request: running, its frame, what it wrote           *)
  faults,   (* traps, reloads, unloads and crashes so far                *)
  lost,     (* history: view entries whose refresh was given up          *)
  acked,    (* history: the version of each row that was answered for    *)
  saved,    (* history: the same, but for the answers that were given    *)
            (* after a snapshot had failed and before the next one       *)
  unwritten (* snapshots that could not be written so far                *)

vars == <<rows, view, disk, loaded, dirty, pending, req, faults, lost, acked, saved, unwritten>>

Version == 0..MaxVersion
Frames  == [running : BOOLEAN, touched : SUBSET Keys, overflow : BOOLEAN,
            written : BOOLEAN, wrote : SUBSET Keys]
Idle    == [running |-> FALSE, touched |-> {}, overflow |-> FALSE,
            written |-> FALSE, wrote |-> {}]

Stale(d, k) == view[d][k] # rows[k]
InFlight(k) == \E r \in Requests : k \in req[r].wrote

-----------------------------------------------------------------------------
Init ==
  /\ rows = [k \in Keys |-> 0]
  /\ view = [d \in Derives |-> [k \in Keys |-> 0]]
  /\ disk = [rows |-> rows, view |-> view]
  /\ loaded = FALSE /\ dirty = FALSE /\ pending = {}
  /\ req = [r \in Requests |-> Idle]
  /\ faults = 0
  /\ lost = {}
  /\ acked = [k \in Keys |-> 0] /\ saved = acked /\ unwritten = 0

(* Derives run: d refreshes the entries frame[d] from the rows now, or     *)
(* traps (failed) with only the entries part[d] of them published.         *)
Published(now, frame, failed, part) ==
  [d \in Derives |-> [k \in Keys |->
     IF k \in (IF d \in failed THEN part[d] ELSE frame[d]) THEN now[k] ELSE view[d][k]]]

Settled(frame, failed) == {e \in Derives \X Keys : e[1] \notin failed /\ e[2] \in frame[e[1]]}

Runs(now, frame, failed) ==
  /\ faults + unwritten + Cardinality(failed) <= MaxFaults
  /\ faults' = faults + Cardinality(failed)
  /\ \E part \in [failed -> SUBSET Keys] :
       /\ \A d \in failed : part[d] \subseteq frame[d]
       /\ view' = Published(now, frame, failed, part)

(* rebuildDerivedViewsIfStale: the pending derives again, then all of them *)
(* after a load.  A derive that fails in the second pass is only logged.   *)
(* Mutant: the rebuild after a load runs only what is already pending.     *)
RebuildPending ==
  \E failed \in SUBSET pending :
    LET frame == [d \in Derives |-> IF d \in pending THEN Keys ELSE {}]
    IN  /\ Runs(rows, frame, failed)
        /\ pending' = failed
        /\ dirty' = FALSE
        /\ lost' = lost \ Settled(frame, failed)

Rebuild ==
  \E again \in SUBSET pending,
     given \in IF dirty /\ LoadMayFail THEN SUBSET Derives ELSE {{}} :
    LET all    == IF dirty THEN Derives ELSE {}
        tried  == pending \cup all
        failed == tried \ ((pending \ again) \cup (all \ given))
        frame  == [d \in Derives |-> IF d \in tried THEN Keys ELSE {}]
    IN  /\ Runs(rows, frame, failed)
        /\ pending' = again
        /\ dirty' = FALSE
        /\ lost' = (lost \ Settled(frame, failed)) \cup ((failed \ again) \X Keys)

(* persist: everything, or nothing when writing the file fails; the        *)
(* failure is swallowed and the answer goes out all the same.              *)
Persist ==
  \/ disk' = [rows |-> rows', view |-> view'] /\ saved' = acked' /\ UNCHANGED unwritten
  \/ faults' + unwritten < MaxFaults /\ unwritten' = unwritten + 1 /\ UNCHANGED <<disk, saved>>

-----------------------------------------------------------------------------
(* prepareDispatch.                                                        *)
Begin(r) ==
  /\ loaded /\ ~req[r].running
  /\ Rebuild
  /\ req' = [req EXCEPT ![r] = [Idle EXCEPT !.running = TRUE]]
  /\ UNCHANGED <<rows, disk, loaded, acked, saved, unwritten>>

(* dispatchRender: it rebuilds too, and persists nothing.                  *)
Render ==
  /\ loaded
  /\ Rebuild
  /\ UNCHANGED <<rows, disk, loaded, req, acked, saved, unwritten>>

(* captureDbKey, before every keyed operation: a frame that would hold     *)
(* more than MaxKeys keys becomes a full rescan.                           *)
Capture(q, k) ==
  IF q.overflow \/ k \in q.touched THEN q
  ELSE IF Cardinality(q.touched) = MaxKeys
       THEN [q EXCEPT !.overflow = TRUE, !.touched = {}]
       ELSE [q EXCEPT !.touched = @ \cup {k}]

(* The request noted (written) or not that it wrote the rows of ks.        *)
Wrote(q, written, ks) == [q EXCEPT !.written = written, !.wrote = @ \cup ks]

Untouched ==
  UNCHANGED <<view, disk, loaded, dirty, pending, faults, lost, acked, saved, unwritten>>

(* A read, or a write that does not commit.                                *)
Read(r, k) ==
  /\ req[r].running
  /\ req' = [req EXCEPT ![r] = Capture(@, k)]
  /\ UNCHANGED rows
  /\ Untouched

(* A committed write: recordWrite notes the collection.                    *)
Write(r, k) ==
  /\ req[r].running
  /\ rows[k] < MaxVersion
  /\ rows' = [rows EXCEPT ![k] = @ + 1]
  /\ req' = [req EXCEPT ![r] = Wrote(Capture(@, k), TRUE, {k})]
  /\ Untouched

(* atomic_batch: the keys are in its frame, so no key is captured and the  *)
(* request falls back on a full rescan.                                    *)
Batch(r, ks) ==
  /\ req[r].running
  /\ \A k \in ks : rows[k] < MaxVersion
  /\ rows' = [k \in Keys |-> IF k \in ks THEN rows[k] + 1 ELSE rows[k]]
  /\ req' = [req EXCEPT ![r] = Wrote([@ EXCEPT !.overflow = TRUE], TRUE, ks)]
  /\ Untouched

(* enqueue replaces a row without recordWrite.                             *)
Enqueue(r, k) ==
  /\ Enqueuing
  /\ req[r].running
  /\ rows[k] < MaxVersion
  /\ rows' = [rows EXCEPT ![k] = @ + 1]
  /\ req' = [req EXCEPT ![r] = Wrote(Capture(@, k), req[r].written, {k})]
  /\ Untouched

-----------------------------------------------------------------------------
(* deriveChangesFrame.                                                     *)
(* Mutant: a derive that is tried again gets the frame of the request.     *)
FrameNoRetry(q, retrying) == IF q.overflow \/ q.touched = {} THEN Keys ELSE q.touched

Frame(q, retrying) ==
  IF retrying \/ q.overflow \/ ~q.written \/ q.touched = {} THEN Keys ELSE q.touched

(* runAffectedDerives, from the rows now.  A failed derive stays pending.  *)
(* q is the frame of a request, full when there is none; forgotten are the *)
(* entries of rows that were written without recordWrite.                  *)
RunAffected(now, q, full, forgotten) ==
  IF ~loaded THEN UNCHANGED <<view, pending, faults, lost>>
  ELSE LET due == pending \cup (IF q.written THEN Derives ELSE {})
           frame == [d \in Derives |->
                       IF d \notin due THEN {}
                       ELSE IF full THEN Keys ELSE Frame(q, d \in pending)]
       IN  \E failed \in SUBSET due :
             /\ Runs(now, frame, failed)
             /\ pending' = failed
             /\ lost' = (lost \cup forgotten) \ Settled(frame, failed)

Forgotten(q) == IF q.written THEN {} ELSE Derives \X q.wrote

Answer(r) ==
  /\ acked' = [k \in Keys |-> IF k \in req[r].wrote THEN rows[k] ELSE acked[k]]
  /\ req' = [req EXCEPT ![r] = Idle]

(* Mutant: the answer leaves before the snapshot is written.               *)
FinishUnsaved(r) ==
  /\ req[r].running
  /\ RunAffected(rows, req[r], FALSE, Forgotten(req[r]))
  /\ UNCHANGED <<rows, disk, loaded, dirty>>
  /\ Answer(r)
  /\ saved' = acked' /\ UNCHANGED unwritten

(* finishDispatch: the derives, one snapshot of everything, the answer.    *)
Finish(r) ==
  /\ req[r].running
  /\ RunAffected(rows, req[r], FALSE, Forgotten(req[r]))
  /\ UNCHANGED <<rows, loaded, dirty>>
  /\ Answer(r)
  /\ Persist

(* A guest trap: the store is written as it is and no derive runs.         *)
Trap(r) ==
  /\ Trapping
  /\ req[r].running
  /\ UNCHANGED <<rows, view, loaded, dirty, pending, faults, acked>>
  /\ Persist
  /\ lost' = lost \cup (Derives \X req[r].wrote)
  /\ req' = [req EXCEPT ![r] = Idle]

(* A background job writes rows; the queued materialization follows before *)
(* any other request starts, trap or not, with a full rescan.  Without a   *)
(* loaded module only the rows are saved.                                  *)
Job(ks) ==
  /\ \A k \in ks : rows[k] < MaxVersion
  /\ rows' = [k \in Keys |-> IF k \in ks THEN rows[k] + 1 ELSE rows[k]]
  /\ RunAffected(rows', [Idle EXCEPT !.written = TRUE], TRUE, {})
  /\ UNCHANGED <<loaded, dirty, req, acked>>
  /\ Persist

-----------------------------------------------------------------------------
(* refresh: the artifact appears, is replaced, or goes away.               *)
Load ==
  /\ ~loaded
  /\ loaded' = TRUE /\ dirty' = (Derives # {})
  /\ UNCHANGED <<rows, view, disk, pending, req, faults, lost, acked, saved, unwritten>>

Reload ==
  /\ loaded /\ faults + unwritten < MaxFaults
  /\ faults' = faults + 1
  /\ dirty' = (Derives # {})
  /\ UNCHANGED <<rows, view, disk, loaded, pending, req, lost, acked, saved, unwritten>>

Unload ==
  /\ loaded /\ faults + unwritten < MaxFaults
  /\ faults' = faults + 1
  /\ loaded' = FALSE /\ dirty' = FALSE
  /\ UNCHANGED <<rows, view, disk, pending, req, lost, acked, saved, unwritten>>

(* The process dies; a new one loads the snapshot, and what was answered   *)
(* for since a snapshot failed is gone.                                    *)
Crash ==
  /\ faults + unwritten < MaxFaults
  /\ faults' = faults + 1
  /\ rows' = disk.rows /\ view' = disk.view
  /\ loaded' = FALSE /\ dirty' = FALSE /\ pending' = {}
  /\ req' = [r \in Requests |-> Idle]
  /\ lost' = {} /\ acked' = saved
  /\ UNCHANGED <<disk, saved, unwritten>>

Next ==
  \/ \E r \in Requests :
        \/ Begin(r)
        \/ \E k \in Keys : Read(r, k) \/ Write(r, k) \/ Enqueue(r, k)
        \/ \E ks \in SUBSET Keys \ {{}} : Batch(r, ks)
        \/ Finish(r)
        \/ Trap(r)
  \/ \E ks \in SUBSET Keys \ {{}} : Job(ks)
  \/ Render
  \/ Load \/ Reload \/ Unload \/ Crash

Spec == Init /\ [][Next]_vars

(* The artifact is built again, requests end, and clients keep coming.     *)
FairSpec == Spec /\ WF_vars(Load)
                 /\ \A r \in Requests : WF_vars(Begin(r)) /\ WF_vars(Finish(r))

-----------------------------------------------------------------------------
(* Properties                                                              *)

(* The shape of every variable; a frame holds at most MaxKeys keys.        *)
TypeOK ==
  /\ rows \in [Keys -> Version]
  /\ view \in [Derives -> [Keys -> Version]]
  /\ disk \in [rows : [Keys -> Version], view : [Derives -> [Keys -> Version]]]
  /\ loaded \in BOOLEAN /\ dirty \in BOOLEAN
  /\ pending \subseteq Derives
  /\ req \in [Requests -> Frames]
  /\ \A r \in Requests : Cardinality(req[r].touched) <= MaxKeys
  /\ faults \in 0..MaxFaults
  /\ lost \subseteq Derives \X Keys
  /\ acked \in [Keys -> Version] /\ saved \in [Keys -> Version]
  /\ unwritten \in 0..MaxFaults

(* A view entry that differs from its row is somebody's business: a        *)
(* request that wrote the row still runs, the derive is pending, or the    *)
(* whole view is to be rebuilt.                                            *)
Owned(d, k) == ~loaded \/ dirty \/ d \in pending \/ InFlight(k)

(* Incremental frames lose no refresh: across overlapping requests, frames *)
(* that overflow, batches, retries of trapped derives, reloads and crashes *)
(* a stale entry always has an owner, or one of the three known ways to    *)
(* give it up was taken: a trapped request, a derive that trapped in the   *)
(* rebuild after a load, a request whose only writes were enqueues.        *)
StaleHasOwner ==
  \A d \in Derives, k \in Keys : Stale(d, k) => Owned(d, k) \/ <<d, k>> \in lost

(* A snapshot is a whole: no view, in memory or on disk, shows a version   *)
(* its row never had or has lost, even across snapshots that fail; and     *)
(* what was answered is in memory, and on disk too but for the answers     *)
(* since a snapshot failed.  Those the code does not keep: persist         *)
(* swallows the failure (database.ts 547) and a crash takes them.          *)
AckedDurable ==
  \A k \in Keys :
    /\ acked[k] <= rows[k] /\ saved[k] <= disk.rows[k]
    /\ unwritten = 0 => acked[k] <= disk.rows[k]
    /\ \A d \in Derives : view[d][k] <= rows[k] /\ disk.view[d][k] <= disk.rows[k]

(* docs/background/derive.md:170 "the view always ends up matching its     *)
(* sources", when requests keep coming.                                    *)
Converges == \A d \in Derives, k \in Keys : Stale(d, k) ~> ~Stale(d, k)
=============================================================================
