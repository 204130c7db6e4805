------------------------- MODULE MaterializerProofs -------------------------
(***************************************************************************)
(* Proofs about Materializer, for every value of its constants: the types, *)
(* the ownership of stale view entries and the wholeness of snapshots.     *)
(***************************************************************************)
EXTENDS Materializer, FiniteSetTheorems, TLAPS

(* The shapes without the bound on frames.                                 *)
Shape ==
  /\ rows \in [Keys -> Version]
  /\ view \in [Derives -> [Keys -> Version]]
  /\ disk \in [rows : [Keys -> Version], view : [Derives -> [Keys -> Version]]]
  /\ loaded \in BOOLEAN /\ dirty \in BOOLEAN
  /\ pending \subseteq Derives
  /\ req \in [Requests -> Frames]
  /\ faults \in 0..MaxFaults
  /\ lost \subseteq Derives \X Keys
  /\ acked \in [Keys -> Version] /\ saved \in [Keys -> Version]
  /\ unwritten \in 0..MaxFaults

(* A frame of at most MaxKeys keys that names what its request wrote; a    *)
(* request that does not run wrote nothing.                                *)
FrameOK(q) ==
  /\ IsFiniteSet(q.touched) /\ Cardinality(q.touched) <= MaxKeys
  /\ q.overflow \/ q.wrote \subseteq q.touched
  /\ q.running \/ q.wrote = {}

Whole ==
  \A k \in Keys :
    /\ acked[k] <= rows[k] /\ saved[k] <= disk.rows[k] /\ disk.rows[k] <= rows[k]
    /\ unwritten = 0 => acked[k] <= disk.rows[k]
    /\ \A d \in Derives : view[d][k] <= rows[k] /\ disk.view[d][k] <= disk.rows[k]

IInv == Shape /\ (\A r \in Requests : FrameOK(req[r])) /\ StaleHasOwner /\ Whole

(* What a run of derives leaves: every entry is as it was or fresh, the    *)
(* settled ones are fresh.                                                 *)
LEMMA RunsFacts ==
  ASSUME Shape, NEW now \in [Keys -> Version], NEW frame \in [Derives -> SUBSET Keys],
         NEW failed \in SUBSET Derives, Runs(now, frame, failed)
  PROVE  /\ view' \in [Derives -> [Keys -> Version]]
         /\ faults' \in 0..MaxFaults
         /\ \A d \in Derives, k \in Keys : view'[d][k] \in {now[k], view[d][k]}
         /\ \A e \in Settled(frame, failed) : view'[e[1]][e[2]] = now[e[2]]
<1>1. PICK part \in [failed -> SUBSET Keys] : view' = Published(now, frame, failed, part)
  BY DEF Runs
<1>2. \A d \in Derives, k \in Keys :
        view'[d][k] = IF k \in (IF d \in failed THEN part[d] ELSE frame[d])
                      THEN now[k] ELSE view[d][k]
  BY <1>1 DEF Published
<1>3. view' \in [Derives -> [Keys -> Version]]
  BY <1>1 DEF Published, Shape
<1>4. faults' \in 0..MaxFaults
  <2>1. IsFiniteSet(failed)
    BY FS_Subset, MaterializerAssumption
  <2>2. Cardinality(failed) \in Nat
    BY <2>1, FS_CardinalityType
  <2>3. QED
    BY <2>2, MaterializerAssumption DEF Runs, Shape
<1>5. \A e \in Settled(frame, failed) : view'[e[1]][e[2]] = now[e[2]]
  BY <1>2 DEF Settled
<1>6. QED
  BY <1>2, <1>3, <1>4, <1>5

(* Capturing a key keeps a frame well formed and adds the key to what it   *)
(* covers.                                                                 *)
LEMMA CaptureFacts ==
  ASSUME NEW q \in Frames, FrameOK(q), NEW k \in Keys
  PROVE  LET c == Capture(q, k)
         IN  /\ c \in Frames /\ FrameOK(c)
             /\ c.wrote = q.wrote /\ c.written = q.written /\ c.running = q.running
             /\ c.overflow \/ k \in c.touched
<1>1. CASE q.overflow \/ k \in q.touched
  BY <1>1 DEF Capture
<1>2. CASE ~(q.overflow \/ k \in q.touched) /\ Cardinality(q.touched) = MaxKeys
  <2>1. Capture(q, k) = [q EXCEPT !.overflow = TRUE, !.touched = {}]
    BY <1>2 DEF Capture
  <2>2. IsFiniteSet({}) /\ Cardinality({}) = 0
    BY FS_EmptySet
  <2>3. IsFiniteSet({}) /\ Cardinality({}) <= MaxKeys
    BY <2>2, MaterializerAssumption
  <2>4. QED
    BY <2>1, <2>3 DEF FrameOK, Frames
<1>3. CASE ~(q.overflow \/ k \in q.touched) /\ Cardinality(q.touched) # MaxKeys
  <2>1. Capture(q, k) = [q EXCEPT !.touched = @ \cup {k}]
    BY <1>3 DEF Capture
  <2>2. IsFiniteSet(q.touched) /\ Cardinality(q.touched) \in Nat
        /\ Cardinality(q.touched) < MaxKeys
    BY <1>3, FS_CardinalityType, MaterializerAssumption DEF FrameOK
  <2>3. IsFiniteSet(q.touched \cup {k}) /\ Cardinality(q.touched \cup {k}) <= MaxKeys
    <3>1. /\ IsFiniteSet(q.touched \cup {k})
          /\ Cardinality(q.touched \cup {k})
               = IF k \in q.touched THEN Cardinality(q.touched) ELSE Cardinality(q.touched) + 1
      BY <2>2, FS_AddElement
    <3>2. QED
      BY <1>3, <2>2, <3>1, MaterializerAssumption
  <2>4. QED
    BY <2>1, <2>3 DEF FrameOK, Frames
<1>4. QED
  BY <1>1, <1>2, <1>3

(* A frame covers everything its request wrote.                            *)
LEMMA FrameCovers ==
  ASSUME NEW q, q.wrote \subseteq Keys, q.touched \subseteq Keys, FrameOK(q),
         NEW retrying \in BOOLEAN
  PROVE  q.wrote \subseteq Frame(q, retrying) /\ Frame(q, retrying) \subseteq Keys
  BY DEF Frame, FrameOK

LEMMA IdleOK ==
  /\ Idle \in Frames /\ FrameOK(Idle)
  /\ [Idle EXCEPT !.running = TRUE] \in Frames /\ FrameOK([Idle EXCEPT !.running = TRUE])
<1>1. IsFiniteSet({}) /\ Cardinality({}) = 0
  BY FS_EmptySet
<1>2. Cardinality({}) <= MaxKeys
  BY <1>1, MaterializerAssumption
<1>3. QED
  BY <1>1, <1>2 DEF Idle, FrameOK, Frames

LEMMA InitOK == Init => IInv
<1> SUFFICES ASSUME Init
             PROVE  IInv
  OBVIOUS
<1>1. 0 \in Version
  BY MaterializerAssumption DEF Version
<1>2. Shape
  <2>1. rows \in [Keys -> Version] /\ acked \in [Keys -> Version] /\ saved \in [Keys -> Version]
    BY <1>1 DEF Init
  <2>2. view \in [Derives -> [Keys -> Version]]
    BY <1>1 DEF Init
  <2>3. disk = [rows |-> rows, view |-> view]
    BY DEF Init
  <2>4. req \in [Requests -> Frames]
    BY IdleOK DEF Init
  <2>5. loaded \in BOOLEAN /\ dirty \in BOOLEAN
    BY Zenon DEF Init
  <2>6. pending \subseteq Derives /\ lost \subseteq Derives \X Keys
    BY DEF Init
  <2>7. faults \in 0..MaxFaults /\ unwritten \in 0..MaxFaults
    BY MaterializerAssumption DEF Init
  <2>8. QED
    BY <2>1, <2>2, <2>3, <2>4, <2>5, <2>6, <2>7 DEF Shape
<1>3. \A r \in Requests : FrameOK(req[r])
  BY IdleOK DEF Init
<1>4. StaleHasOwner /\ Whole
  BY DEF Init, StaleHasOwner, Stale, Whole
<1>5. QED
  BY <1>2, <1>3, <1>4 DEF IInv

(* The operations of a running request: rows of ks grow, r's frame becomes *)
(* q, which covers what r wrote, ks included.                              *)
LEMMA OperationKeeps ==
  ASSUME IInv, NEW r \in Requests, NEW ks \in SUBSET Keys, NEW q \in Frames,
         req[r].running,
         FrameOK(q), q.wrote = req[r].wrote \cup ks,
         req' = [req EXCEPT ![r] = q],
         \A k \in ks : rows[k] < MaxVersion,
         rows' = [k \in Keys |-> IF k \in ks THEN rows[k] + 1 ELSE rows[k]],
         Untouched
  PROVE  IInv'
<1>1. rows' \in [Keys -> Version] /\ \A k \in Keys : rows[k] <= rows'[k]
  BY MaterializerAssumption DEF IInv, Shape, Version
<1>2. req' \in [Requests -> Frames]
  BY DEF IInv, Shape
<1>3. Shape'
  BY <1>1, <1>2 DEF IInv, Shape, Untouched
<1>4. \A e \in Requests : FrameOK(req[e])'
  BY DEF IInv, Shape, FrameOK
<1>5. ASSUME NEW d \in Derives, NEW k \in Keys, Stale(d, k)'
      PROVE  Owned(d, k)' \/ <<d, k>> \in lost'
  <2>1. CASE k \in ks
    <3>1. k \in req'[r].wrote
      BY <2>1 DEF IInv, Shape
    <3>2. QED
      BY <3>1 DEF Owned, InFlight
  <2>2. CASE k \notin ks
    <3>1. Stale(d, k)
      BY <1>5, <2>2 DEF Stale, Untouched
    <3>2. Owned(d, k) \/ <<d, k>> \in lost
      BY <3>1 DEF IInv, StaleHasOwner
    <3>3. \A e \in Requests : req[e].wrote \subseteq req'[e].wrote
      BY DEF IInv, Shape
    <3>4. QED
      BY <3>2, <3>3 DEF Owned, InFlight, Untouched
  <2>3. QED
    BY <2>1, <2>2
<1>6. Whole'
  <2>1. \A k \in Keys : /\ rows[k] \in Int /\ rows'[k] \in Int /\ disk.rows[k] \in Int
                        /\ acked[k] \in Int
                        /\ \A d \in Derives : view[d][k] \in Int
    BY <1>1, MaterializerAssumption DEF IInv, Shape, Version
  <2>2. QED
    BY <1>1, <2>1 DEF IInv, Whole, Untouched
<1>7. QED
  BY <1>3, <1>4, <1>5, <1>6 DEF IInv, StaleHasOwner

(* A run of derives from the present rows keeps views behind their rows    *)
(* and what is on disk untouched.                                          *)
LEMMA RunsWhole ==
  ASSUME IInv, NEW now \in [Keys -> Version], \A k \in Keys : rows[k] <= now[k],
         NEW frame \in [Derives -> SUBSET Keys],
         NEW failed \in SUBSET Derives, Runs(now, frame, failed)
  PROVE  \A k \in Keys : /\ disk.rows[k] <= now[k]
                         /\ \A d \in Derives : view'[d][k] <= now[k]
<1>1. \A k \in Keys : /\ rows[k] \in Int /\ now[k] \in Int /\ disk.rows[k] \in Int
                      /\ \A d \in Derives : view[d][k] \in Int
  BY MaterializerAssumption DEF IInv, Shape, Version
<1>2. \A d \in Derives, k \in Keys : view'[d][k] \in {now[k], view[d][k]}
  BY RunsFacts DEF IInv
<1>3. QED
  BY <1>1, <1>2 DEF IInv, Whole

(* The rebuild before a dispatch: what is stale afterwards is pending, was *)
(* given up, or is still being written by a request.                       *)
LEMMA RebuildKeeps ==
  ASSUME IInv, loaded, Rebuild, UNCHANGED <<rows, disk, loaded, acked, saved, unwritten>>,
         req' \in [Requests -> Frames], \A r \in Requests : FrameOK(req'[r]),
         \A r \in Requests : req'[r].wrote = req[r].wrote
  PROVE  IInv'
<1>1. PICK again \in SUBSET pending, given \in SUBSET Derives :
        LET all    == IF dirty THEN Derives ELSE {}
            tried  == pending \cup all
            failed == tried \ ((pending \ again) \cup (all \ given))
            frame  == [d \in Derives |-> IF d \in tried THEN Keys ELSE {}]
        IN  /\ Runs(rows, frame, failed)
            /\ pending' = again
            /\ dirty' = FALSE
            /\ lost' = (lost \ Settled(frame, failed)) \cup ((failed \ again) \X Keys)
  BY DEF Rebuild
<1> DEFINE all    == IF dirty THEN Derives ELSE {}
           tried  == pending \cup all
           failed == tried \ ((pending \ again) \cup (all \ given))
           frame  == [d \in Derives |-> IF d \in tried THEN Keys ELSE {}]
<1>2. /\ Runs(rows, frame, failed)
      /\ pending' = again /\ dirty' = FALSE
      /\ lost' = (lost \ Settled(frame, failed)) \cup ((failed \ again) \X Keys)
  BY <1>1
<1>3. /\ rows \in [Keys -> Version] /\ frame \in [Derives -> SUBSET Keys]
      /\ failed \in SUBSET Derives /\ pending \subseteq Derives
      /\ \A d \in Derives : d \in pending \/ dirty => frame[d] = Keys
  BY DEF IInv, Shape
<1> HIDE DEF frame, failed
<1>4. /\ view' \in [Derives -> [Keys -> Version]] /\ faults' \in 0..MaxFaults
      /\ \A d \in Derives, k \in Keys : view'[d][k] \in {rows[k], view[d][k]}
      /\ \A e \in Settled(frame, failed) : view'[e[1]][e[2]] = rows[e[2]]
  BY <1>2, <1>3, RunsFacts DEF IInv
<1>5. Shape'
  BY <1>2, <1>3, <1>4 DEF IInv, Shape
<1>6. ASSUME NEW d \in Derives, NEW k \in Keys, Stale(d, k)'
      PROVE  Owned(d, k)' \/ <<d, k>> \in lost'
  <2>1. <<d, k>> \notin Settled(frame, failed)
    BY <1>4, <1>6 DEF Stale
  <2>2. CASE d \in failed
    BY <1>2, <2>2 DEF Owned
  <2>3. CASE d \notin failed
    <3>1. k \notin frame[d]
      BY <2>1, <2>3 DEF Settled
    <3>2. ~dirty /\ d \notin pending /\ Stale(d, k)
      BY <1>3, <1>4, <1>6, <3>1 DEF Stale
    <3>3. InFlight(k) \/ <<d, k>> \in lost
      BY <3>2 DEF IInv, StaleHasOwner, Owned
    <3>4. QED
      BY <1>2, <2>1, <3>3 DEF Owned, InFlight
  <2>4. QED
    BY <2>2, <2>3
<1>7. \A k \in Keys : rows[k] <= rows[k]
  BY MaterializerAssumption DEF IInv, Shape, Version
<1>8. Whole'
  BY <1>2, <1>3, <1>7, RunsWhole DEF IInv, Whole
<1>9. QED
  BY <1>5, <1>6, <1>8 DEF IInv, StaleHasOwner

LEMMA OneMore ==
  ASSUME NEW m \in Nat, NEW f \in Nat, NEW u \in Nat, f + u < m
  PROVE  u + 1 \in 0..m
OBVIOUS

LEMMA UnwrittenBound ==
  ASSUME Shape, Persist, faults' \in 0..MaxFaults
  PROVE  unwritten' \in 0..MaxFaults
<1>1. unwritten \in Nat /\ faults' \in Nat /\ MaxFaults \in Nat
  BY MaterializerAssumption DEF Shape
<1>2. CASE unwritten' = unwritten
  BY <1>2 DEF Shape
<1>3. CASE faults' + unwritten < MaxFaults /\ unwritten' = unwritten + 1
  <2>1. unwritten + 1 \in 0..MaxFaults
    BY <1>1, <1>3, OneMore, Zenon
  <2>2. QED
    BY <1>3, <2>1
<1>4. QED
  BY <1>2, <1>3 DEF Persist

(* The snapshot after a request or a job, written or not, when the rows    *)
(* are now now and no view is ahead of them.                               *)
LEMMA SnapshotKeeps ==
  ASSUME Shape, Whole, Persist, NEW now \in [Keys -> Version], rows' = now,
         \A k \in Keys : rows[k] <= now[k],
         view' \in [Derives -> [Keys -> Version]],
         \A k \in Keys, d \in Derives : view'[d][k] <= now[k],
         acked' \in [Keys -> Version], \A k \in Keys : acked'[k] \in {acked[k], now[k]}
  PROVE  Whole'
<1> SUFFICES ASSUME NEW k \in Keys
             PROVE  /\ acked'[k] <= rows'[k] /\ saved'[k] <= disk'.rows[k]
                    /\ disk'.rows[k] <= rows'[k]
                    /\ unwritten' = 0 => acked'[k] <= disk'.rows[k]
                    /\ \A d \in Derives : view'[d][k] <= rows'[k] /\ disk'.view[d][k] <= disk'.rows[k]
  BY DEF Whole
<1>1. /\ rows[k] \in Int /\ now[k] \in Int /\ acked[k] \in Int /\ acked'[k] \in Int
      /\ disk.rows[k] \in Int /\ saved[k] \in Int
  BY MaterializerAssumption DEF Shape, Version
<1>2. acked'[k] <= rows'[k]
  BY <1>1 DEF Whole
<1>3. CASE disk' = [rows |-> rows', view |-> view'] /\ saved' = acked'
  BY <1>1, <1>2, <1>3
<1>4. CASE UNCHANGED <<disk, saved>> /\ unwritten' = unwritten + 1
  <2>1. /\ saved[k] <= disk.rows[k] /\ disk.rows[k] <= rows[k] /\ rows[k] <= now[k]
        /\ \A d \in Derives : disk.view[d][k] <= disk.rows[k]
    BY DEF Whole
  <2>2. disk.rows[k] <= now[k]
    BY <1>1, <2>1
  <2>3. unwritten' # 0
    BY <1>4 DEF Shape
  <2>4. QED
    BY <1>2, <1>4, <2>1, <2>2, <2>3
<1>5. QED
  BY <1>3, <1>4 DEF Persist

(* The derives after a request or a job: q is the frame of the request     *)
(* that ends, if one does; the rows it wrote, or all rows when now differs *)
(* from rows, are refreshed, pending, or given up.                         *)
LEMMA AffectedKeeps ==
  ASSUME IInv, NEW q \in Frames, FrameOK(q), NEW full \in BOOLEAN, NEW forgotten,
         NEW now \in [Keys -> Version], \A k \in Keys : rows[k] <= now[k],
         forgotten \subseteq Derives \X Keys,
         \/ q.written \/ Derives \X q.wrote \subseteq forgotten,
         \/ now = rows \/ (full /\ q.written),
         RunAffected(now, q, full, forgotten),
         rows' = now, UNCHANGED <<loaded, dirty>>, Persist,
         req' \in [Requests -> Frames], \A r \in Requests : FrameOK(req'[r]),
         \A k \in Keys : InFlight(k) => InFlight(k)' \/ k \in q.wrote,
         acked' \in [Keys -> Version], \A k \in Keys : acked'[k] \in {acked[k], now[k]}
  PROVE  IInv'
<1> DEFINE due   == pending \cup (IF q.written THEN Derives ELSE {})
           frame == [d \in Derives |->
                       IF d \notin due THEN {}
                       ELSE IF full THEN Keys ELSE Frame(q, d \in pending)]
<1>0. /\ now \in [Keys -> Version] /\ pending \subseteq Derives
      /\ q.wrote \subseteq Keys /\ q.touched \subseteq Keys
      /\ \A k \in Keys : /\ rows[k] \in Int /\ now[k] \in Int /\ acked[k] \in Int
                         /\ disk.rows[k] \in Int /\ saved[k] \in Int
                         /\ \A d \in Derives : view[d][k] \in Int
  BY MaterializerAssumption DEF IInv, Shape, Version, Frames
<1>saved. saved' \in [Keys -> Version] /\ disk' \in {disk, [rows |-> rows', view |-> view']}
  BY DEF Persist, IInv, Shape
<1>bound. faults' \in 0..MaxFaults => unwritten' \in 0..MaxFaults
  BY UnwrittenBound DEF IInv
<1>1. \A d \in Derives :
        /\ frame[d] \subseteq Keys
        /\ d \in due => q.wrote \subseteq frame[d]
        /\ d \in pending => frame[d] = Keys
        /\ q.written /\ full => frame[d] = Keys
  <2> SUFFICES ASSUME NEW d \in Derives
               PROVE  /\ frame[d] \subseteq Keys
                      /\ d \in due => q.wrote \subseteq frame[d]
                      /\ d \in pending => frame[d] = Keys
                      /\ q.written /\ full => frame[d] = Keys
    OBVIOUS
  <2>1. /\ q.wrote \subseteq Frame(q, d \in pending)
        /\ Frame(q, d \in pending) \subseteq Keys
        /\ d \in pending => Frame(q, d \in pending) = Keys
    BY <1>0 DEF Frame, FrameOK
  <2>2. QED
    BY <1>0, <2>1
<1>2. CASE ~loaded
  <2>1. UNCHANGED <<view, pending, faults, lost>> /\ ~loaded'
    BY <1>2 DEF RunAffected
  <2>2. Shape'
    BY <1>saved, <1>bound, <2>1 DEF IInv, Shape
  <2>3. StaleHasOwner'
    BY <2>1 DEF StaleHasOwner, Owned
  <2>4. Whole'
    <3>1. view' \in [Derives -> [Keys -> Version]]
      BY <2>1 DEF IInv, Shape
    <3>2. \A k \in Keys, d \in Derives : view'[d][k] <= now[k]
      <4>1. \A k \in Keys, d \in Derives : view[d][k] <= rows[k]
        BY DEF IInv, Whole
      <4>2. QED
        BY <1>0, <2>1, <4>1
    <3>3. QED
      BY <1>0, <3>1, <3>2, SnapshotKeeps DEF IInv
  <2>5. QED
    BY <2>2, <2>3, <2>4 DEF IInv
<1>3. CASE loaded
  <2>1. PICK failed \in SUBSET due :
          /\ Runs(now, frame, failed)
          /\ pending' = failed
          /\ lost' = (lost \cup forgotten) \ Settled(frame, failed)
    BY <1>3 DEF RunAffected
  <2>2. due \subseteq Derives /\ frame \in [Derives -> SUBSET Keys] /\ failed \in SUBSET Derives
    BY <1>0, <1>1
  <2> HIDE DEF frame
  <2>3. /\ view' \in [Derives -> [Keys -> Version]] /\ faults' \in 0..MaxFaults
        /\ \A d \in Derives, k \in Keys : view'[d][k] \in {now[k], view[d][k]}
        /\ \A e \in Settled(frame, failed) : view'[e[1]][e[2]] = now[e[2]]
    BY <2>1, <2>2, RunsFacts DEF IInv
  <2>4. Shape'
    <3>1. lost' \subseteq Derives \X Keys
      BY <2>1 DEF IInv, Shape
    <3>2. pending' \subseteq Derives
      BY <2>1, <2>2
    <3>3. QED
      BY <1>saved, <1>bound, <2>3, <3>1, <3>2 DEF IInv, Shape
  <2>5. ASSUME NEW d \in Derives, NEW k \in Keys, Stale(d, k)'
        PROVE  Owned(d, k)' \/ <<d, k>> \in lost'
    <3>1. <<d, k>> \notin Settled(frame, failed)
      BY <2>3, <2>5 DEF Stale
    <3>2. CASE d \in failed
      BY <2>1, <3>2 DEF Owned
    <3>3. CASE d \notin failed
      <4>1. k \notin frame[d]
        BY <3>1, <3>3 DEF Settled
      <4>2. d \notin pending /\ ~(full /\ q.written) /\ (k \in q.wrote => d \notin due)
        BY <1>1, <4>1
      <4>3. now = rows /\ Stale(d, k)
        BY <2>3, <2>5, <4>2 DEF Stale
      <4>4. dirty \/ InFlight(k) \/ <<d, k>> \in lost
        BY <1>3, <4>2, <4>3 DEF IInv, StaleHasOwner, Owned
      <4>5. dirty' \/ InFlight(k)' \/ <<d, k>> \in lost \cup forgotten
        <5>1. CASE k \in q.wrote
          BY <4>2, <5>1
        <5>2. CASE k \notin q.wrote
          BY <4>4, <5>2
        <5>3. QED
          BY <5>1, <5>2
      <4>6. QED
        BY <2>1, <3>1, <4>5 DEF Owned
    <3>4. QED
      BY <3>2, <3>3
  <2>6. Whole'
    <3>1. \A k \in Keys : \A d \in Derives : view'[d][k] <= now[k]
      BY <2>1, <2>2, RunsWhole
    <3>2. QED
      BY <1>0, <2>3, <3>1, SnapshotKeeps DEF IInv
  <2>7. QED
    BY <2>4, <2>5, <2>6 DEF IInv, StaleHasOwner
<1>4. QED
  BY <1>2, <1>3

(* Every step keeps the invariant.                                         *)
LEMMA StepKeeps == IInv /\ [Next]_vars => IInv'
<1> SUFFICES ASSUME IInv, [Next]_vars
             PROVE  IInv'
  OBVIOUS
<1>1. /\ req \in [Requests -> Frames] /\ \A e \in Requests : req[e] \in Frames /\ FrameOK(req[e])
      /\ rows \in [Keys -> Version] /\ acked \in [Keys -> Version]
      /\ \A k \in Keys : rows[k] \in Int /\ rows[k] <= rows[k]
  BY MaterializerAssumption DEF IInv, Shape, Version
<1>2. ASSUME NEW r \in Requests, Begin(r)
      PROVE  IInv'
  <2>1. req' = [req EXCEPT ![r] = [Idle EXCEPT !.running = TRUE]] /\ req[r].wrote = {}
    BY <1>1, <1>2 DEF Begin, FrameOK
  <2>2. [Idle EXCEPT !.running = TRUE].wrote = {}
    BY DEF Idle
  <2>3. /\ req' \in [Requests -> Frames]
        /\ \A e \in Requests : FrameOK(req'[e]) /\ req'[e].wrote = req[e].wrote
    BY <1>1, <2>1, <2>2, IdleOK
  <2>4. QED
    BY <1>2, <2>3, RebuildKeeps DEF Begin
<1>3. CASE Render
  BY <1>1, <1>3, RebuildKeeps DEF Render
<1>4. ASSUME NEW r \in Requests, NEW k \in Keys, Read(r, k)
      PROVE  IInv'
  <2> DEFINE q == Capture(req[r], k)
  <2>1. q \in Frames /\ FrameOK(q) /\ q.wrote = req[r].wrote
    BY <1>1, CaptureFacts
  <2>2. rows' = [j \in Keys |-> IF j \in {} THEN rows[j] + 1 ELSE rows[j]]
    BY <1>1, <1>4 DEF Read
  <2> HIDE DEF q
  <2>3. req' = [req EXCEPT ![r] = q] /\ req[r].running /\ Untouched
    BY <1>4 DEF Read, q
  <2>4. {} \in SUBSET Keys /\ q.wrote = req[r].wrote \cup {} /\ \A j \in {} : rows[j] < MaxVersion
    BY <2>1
  <2>5. QED
    BY <2>1, <2>2, <2>3, <2>4, OperationKeeps
<1>5. ASSUME NEW r \in Requests, NEW k \in Keys, NEW written \in BOOLEAN,
             req[r].running, rows[k] < MaxVersion, Untouched,
             rows' = [rows EXCEPT ![k] = @ + 1],
             req' = [req EXCEPT ![r] = Wrote(Capture(@, k), written, {k})]
      PROVE  IInv'
  <2> DEFINE c == Capture(req[r], k)
             q == Wrote(c, written, {k})
  <2>1. /\ c \in Frames /\ FrameOK(c) /\ c.wrote = req[r].wrote /\ c.running
        /\ c.overflow \/ k \in c.touched
    BY <1>1, <1>5, CaptureFacts
  <2> HIDE DEF c
  <2>2. q \in Frames /\ FrameOK(q) /\ q.wrote = req[r].wrote \cup {k}
    BY <2>1 DEF Frames, FrameOK, Wrote
  <2>3. rows' = [j \in Keys |-> IF j \in {k} THEN rows[j] + 1 ELSE rows[j]]
    <3>1. rows \in [Keys -> Version]
      BY <1>1 DEF IInv, Shape
    <3>2. QED
      BY <1>5, <3>1
  <2>4. req' = [req EXCEPT ![r] = q]
    BY <1>5 DEF c
  <2> HIDE DEF q
  <2>5. {k} \in SUBSET Keys /\ \A j \in {k} : rows[j] < MaxVersion
    BY <1>5
  <2>6. req[r].running /\ Untouched
    BY <1>5
  <2>7. QED
    BY <2>2, <2>3, <2>4, <2>5, <2>6, OperationKeeps
<1>6. ASSUME NEW r \in Requests, NEW k \in Keys, Write(r, k)
      PROVE  IInv'
  BY <1>5, <1>6 DEF Write
<1>7. ASSUME NEW r \in Requests, NEW k \in Keys, Enqueue(r, k)
      PROVE  IInv'
  <2>1. req[r].written \in BOOLEAN
    BY <1>1 DEF Frames
  <2>2. QED
    BY <1>5, <1>7, <2>1 DEF Enqueue
<1>8. ASSUME NEW r \in Requests, NEW ks \in SUBSET Keys, Batch(r, ks)
      PROVE  IInv'
  <2> DEFINE q == Wrote([req[r] EXCEPT !.overflow = TRUE], TRUE, ks)
  <2>1. q \in Frames /\ FrameOK(q) /\ q.wrote = req[r].wrote \cup ks
    BY <1>1, <1>8 DEF Batch, Frames, FrameOK, Wrote
  <2>2. req' = [req EXCEPT ![r] = q]
    BY <1>8 DEF Batch
  <2> HIDE DEF q
  <2>3. QED
    BY <1>8, <2>1, <2>2, OperationKeeps DEF Batch
<1>9. ASSUME NEW r \in Requests, Finish(r)
      PROVE  IInv'
  <2>1. req' = [req EXCEPT ![r] = Idle]
        /\ acked' = [k \in Keys |-> IF k \in req[r].wrote THEN rows[k] ELSE acked[k]]
    BY <1>9 DEF Finish, Answer
  <2>2. req' \in [Requests -> Frames] /\ \A e \in Requests : FrameOK(req'[e])
    BY <1>1, <2>1, IdleOK
  <2>3. \A k \in Keys : InFlight(k) => InFlight(k)' \/ k \in req[r].wrote
    BY <1>1, <2>1 DEF InFlight
  <2>4. acked' \in [Keys -> Version] /\ \A k \in Keys : acked'[k] \in {acked[k], rows[k]}
    BY <1>1, <2>1
  <2>5. /\ Forgotten(req[r]) \subseteq Derives \X Keys
        /\ req[r].written \/ Derives \X req[r].wrote \subseteq Forgotten(req[r])
    <3>1. req[r].wrote \subseteq Keys
      BY <1>1 DEF Frames
    <3>2. QED
      BY <3>1 DEF Forgotten
  <2>6. /\ RunAffected(rows, req[r], FALSE, Forgotten(req[r]))
        /\ rows' = rows /\ UNCHANGED <<loaded, dirty>> /\ Persist
    BY <1>9 DEF Finish
  <2> DEFINE q == req[r]
             forgotten == Forgotten(req[r])
  <2>7. q \in Frames /\ FrameOK(q)
    BY <1>1
  <2> HIDE DEF q, forgotten
  <2>8. QED
    BY <1>1, <2>2, <2>3, <2>4, <2>5, <2>6, <2>7, AffectedKeeps DEF q, forgotten
<1>10. ASSUME NEW r \in Requests, Trap(r)
       PROVE  IInv'
  <2>1. /\ UNCHANGED <<rows, view, loaded, dirty, pending, faults, acked>>
        /\ saved' \in {acked, saved} /\ disk' \in {disk, [rows |-> rows, view |-> view]}
        /\ lost' = lost \cup (Derives \X req[r].wrote)
        /\ req' = [req EXCEPT ![r] = Idle]
    BY <1>10 DEF Trap, Persist
  <2>2. req' \in [Requests -> Frames] /\ \A e \in Requests : FrameOK(req'[e])
    BY <1>1, <2>1, IdleOK
  <2>3. req[r].wrote \subseteq Keys
    BY <1>1 DEF Frames
  <2>4. Shape'
    <3>1. Persist /\ faults' \in 0..MaxFaults
      BY <1>10, <2>1 DEF Trap, IInv, Shape
    <3>2. unwritten' \in 0..MaxFaults
      BY <3>1, UnwrittenBound DEF IInv
    <3>3. QED
      BY <2>1, <2>2, <2>3, <3>2 DEF IInv, Shape
  <2>5. \A k \in Keys : InFlight(k) => InFlight(k)' \/ k \in req[r].wrote
    BY <1>1, <2>1 DEF InFlight
  <2>6. StaleHasOwner'
    <3>1. \A d \in Derives, k \in Keys :
            /\ Stale(d, k)' => Stale(d, k)
            /\ Owned(d, k) => Owned(d, k)' \/ <<d, k>> \in lost'
            /\ <<d, k>> \in lost => <<d, k>> \in lost'
      BY <2>1, <2>5 DEF Stale, Owned
    <3>2. QED
      BY <3>1 DEF IInv, StaleHasOwner
  <2>7. Whole'
    <3>1. view \in [Derives -> [Keys -> Version]]
          /\ \A k \in Keys, d \in Derives : view[d][k] <= rows[k]
      BY DEF IInv, Shape, Whole
    <3>2. Persist /\ acked' = acked /\ rows' = rows /\ view' = view
      BY <1>10, <2>1 DEF Trap
    <3>3. QED
      BY <1>1, <3>1, <3>2, SnapshotKeeps DEF IInv
  <2>8. QED
    BY <2>2, <2>4, <2>6, <2>7 DEF IInv
<1>11. ASSUME NEW ks \in SUBSET Keys, Job(ks)
       PROVE  IInv'
  <2> DEFINE now == [k \in Keys |-> IF k \in ks THEN rows[k] + 1 ELSE rows[k]]
             q   == [Idle EXCEPT !.written = TRUE]
  <2>1. q \in Frames /\ FrameOK(q) /\ q.written
    BY IdleOK DEF Frames, FrameOK, Idle
  <2>2. now \in [Keys -> Version] /\ \A k \in Keys : rows[k] <= now[k]
    BY <1>11, MaterializerAssumption DEF Job, IInv, Shape, Version
  <2>3. /\ rows' = now /\ RunAffected(now, q, TRUE, {}) /\ Persist
        /\ UNCHANGED <<loaded, dirty, req, acked>>
    BY <1>11 DEF Job
  <2>4. \A k \in Keys : InFlight(k) => InFlight(k)'
    BY <2>3 DEF InFlight
  <2> HIDE DEF now, q
  <2>5. QED
    BY <1>1, <2>1, <2>2, <2>3, <2>4, AffectedKeeps
<1>12. CASE Load \/ Reload \/ Unload
  <2>1. /\ UNCHANGED <<rows, view, disk, pending, req, lost, acked, saved, unwritten>>
        /\ faults' \in 0..MaxFaults
    BY <1>12, MaterializerAssumption DEF Load, Reload, Unload, IInv, Shape
  <2>2. loaded' \in BOOLEAN /\ dirty' \in BOOLEAN
    BY <1>12, Zenon DEF Load, Reload, Unload, IInv, Shape
  <2>3. ~loaded' \/ dirty' \/ Derives = {}
    BY <1>12, Zenon DEF Load, Reload, Unload
  <2>4. StaleHasOwner'
    BY <2>3 DEF StaleHasOwner, Owned
  <2>5. QED
    BY <2>1, <2>2, <2>4 DEF IInv, Shape, FrameOK, Whole
<1>13. CASE Crash
  <2>1. /\ rows' = disk.rows /\ view' = disk.view /\ disk' = disk /\ acked' = saved /\ UNCHANGED <<saved, unwritten>>
        /\ pending' = {} /\ lost' = {} /\ faults' \in 0..MaxFaults
        /\ req' = [r \in Requests |-> Idle]
    BY <1>13, MaterializerAssumption DEF Crash, IInv, Shape
  <2>2. Shape'
    <3>1. loaded' \in BOOLEAN /\ dirty' \in BOOLEAN
      BY <1>13, Zenon DEF Crash
    <3>2. QED
      BY <2>1, <3>1, IdleOK DEF IInv, Shape
  <2>3. \A r \in Requests : FrameOK(req'[r])
    BY <2>1, IdleOK
  <2>4. StaleHasOwner'
    <3>1. ~loaded'
      BY <1>13 DEF Crash
    <3>2. QED
      BY <3>1 DEF StaleHasOwner, Owned
  <2>5. Whole'
    <3>1. \A k \in Keys : disk.rows[k] \in Int /\ saved[k] \in Int
      BY MaterializerAssumption DEF IInv, Shape, Version
    <3>2. QED
      BY <2>1, <3>1 DEF IInv, Whole
  <2>6. QED
    BY <2>2, <2>3, <2>4, <2>5 DEF IInv
<1>14. CASE UNCHANGED vars
  BY <1>14 DEF vars, IInv, Shape, FrameOK, StaleHasOwner, Stale, Owned, InFlight, Whole
<1>15. QED
  BY <1>2, <1>3, <1>4, <1>6, <1>7, <1>8, <1>9, <1>10, <1>11, <1>12, <1>13, <1>14 DEF Next

LEMMA Invariant == Spec => []IInv
<1>1. QED
  BY InitOK, StepKeeps, PTL DEF Spec

(* The variables have their shapes, and no frame outgrows its bound.       *)
THEOREM TypeCorrect == Spec => []TypeOK
<1>1. IInv => TypeOK
  BY DEF IInv, Shape, FrameOK, TypeOK
<1>2. QED
  BY <1>1, Invariant, PTL

(* No refresh is lost, for any number of requests, keys and derives and    *)
(* any size of the frames, but by the three known ways.                    *)
THEOREM NoRefreshLost == Spec => []StaleHasOwner
<1>1. IInv => StaleHasOwner
  BY DEF IInv
<1>2. QED
  BY <1>1, Invariant, PTL

(* What was answered is in memory, and on disk unless a snapshot failed    *)
(* since; no view runs ahead of its source, in memory or on disk.          *)
THEOREM SnapshotsWhole == Spec => []AckedDurable
<1>1. IInv => AckedDurable
  BY DEF IInv, Whole, AckedDurable
<1>2. QED
  BY <1>1, Invariant, PTL
=============================================================================
