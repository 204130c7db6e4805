--------------------------- MODULE CapacityProofs ---------------------------
(***************************************************************************)
(* Proofs about Capacity, for every value of its constants: the types,     *)
(* no oversell, the permanence of acknowledged sales and of holds, no      *)
(* reuse of handles and the refinement of BoxOffice.                       *)
(*                                                                         *)
(* The types and no oversell hold whatever the disk does.  What clients    *)
(* were answered outlives a crash only if it was written: those theorems   *)
(* assume DiskMayFail = FALSE, which the code does not check (persist      *)
(* swallows a failed write).  After a failed one and a crash an answered   *)
(* sale or hold is gone and its id is handed out again.                    *)
(***************************************************************************)
EXTENDS Capacity, FiniteSetTheorems, TLAPS

-----------------------------------------------------------------------------
(* Reservations as sets of units                                           *)

(* The units of a table are finitely many, so Reserved is a number.        *)
LEMMA UnitsFinite ==
  ASSUME NEW res, Table(res)
  PROVE  IsFiniteSet(Units(res)) /\ Reserved(res) \in Nat
<1> DEFINE Row(i) == {i} \X (1..res[i].amount)
           Rows   == { Row(i) : i \in DOMAIN res }
<1>1. IsFiniteSet(Rows)
  <2> DEFINE row == [i \in DOMAIN res |-> Row(i)]
  <2>1. row \in Surjection(DOMAIN res, Rows)
    BY DEF Surjection
  <2>2. QED
    BY <2>1, FS_Surjection DEF Table
<1>2. ASSUME NEW i \in DOMAIN res
      PROVE  IsFiniteSet(Row(i))
  <2>1. res[i].amount \in Nat
    BY DEF Table, Reservation
  <2>2. IsFiniteSet({i})
    BY FS_Singleton
  <2>3. IsFiniteSet(1..res[i].amount)
    BY <2>1, FS_Interval
  <2>4. QED
    BY <2>2, <2>3, FS_Product
<1>3. \A T \in Rows : IsFiniteSet(T)
  BY <1>2
<1>4. IsFiniteSet(UNION Rows)
  <2> HIDE DEF Rows
  <2>1. QED
    BY <1>1, <1>3, FS_UNION
<1>5. QED
  BY <1>4, FS_CardinalityType DEF Units, Reserved

(* A part of a table reserves no more than the table.                      *)
LEMMA UnitsMonotone ==
  ASSUME NEW small, NEW large, Table(large),
         DOMAIN small \subseteq DOMAIN large,
         \A i \in DOMAIN small : small[i].amount = large[i].amount
  PROVE  Reserved(small) <= Reserved(large)
<1>1. Units(small) \subseteq Units(large)
  BY DEF Units
<1>2. QED
  BY <1>1, UnitsFinite, FS_Subset DEF Reserved

(* A new row adds at most its amount.                                      *)
LEMMA PutReserves ==
  ASSUME NEW res, Table(res), NEW id \in Ids, NEW r \in Reservation
  PROVE  /\ Table(Put(res, id, r))
         /\ id \notin DOMAIN res =>
              Reserved(Put(res, id, r)) <= Reserved(res) + r.amount
         /\ id \in DOMAIN res /\ r.amount = res[id].amount =>
              Reserved(Put(res, id, r)) = Reserved(res)
<1> DEFINE new == Put(res, id, r)
<1>1. Table(new)
  <2>1. IsFiniteSet(DOMAIN new)
    BY FS_AddElement DEF Table, Put
  <2>2. QED
    BY <2>1 DEF Table, Put
<1>2. ASSUME id \notin DOMAIN res
      PROVE  Reserved(new) <= Reserved(res) + r.amount
  <2> DEFINE row == {id} \X (1..r.amount)
  <2>1. Units(new) = Units(res) \cup row
    BY <1>2 DEF Units, Put
  <2>2. r.amount \in Nat
    BY DEF Reservation
  <2>3. IsFiniteSet(row) /\ Cardinality(row) = r.amount
    <3>1. IsFiniteSet({id}) /\ Cardinality({id}) = 1
      BY FS_Singleton
    <3>2. IsFiniteSet(1..r.amount) /\ Cardinality(1..r.amount) = r.amount
      BY <2>2, FS_Interval
    <3>3. /\ IsFiniteSet(row)
          /\ Cardinality(row) = Cardinality({id}) * Cardinality(1..r.amount)
      BY <3>1, <3>2, FS_Product
    <3>4. 1 * r.amount = r.amount
      BY <2>2
    <3>5. QED
      BY <3>1, <3>2, <3>3, <3>4
  <2>4. IsFiniteSet(Units(res)) /\ Reserved(res) \in Nat
    BY UnitsFinite
  <2> HIDE DEF row
  <2>5. IsFiniteSet(Units(res) \cap row)
    BY <2>4, FS_Intersection
  <2>6. Cardinality(Units(res) \cap row) \in Nat
    BY <2>5, FS_CardinalityType
  <2>7. Cardinality(Units(res) \cup row)
          = Cardinality(Units(res)) + Cardinality(row) - Cardinality(Units(res) \cap row)
    BY <2>3, <2>4, FS_Union
  <2>8. QED
    BY <2>1, <2>2, <2>3, <2>4, <2>6, <2>7 DEF Reserved
<1>3. ASSUME id \in DOMAIN res, r.amount = res[id].amount
      PROVE  Reserved(new) = Reserved(res)
  <2>1. Units(new) = Units(res)
    BY <1>3 DEF Units, Put
  <2>2. QED
    BY <2>1 DEF Reserved
<1>4. QED
  BY <1>1, <1>2, <1>3

(* Pruning and dropping leave a part of the table.                         *)
LEMMA PrunePart ==
  ASSUME NEW res, Table(res), NEW t
  PROVE  /\ Table(Prune(res, t))
         /\ Reserved(Prune(res, t)) <= Reserved(res)
<1>1. DOMAIN Prune(res, t) \subseteq DOMAIN res
  BY DEF Prune
<1>2. Table(Prune(res, t))
  BY <1>1, FS_Subset DEF Prune, Table
<1>3. QED
  BY <1>1, <1>2, UnitsMonotone DEF Prune

LEMMA DropPart ==
  ASSUME NEW res, Table(res), NEW id
  PROVE  /\ Table(Drop(res, id))
         /\ Reserved(Drop(res, id)) <= Reserved(res)
<1>1. DOMAIN Drop(res, id) \subseteq DOMAIN res
  BY DEF Drop
<1>2. Table(Drop(res, id))
  BY <1>1, FS_Subset DEF Drop, Table
<1>3. QED
  BY <1>1, <1>2, UnitsMonotone DEF Drop

-----------------------------------------------------------------------------
(* The inductive invariant of the ledger                                   *)

(* A table within the ceiling p whose fresh ids are below n.               *)
Held(res, p, n) ==
  /\ Table(res)
  /\ Reserved(res) <= p
  /\ \A i \in DOMAIN res : i < Half => i < n

(* A ledger within the ceiling p, whose next id is fresh.                  *)
Sound(l, p) ==
  /\ l = [total |-> l.total, nextId |-> l.nextId, res |-> l.res]
  /\ l.total \in Nat /\ l.total <= p
  /\ l.nextId \in Nat \ {0} /\ l.nextId <= MaxId + 1
  /\ Held(l.res, p, l.nextId)

HistoryOK ==
  /\ now \in Nat /\ peak \in Nat
  /\ open \subseteq Dispatches
  /\ pledged \in [Dispatches -> [sales : SUBSET Handle, holds : SUBSET Hold]]
  /\ acked \in [sales : SUBSET Handle, holds : SUBSET Hold]

IInv == HistoryOK /\ Sound(ledger, peak) /\ Sound(disk, peak)

(* Pruning and dropping keep a table within the ceiling; so does a higher  *)
(* ceiling.                                                                *)
LEMMA HeldPart ==
  ASSUME NEW res, NEW p \in Nat, NEW n \in Nat, Held(res, p, n)
  PROVE  /\ \A t : Held(Prune(res, t), p, n)
         /\ \A id : Held(Drop(res, id), p, n)
         /\ \A q \in Nat : q >= p => Held(res, q, n)
<1>1. Table(res) /\ Reserved(res) \in Nat
  BY UnitsFinite DEF Held
<1>2. ASSUME NEW t
      PROVE  Held(Prune(res, t), p, n)
  <2>1. Table(Prune(res, t)) /\ Reserved(Prune(res, t)) <= Reserved(res)
    BY <1>1, PrunePart
  <2>2. Reserved(Prune(res, t)) \in Nat
    BY <2>1, UnitsFinite
  <2>3. DOMAIN Prune(res, t) \subseteq DOMAIN res
    BY DEF Prune
  <2>4. QED
    BY <1>1, <2>1, <2>2, <2>3 DEF Held
<1>3. ASSUME NEW id
      PROVE  Held(Drop(res, id), p, n)
  <2>1. Table(Drop(res, id)) /\ Reserved(Drop(res, id)) <= Reserved(res)
    BY <1>1, DropPart
  <2>2. Reserved(Drop(res, id)) \in Nat
    BY <2>1, UnitsFinite
  <2>3. DOMAIN Drop(res, id) \subseteq DOMAIN res
    BY DEF Drop
  <2>4. QED
    BY <1>1, <2>1, <2>2, <2>3 DEF Held
<1>4. ASSUME NEW q \in Nat, q >= p
      PROVE  Held(res, q, n)
  BY <1>1, <1>4 DEF Held
<1>5. QED
  BY <1>2, <1>3, <1>4

(* A row with the amount it had, and a new row that fits, keep a table     *)
(* within the ceiling.                                                     *)
LEMMA HeldPut ==
  ASSUME NEW res, NEW p \in Nat, NEW n \in Nat, Held(res, p, n),
         NEW id \in Ids, NEW r \in Reservation,
         NEW m \in Nat, m >= n, id < Half => id < m,
         \/ id \in DOMAIN res /\ r.amount = res[id].amount
         \/ id \notin DOMAIN res /\ Reserved(res) + r.amount <= p
  PROVE  Held(Put(res, id, r), p, m)
<1>1. Table(res) /\ Reserved(res) \in Nat
  BY UnitsFinite DEF Held
<1>2. Table(Put(res, id, r))
  BY <1>1, PutReserves
<1>3. Reserved(Put(res, id, r)) \in Nat
  BY <1>2, UnitsFinite
<1>4. r.amount \in Nat
  BY DEF Reservation
<1>5. Reserved(Put(res, id, r)) <= p
  <2>1. CASE id \in DOMAIN res /\ r.amount = res[id].amount
    BY <1>1, <2>1, PutReserves DEF Held
  <2>2. CASE id \notin DOMAIN res /\ Reserved(res) + r.amount <= p
    <3>1. Reserved(Put(res, id, r)) <= Reserved(res) + r.amount
      BY <1>1, <2>2, PutReserves
    <3>2. QED
      BY <1>1, <1>3, <1>4, <2>2, <3>1
  <2>3. QED
    BY <2>1, <2>2
<1>6. ASSUME NEW i \in DOMAIN Put(res, id, r), i < Half
      PROVE  i < m
  <2>1. CASE i = id
    BY <1>6, <2>1
  <2>2. CASE i # id
    <3>1. i \in DOMAIN res /\ i \in Ids
      BY <1>1, <1>6, <2>2 DEF Put, Table
    <3>2. i \in Int /\ i < n
      BY <1>6, <3>1, CapacityAssumption DEF Held, Ids
    <3>3. QED
      BY <3>2
  <2>3. QED
    BY <2>1, <2>2
<1>7. QED
  BY <1>2, <1>5, <1>6 DEF Held

(* The table the imports start from.                                       *)
LEMMA PrunedHeld ==
  ASSUME IInv
  PROVE  /\ Held(Pruned, peak, ledger.nextId)
         /\ Table(Pruned) /\ Reserved(Pruned) \in Nat
<1>1. peak \in Nat /\ ledger.nextId \in Nat /\ Held(ledger.res, peak, ledger.nextId)
  BY DEF IInv, HistoryOK, Sound
<1>2. Held(Pruned, peak, ledger.nextId)
  BY <1>1, HeldPart DEF Pruned
<1>3. QED
  BY <1>2, UnitsFinite DEF Held

(* A step that replaces only the table.                                    *)
LEMMA SoundTable ==
  ASSUME IInv, NEW res, Held(res, peak, ledger.nextId),
         ledger' = [ledger EXCEPT !.res = res], UNCHANGED <<disk, peak>>
  PROVE  Sound(ledger, peak)' /\ Sound(disk, peak)'
<1>1. ledger' = [total |-> ledger.total, nextId |-> ledger.nextId, res |-> res]
  BY DEF IInv, Sound
<1>2. Sound(ledger, peak)'
  BY <1>1 DEF IInv, Sound
<1>3. Sound(disk, peak)'
  BY DEF IInv, Sound
<1>4. QED
  BY <1>2, <1>3

(* What the guest is told keeps the histories typed.                       *)
LEMMA TellTyped ==
  ASSUME IInv, NEW d \in Dispatches, NEW what \in {"sales", "holds"},
         NEW told, what = "sales" => told \in Handle, what = "holds" => told \in Hold,
         Tell(d, what, told), UNCHANGED <<now, open, acked, peak>>
  PROVE  HistoryOK'
<1>2. pledged' \in [Dispatches -> [sales : SUBSET Handle, holds : SUBSET Hold]]
  <2>1. pledged[d] \in [sales : SUBSET Handle, holds : SUBSET Hold]
    BY DEF IInv, HistoryOK
  <2>2. CASE what = "sales"
    BY <2>1, <2>2 DEF IInv, HistoryOK, Tell
  <2>3. CASE what = "holds"
    BY <2>1, <2>3 DEF IInv, HistoryOK, Tell
  <2>4. QED
    BY <2>2, <2>3
<1>3. QED
  BY <1>2 DEF IInv, HistoryOK

LEMMA InitSound == Init => IInv
<1> SUFFICES ASSUME Init
             PROVE  IInv
  OBVIOUS
<1>1. ledger = [total |-> 0, nextId |-> 1, res |-> <<>>] /\ disk = ledger /\ peak = 0
  BY DEF Init
<1>2. DOMAIN ledger.res = {}
  BY <1>1
<1>3. Units(ledger.res) = {}
  BY <1>2 DEF Units
<1>4. Reserved(ledger.res) = 0
  BY <1>3, FS_EmptySet DEF Reserved
<1>5. Table(ledger.res)
  BY <1>2, FS_EmptySet DEF Table
<1>6. Sound(ledger, peak)
  BY <1>1, <1>2, <1>4, <1>5, CapacityAssumption DEF Sound, Held
<1>7. HistoryOK
  BY DEF Init, HistoryOK, Nothing
<1>8. QED
  BY <1>1, <1>6, <1>7 DEF IInv

(* Every import keeps the invariant.                                       *)
LEMMA ImportKeeps ==
  ASSUME IInv, NEW d \in Dispatches, Import(d)
  PROVE  IInv'
<1> DEFINE n == ledger.nextId
<1>1. /\ Held(Pruned, peak, n) /\ Table(Pruned) /\ Reserved(Pruned) \in Nat
      /\ peak \in Nat /\ n \in Nat \ {0} /\ n <= MaxId + 1
      /\ ledger.total \in Nat /\ ledger.total <= peak
  BY PrunedHeld DEF IInv, HistoryOK, Sound
<1>2. ASSUME OnlyPrune
      PROVE  IInv'
  <2>1. Sound(ledger, peak)' /\ Sound(disk, peak)'
    BY <1>1, <1>2, SoundTable DEF OnlyPrune, Quiet
  <2>2. HistoryOK'
    BY <1>2 DEF OnlyPrune, Quiet, IInv, HistoryOK
  <2>3. QED
    BY <2>1, <2>2 DEF IInv
<1>3. ASSUME NEW want \in Amounts, NEW req \in KeyedIds \cup {None},
             ReserveRepeated(d, want, req)
      PROVE  IInv'
  <2>1. Sound(ledger, peak)' /\ Sound(disk, peak)'
    BY <1>1, <1>3, SoundTable DEF ReserveRepeated, Quiet
  <2> DEFINE h == [id |-> req, amount |-> want, until |-> Pruned[req].expires]
  <2>2. req \in Ids /\ want \in Nat /\ Pruned[req] \in Reservation
    BY <1>1, <1>3, CapacityAssumption DEF ReserveRepeated, Repeats, Table
  <2>3. h \in Hold
    BY <2>2 DEF Hold, Reservation
  <2>4. Tell(d, "holds", h) /\ UNCHANGED <<now, open, acked, peak>>
    BY <1>3 DEF ReserveRepeated, Quiet
  <2> HIDE DEF h
  <2>5. HistoryOK'
    BY <2>3, <2>4, TellTyped
  <2>6. QED
    BY <2>1, <2>5 DEF IInv
<1>4. ASSUME NEW want \in Amounts, NEW req \in KeyedIds \cup {None}, NEW ttl \in Ttls,
             ReserveGranted(d, want, ttl, req)
      PROVE  IInv'
  <2> DEFINE id == IF req = None THEN n ELSE req
             r  == [amount |-> want, expires |-> now + ttl, confirmed |-> FALSE]
             m  == IF req = None THEN id + 1 ELSE n
  <2>1. want \in Nat /\ now \in Nat /\ ttl \in Nat
    BY CapacityAssumption DEF IInv, HistoryOK
  <2>2. r \in Reservation
    BY <2>1 DEF Reservation
  <2>3. /\ ledger' = [total |-> ledger.total, nextId |-> m, res |-> Put(Pruned, id, r)]
        /\ Tell(d, "holds", [id |-> id, amount |-> want, until |-> now + ttl])
        /\ UNCHANGED <<disk, now, open, acked, peak>>
        /\ req = None => n <= MaxId
        /\ ~Repeats(req) /\ Enough(want)
    BY <1>4 DEF ReserveGranted, Quiet
  <2>4. id \in Ids /\ m \in Nat \ {0} /\ m <= MaxId + 1 /\ m >= n /\ (id < Half => id < m)
    BY <1>1, <2>3, CapacityAssumption DEF Ids, None
  <2>5. id \notin DOMAIN Pruned
    <3>1. CASE req = None
      BY <1>1, <2>3, <3>1, CapacityAssumption DEF Held
    <3>2. CASE req # None
      BY <2>3, <3>2 DEF Repeats
    <3>3. QED
      BY <3>1, <3>2
  <2>6. Reserved(Pruned) + r.amount <= peak
    BY <1>1, <2>1, <2>3 DEF Enough
  <2> HIDE DEF n, id, r, m
  <2>7. Held(Put(Pruned, id, r), peak, m)
    BY <1>1, <2>2, <2>4, <2>5, <2>6, HeldPut DEF n
  <2>8. Sound(ledger, peak)'
    BY <1>1, <2>3, <2>4, <2>7 DEF Sound
  <2>9. Sound(disk, peak)'
    BY <2>3 DEF IInv, Sound
  <2>10. HistoryOK'
    <3>1. [id |-> id, amount |-> want, until |-> now + ttl] \in Hold
      BY <2>1, <2>4 DEF Hold
    <3>2. QED
      BY <2>3, <3>1, TellTyped
  <2>11. QED
    BY <2>8, <2>9, <2>10 DEF IInv
<1>5. ASSUME NEW handle, Confirmed(d, handle)
      PROVE  IInv'
  <2> DEFINE id == AsSigned(handle)
             r  == [Pruned[id] EXCEPT !.confirmed = TRUE]
  <2>1. id \in DOMAIN Pruned /\ id \in Ids /\ Pruned[id] \in Reservation
    BY <1>1, <1>5 DEF Confirmed, Table
  <2>2. r \in Reservation /\ r.amount = Pruned[id].amount /\ Pruned[id].amount \in Nat
    BY <2>1 DEF Reservation
  <2>3. id < Half => id < n
    BY <1>1, <2>1 DEF Held
  <2>4. Held(Put(Pruned, id, r), peak, n)
    <3> HIDE DEF id, r, n
    <3>1. QED
      BY <1>1, <2>1, <2>2, <2>3, HeldPut
  <2>5. Sound(ledger, peak)' /\ Sound(disk, peak)'
    BY <1>5, <2>4, SoundTable DEF Confirmed, Quiet
  <2>6. HistoryOK'
    <3>1. [id |-> id, amount |-> Pruned[id].amount] \in Handle
      BY <2>1, <2>2 DEF Handle
    <3>2. /\ Tell(d, "sales", [id |-> id, amount |-> Pruned[id].amount])
          /\ UNCHANGED <<now, open, acked, peak>>
      BY <1>5 DEF Confirmed, Quiet
    <3>3. QED
      BY <3>1, <3>2, TellTyped
  <2>7. QED
    BY <2>5, <2>6 DEF IInv
<1>6. ASSUME NEW handle, Cancelled(d, handle)
      PROVE  IInv'
  <2>1. Held(Drop(Pruned, AsSigned(handle)), peak, n)
    BY <1>1, HeldPart
  <2>2. Sound(ledger, peak)' /\ Sound(disk, peak)'
    BY <1>6, <2>1, SoundTable DEF Cancelled, Quiet
  <2>3. HistoryOK'
    BY <1>6 DEF Cancelled, Quiet, IInv, HistoryOK
  <2>4. QED
    BY <2>2, <2>3 DEF IInv
<1>7. ASSUME NEW t \in Totals, SetTotal(d, t)
      PROVE  IInv'
  <2> DEFINE new == IF t < 0 THEN 0 ELSE t
  <2>1. t \in Int
    BY CapacityAssumption
  <2>2. new \in Nat /\ peak' \in Nat /\ peak' >= peak /\ new <= peak'
    BY <1>1, <1>7, <2>1 DEF SetTotal
  <2>3. ledger' = [total |-> new, nextId |-> n, res |-> ledger.res]
    BY <1>7 DEF SetTotal, IInv, Sound
  <2> HIDE DEF new
  <2>4. Held(ledger.res, peak', n) /\ Held(disk.res, peak', disk.nextId)
    BY <1>1, <2>2, HeldPart DEF IInv, Sound
  <2>5. Sound(ledger, peak)'
    BY <1>1, <2>2, <2>3, <2>4 DEF Sound
  <2>6. Sound(disk, peak)'
    <3>1. disk.total <= peak'
      BY <1>1, <2>2 DEF IInv, Sound
    <3>2. QED
      BY <1>7, <2>4, <3>1 DEF SetTotal, IInv, Sound
  <2>7. HistoryOK'
    BY <1>7, <2>2 DEF SetTotal, IInv, HistoryOK
  <2>8. QED
    BY <2>5, <2>6, <2>7 DEF IInv
<1>8. QED
  BY <1>2, <1>3, <1>4, <1>5, <1>6, <1>7
     DEF Import, Available, ReserveConflict, ReserveRefused, ConfirmMissed, CancelMissed

(* Every step keeps the invariant.                                         *)
LEMMA StepKeeps == IInv /\ [Next]_vars => IInv'
<1> SUFFICES ASSUME IInv, [Next]_vars
             PROVE  IInv'
  OBVIOUS
<1>1. ASSUME NEW d \in Dispatches, Begin(d)
      PROVE  IInv'
  BY <1>1 DEF Begin, IInv, HistoryOK, Sound
<1>2. ASSUME NEW d \in Dispatches, Close(d)
      PROVE  /\ open' \subseteq Dispatches
             /\ pledged' \in [Dispatches -> [sales : SUBSET Handle, holds : SUBSET Hold]]
  BY <1>2 DEF Close, Nothing, IInv, HistoryOK
<1>3. ASSUME NEW d \in Dispatches, Finish(d)
      PROVE  IInv'
  <2>1. acked' \in [sales : SUBSET Handle, holds : SUBSET Hold]
    BY <1>3 DEF Finish, IInv, HistoryOK
  <2>2. HistoryOK'
    BY <1>2, <1>3, <2>1 DEF Finish, IInv, HistoryOK
  <2>3. Sound(ledger, peak)' /\ Sound(disk, peak)'
    BY <1>3 DEF Finish, Persist, IInv, Sound
  <2>4. QED
    BY <2>2, <2>3 DEF IInv
<1>4. ASSUME NEW d \in Dispatches, Trap(d)
      PROVE  IInv'
  <2>1. HistoryOK'
    BY <1>2, <1>4 DEF Trap, IInv, HistoryOK
  <2>2. Sound(ledger, peak)' /\ Sound(disk, peak)'
    BY <1>4 DEF Trap, Persist, IInv, Sound
  <2>3. QED
    BY <2>1, <2>2 DEF IInv
<1>5. CASE Crash
  <2>1. HistoryOK'
    BY <1>5 DEF Crash, Nothing, IInv, HistoryOK
  <2>2. Sound(ledger, peak)' /\ Sound(disk, peak)'
    BY <1>5 DEF Crash, IInv, Sound
  <2>3. QED
    BY <2>1, <2>2 DEF IInv
<1>6. CASE Tick
  BY <1>6 DEF Tick, IInv, HistoryOK, Sound
<1>7. CASE UNCHANGED vars
  BY <1>7 DEF vars, IInv, HistoryOK, Sound
<1>8. QED
  BY <1>1, <1>3, <1>4, <1>5, <1>6, <1>7, ImportKeeps DEF Next

LEMMA Invariant == Spec => []IInv
<1>1. QED
  BY InitSound, StepKeeps, PTL DEF Spec

(* The variables have their shapes in every reachable state, whatever the  *)
(* disk does.                                                              *)
THEOREM TypeCorrect == Spec => []TypeOK
<1>1. IInv => TypeOK
  BY DEF IInv, HistoryOK, Sound, Held, TypeOK, LedgerOK
<1>2. QED
  BY <1>1, Invariant, PTL

(* The ledger never oversells, in memory or on disk, for any number of     *)
(* dispatches, ids, amounts and ceilings and whatever the disk does.       *)
THEOREM NeverOversold == Spec => []NoOversell
<1>1. IInv => NoOversell
  BY DEF IInv, Sound, Held, NoOversell
<1>2. QED
  BY <1>1, Invariant, PTL

-----------------------------------------------------------------------------
(* What dispatches are told stays true                                     *)

(* What an open dispatch was told holds in memory; what was answered holds *)
(* on disk too.                                                            *)
Told(told, l) ==
  /\ \A s \in told.sales : SaleIn(s, l.res)
  /\ \A h \in told.holds : StillNames(h, l)

Kept == /\ \A d \in Dispatches : Told(pledged[d], ledger)
        /\ Told(acked, ledger) /\ Told(acked, disk)

(* A ledger outlives another when it keeps every sale and every amount and *)
(* gives no id below the old counter a new meaning.                        *)
Outlives(new, old) ==
  /\ new.nextId >= old.nextId
  /\ \A i \in DOMAIN old.res : old.res[i].confirmed =>
        /\ i \in DOMAIN new.res /\ new.res[i].confirmed
        /\ new.res[i].amount = old.res[i].amount
  /\ \A i \in DOMAIN new.res : i < Half /\ i < old.nextId =>
        i \in DOMAIN old.res /\ new.res[i].amount = old.res[i].amount

LEMMA ToldOutlived ==
  ASSUME NEW told \in [sales : SUBSET Handle, holds : SUBSET Hold],
         NEW new, NEW old, new.nextId \in Nat, old.nextId \in Nat,
         Told(told, old), Outlives(new, old)
  PROVE  Told(told, new)
<1>1. ASSUME NEW s \in told.sales
      PROVE  SaleIn(s, new.res)
  BY DEF Told, SaleIn, Outlives
<1>2. ASSUME NEW h \in told.holds
      PROVE  StillNames(h, new)
  <2>1. h.id \in Int
    BY CapacityAssumption DEF Hold, Ids
  <2>2. StillNames(h, old)
    BY DEF Told
  <2>3. QED
    BY <2>1, <2>2 DEF StillNames, Outlives
<1>3. QED
  BY <1>1, <1>2 DEF Told

(* Every import leaves a ledger that outlives the one it found.            *)
LEMMA ImportOutlives ==
  ASSUME IInv, NEW d \in Dispatches, Import(d)
  PROVE  Outlives(ledger', ledger)
<1> DEFINE n == ledger.nextId
<1>1. /\ n \in Nat /\ peak \in Nat
      /\ ledger = [total |-> ledger.total, nextId |-> n, res |-> ledger.res]
      /\ Held(Pruned, peak, n) /\ Table(Pruned)
  BY PrunedHeld DEF IInv, HistoryOK, Sound
<1>2. /\ \A i \in DOMAIN Pruned : i \in DOMAIN ledger.res /\ Pruned[i] = ledger.res[i]
      /\ \A i \in DOMAIN ledger.res : ledger.res[i].confirmed => i \in DOMAIN Pruned
  BY DEF Pruned, Prune
<1>3. ASSUME OnlyPrune \/ (\E want, req : ReserveRepeated(d, want, req))
      PROVE  Outlives(ledger', ledger)
  <2>1. ledger' = [total |-> ledger.total, nextId |-> n, res |-> Pruned]
    BY <1>1, <1>3 DEF OnlyPrune, ReserveRepeated
  <2>2. QED
    BY <1>1, <1>2, <2>1 DEF Outlives
<1>4. ASSUME NEW want \in Amounts, NEW req \in KeyedIds \cup {None}, NEW ttl \in Ttls,
             ReserveGranted(d, want, ttl, req)
      PROVE  Outlives(ledger', ledger)
  <2> DEFINE id == IF req = None THEN n ELSE req
             r  == [amount |-> want, expires |-> now + ttl, confirmed |-> FALSE]
             m  == IF req = None THEN id + 1 ELSE n
  <2>1. /\ ledger' = [total |-> ledger.total, nextId |-> m, res |-> Put(Pruned, id, r)]
        /\ ~Repeats(req) /\ (req = None => n <= MaxId)
    BY <1>4 DEF ReserveGranted
  <2>2. m >= n /\ id \notin DOMAIN Pruned
    <3>1. CASE req = None
      <4>1. m = n + 1 /\ id = n /\ n < Half
        BY <1>1, <2>1, <3>1, CapacityAssumption
      <4>2. QED
        BY <1>1, <4>1 DEF Held
    <3>2. CASE req # None
      BY <1>1, <2>1, <3>2 DEF Repeats
    <3>3. QED
      BY <3>1, <3>2
  <2>3. id < Half => ~(id < n)
    <3>1. CASE req = None
      BY <1>1, <3>1
    <3>2. CASE req # None
      BY <3>2, CapacityAssumption
    <3>3. QED
      BY <3>1, <3>2
  <2> HIDE DEF n, id, r, m
  <2>4. \A i \in DOMAIN Pruned : i \in DOMAIN Put(Pruned, id, r) /\ Put(Pruned, id, r)[i] = Pruned[i]
    BY <2>2 DEF Put
  <2>5. \A i \in DOMAIN Put(Pruned, id, r) : i = id \/ i \in DOMAIN Pruned
    BY DEF Put
  <2>6. QED
    BY <1>1, <1>2, <2>1, <2>2, <2>3, <2>4, <2>5 DEF Outlives, n
<1>5. ASSUME NEW handle, Confirmed(d, handle)
      PROVE  Outlives(ledger', ledger)
  <2> DEFINE id == AsSigned(handle)
             r  == [Pruned[id] EXCEPT !.confirmed = TRUE]
             new == Put(Pruned, id, r)
  <2>1. id \in DOMAIN Pruned /\ Pruned[id] \in Reservation
    BY <1>1, <1>5 DEF Confirmed, Table
  <2>2. ledger' = [total |-> ledger.total, nextId |-> n, res |-> new]
    BY <1>1, <1>5 DEF Confirmed
  <2>3. r.amount = Pruned[id].amount /\ r.confirmed
    BY <2>1 DEF Reservation
  <2>4. /\ DOMAIN new = DOMAIN Pruned
        /\ \A i \in DOMAIN Pruned : /\ new[i].amount = Pruned[i].amount
                                    /\ Pruned[i].confirmed => new[i].confirmed
    <3> HIDE DEF id, r
    <3>1. QED
      BY <2>1, <2>3 DEF Put
  <2> HIDE DEF new
  <2>5. QED
    BY <1>1, <1>2, <2>2, <2>4 DEF Outlives
<1>6. ASSUME NEW handle, Cancelled(d, handle)
      PROVE  Outlives(ledger', ledger)
  <2> DEFINE id == AsSigned(handle)
  <2>1. ledger' = [total |-> ledger.total, nextId |-> n, res |-> Drop(Pruned, id)]
        /\ id \in DOMAIN Pruned /\ ~Pruned[id].confirmed
    BY <1>1, <1>6 DEF Cancelled
  <2>2. /\ DOMAIN Drop(Pruned, id) = DOMAIN Pruned \ {id}
        /\ \A i \in DOMAIN Pruned \ {id} : Drop(Pruned, id)[i] = Pruned[i]
    BY DEF Drop
  <2> HIDE DEF id
  <2>3. QED
    BY <1>1, <1>2, <2>1, <2>2 DEF Outlives
<1>7. ASSUME NEW t \in Totals, SetTotal(d, t)
      PROVE  Outlives(ledger', ledger)
  <2>1. ledger'.nextId = n /\ ledger'.res = ledger.res
    BY <1>1, <1>7 DEF SetTotal
  <2>2. QED
    BY <1>1, <2>1 DEF Outlives
<1>8. QED
  BY <1>3, <1>4, <1>5, <1>6, <1>7
     DEF Import, Available, ReserveConflict, ReserveRefused, ConfirmMissed, CancelMissed

(* What an import tells its dispatch is true of the ledger it leaves.      *)
LEMMA ImportTells ==
  ASSUME IInv, Kept, NEW d \in Dispatches, Import(d)
  PROVE  Kept'
<1>1. /\ ledger.nextId \in Nat /\ ledger'.nextId \in Nat
      /\ Outlives(ledger', ledger)
      /\ pledged \in [Dispatches -> [sales : SUBSET Handle, holds : SUBSET Hold]]
      /\ acked \in [sales : SUBSET Handle, holds : SUBSET Hold]
  BY ImportKeeps, ImportOutlives DEF IInv, Sound, HistoryOK
<1>2. disk' = disk /\ acked' = acked
  BY DEF Import, Available, OnlyPrune, ReserveRepeated, ReserveConflict, ReserveRefused,
         ReserveGranted, Confirmed, ConfirmMissed, Cancelled, CancelMissed, SetTotal, Quiet
<1>3. \A e \in Dispatches : Told(pledged[e], ledger')
  BY <1>1, ToldOutlived DEF Kept
<1>4. Told(acked, ledger)' /\ Told(acked, disk)'
  BY <1>1, <1>2, ToldOutlived DEF Kept
<1>5. ASSUME NEW what \in {"sales", "holds"}, NEW told, Tell(d, what, told),
             what = "sales" => SaleIn(told, ledger'.res),
             what = "holds" => StillNames(told, ledger')
      PROVE  \A e \in Dispatches : Told(pledged'[e], ledger')
  <2>1. pledged' = [pledged EXCEPT ![d][what] = @ \cup {told}]
    BY <1>5 DEF Tell
  <2>2. CASE what = "sales"
    BY <1>1, <1>3, <1>5, <2>1, <2>2 DEF Told
  <2>3. CASE what = "holds"
    BY <1>1, <1>3, <1>5, <2>1, <2>3 DEF Told
  <2>4. QED
    BY <2>2, <2>3
<1>6. Held(Pruned, peak, ledger.nextId) /\ Table(Pruned)
  BY PrunedHeld
<1>7. ASSUME NEW want \in Amounts, NEW req \in KeyedIds \cup {None},
             ReserveRepeated(d, want, req)
      PROVE  \A e \in Dispatches : Told(pledged'[e], ledger')
  <2> DEFINE h == [id |-> req, amount |-> want, until |-> Pruned[req].expires]
  <2>1. /\ Tell(d, "holds", h) /\ ledger'.res = Pruned
        /\ ledger'.nextId = ledger.nextId
        /\ req \in DOMAIN Pruned /\ Pruned[req].amount = want
    BY <1>7 DEF ReserveRepeated, Repeats, IInv, Sound
  <2>2. StillNames(h, ledger')
    BY <1>6, <2>1 DEF StillNames, Held
  <2>3. QED
    BY <1>5, <2>1, <2>2
<1>8. ASSUME NEW want \in Amounts, NEW req \in KeyedIds \cup {None}, NEW ttl \in Ttls,
             ReserveGranted(d, want, ttl, req)
      PROVE  \A e \in Dispatches : Told(pledged'[e], ledger')
  <2> DEFINE id == IF req = None THEN ledger.nextId ELSE req
             h  == [id |-> id, amount |-> want, until |-> now + ttl]
  <2>1. /\ Tell(d, "holds", h)
        /\ ledger'.nextId = IF req = None THEN id + 1 ELSE ledger.nextId
        /\ id \in DOMAIN ledger'.res /\ ledger'.res[id].amount = want
    BY <1>8 DEF ReserveGranted, Put
  <2>2. id < Half => id < ledger'.nextId
    BY <1>1, <2>1, CapacityAssumption
  <2>3. StillNames(h, ledger')
    BY <2>1, <2>2 DEF StillNames
  <2>4. QED
    BY <1>5, <2>1, <2>3
<1>9. ASSUME NEW handle, Confirmed(d, handle)
      PROVE  \A e \in Dispatches : Told(pledged'[e], ledger')
  <2> DEFINE id == AsSigned(handle)
             r  == [Pruned[id] EXCEPT !.confirmed = TRUE]
             s  == [id |-> id, amount |-> Pruned[id].amount]
  <2>1. /\ Tell(d, "sales", s)
        /\ ledger'.res = Put(Pruned, id, r)
        /\ id \in DOMAIN Pruned
    BY <1>9 DEF Confirmed, IInv, Sound
  <2>2. r.confirmed /\ r.amount = Pruned[id].amount
    BY <1>6, <2>1 DEF Table, Reservation
  <2>3. SaleIn(s, ledger'.res)
    <3> HIDE DEF id, r
    <3>1. QED
      BY <2>1, <2>2 DEF SaleIn, Put
  <2>4. QED
    BY <1>5, <2>1, <2>3
<1>10. ASSUME UNCHANGED pledged
       PROVE  \A e \in Dispatches : Told(pledged'[e], ledger')
  BY <1>3, <1>10
<1>11. \A e \in Dispatches : Told(pledged'[e], ledger')
  BY <1>7, <1>8, <1>9, <1>10
     DEF Import, Available, OnlyPrune, ReserveConflict, ReserveRefused, ConfirmMissed,
         Cancelled, CancelMissed, SetTotal
<1>12. QED
  BY <1>4, <1>11 DEF Kept, Told

LEMMA KeptStep ==
  ASSUME DiskMayFail = FALSE, IInv, Kept, [Next]_vars
  PROVE  Kept'
<1>1. pledged \in [Dispatches -> [sales : SUBSET Handle, holds : SUBSET Hold]]
  BY DEF IInv, HistoryOK
<1>2. \A l : Told(Nothing, l)
  BY DEF Told, Nothing
<1>3. ASSUME NEW d \in Dispatches, Close(d), ledger' = ledger
      PROVE  \A e \in Dispatches : Told(pledged[e], ledger)'
  BY <1>1, <1>2, <1>3 DEF Close, Kept, Told
<1>4. ASSUME NEW d \in Dispatches, Finish(d)
      PROVE  Kept'
  <2>1. ledger' = ledger /\ disk' = ledger /\ Close(d)
    BY <1>4 DEF Finish, Persist
  <2>2. /\ acked'.sales = acked.sales \cup pledged[d].sales
        /\ acked'.holds = acked.holds \cup pledged[d].holds
    BY <1>4 DEF Finish
  <2>3. Told(acked', ledger)
    BY <2>2 DEF Kept, Told
  <2>4. QED
    BY <1>3, <2>1, <2>3 DEF Kept, Told
<1>5. ASSUME NEW d \in Dispatches, Trap(d)
      PROVE  Kept'
  <2>1. ledger' = ledger /\ disk' = ledger /\ acked' = acked /\ Close(d)
    BY <1>5 DEF Trap, Persist
  <2>2. QED
    BY <1>3, <2>1 DEF Kept, Told
<1>6. CASE Crash
  <2>1. ledger' = disk /\ disk' = disk /\ acked' = acked
        /\ \A d \in Dispatches : pledged'[d] = Nothing
    BY <1>6 DEF Crash
  <2>2. QED
    BY <1>2, <2>1 DEF Kept, Told
<1>7. CASE Tick \/ UNCHANGED vars \/ \E d \in Dispatches : Begin(d)
  BY <1>7 DEF Tick, vars, Begin, Kept, Told
<1>8. QED
  BY <1>4, <1>5, <1>6, <1>7, ImportTells DEF Next

(* When the disk does not fail, everything dispatches were told stays true *)
(* in memory, and everything clients were answered stays true on disk.     *)
LEMMA PromisesKept == DiskMayFail = FALSE => (Spec => [](IInv /\ Kept))
<1> SUFFICES ASSUME DiskMayFail = FALSE
             PROVE  Spec => [](IInv /\ Kept)
  OBVIOUS
<1>1. Init => IInv /\ Kept
  BY InitSound DEF Init, Kept, Told, Nothing
<1>2. IInv /\ Kept /\ [Next]_vars => IInv' /\ Kept'
  BY StepKeeps, KeptStep
<1>3. QED
  BY <1>1, <1>2, PTL DEF Spec

(* A sale a client was answered is never lost or changed, if snapshots are *)
(* written.                                                                *)
THEOREM SalesPermanent == DiskMayFail = FALSE => (Spec => []AckedSalePermanent)
<1> SUFFICES ASSUME DiskMayFail = FALSE
             PROVE  Spec => []AckedSalePermanent
  OBVIOUS
<1>1. Kept => AckedSalePermanent
  BY DEF Kept, Told, AckedSalePermanent
<1>2. QED
  BY <1>1, PromisesKept, PTL

(* A fresh id a client was answered never names another reservation, if    *)
(* snapshots are written: otherwise a crash gives it out again.            *)
THEOREM HandlesNotReused == DiskMayFail = FALSE => (Spec => []HandleNotReused)
<1> SUFFICES ASSUME DiskMayFail = FALSE
             PROVE  Spec => []HandleNotReused
  OBVIOUS
<1>1. Kept => HandleNotReused
  BY DEF Kept, Told, HandleNotReused
<1>2. QED
  BY <1>1, PromisesKept, PTL

-----------------------------------------------------------------------------
(* Holds stand                                                             *)

(* A row keeps what a hold was granted: its amount and its time, and a     *)
(* confirmed one stays confirmed.                                          *)
SameHold(new, old) ==
  /\ new.amount = old.amount /\ new.expires = old.expires
  /\ old.confirmed => new.confirmed

(* No guest can name the id of a keyed hold: as an i64 it is negative.     *)
LEMMA HandlesUnsigned ==
  ASSUME NEW handle \in 1..MaxId \cup KeyedIds, AsSigned(handle) \in Ids
  PROVE  AsSigned(handle) = handle /\ handle < Half
BY CapacityAssumption DEF AsSigned, Ids

(* What an import does to a row: it keeps it, or cancels it, or finds its  *)
(* time over; only a key can then name the same id again.                  *)
LEMMA ImportRow ==
  ASSUME IInv, NEW d \in Dispatches, Import(d), NEW i \in DOMAIN ledger.res
  PROVE  \/ i \in DOMAIN ledger'.res /\ SameHold(ledger'.res[i], ledger.res[i])
         \/ i \notin DOMAIN ledger'.res /\ i < Half /\ Cancelled(d, i)
         \/ i \notin DOMAIN Pruned /\ (i \in DOMAIN ledger'.res => i >= Half)
<1> DEFINE Goal == \/ i \in DOMAIN ledger'.res /\ SameHold(ledger'.res[i], ledger.res[i])
                   \/ i \notin DOMAIN ledger'.res /\ i < Half /\ Cancelled(d, i)
                   \/ i \notin DOMAIN Pruned /\ (i \in DOMAIN ledger'.res => i >= Half)
<1>1. /\ Table(Pruned) /\ Table(ledger.res) /\ i \in Ids
      /\ i < Half => i < ledger.nextId
      /\ ledger.nextId \in Nat
  BY PrunedHeld DEF IInv, Sound, Held, Table
<1>2. \A j \in DOMAIN Pruned : j \in DOMAIN ledger.res /\ Pruned[j] = ledger.res[j]
  BY DEF Pruned, Prune
<1>3. i \in Int /\ Half \in Nat
  BY <1>1, CapacityAssumption DEF Ids
<1>4. ASSUME ledger'.res = Pruned
      PROVE  Goal
  BY <1>2, <1>4 DEF SameHold
<1>5. ASSUME NEW want \in Amounts, NEW req \in KeyedIds \cup {None}, NEW ttl \in Ttls,
             ReserveGranted(d, want, ttl, req)
      PROVE  Goal
  <2> DEFINE id == IF req = None THEN ledger.nextId ELSE req
             r  == [amount |-> want, expires |-> now + ttl, confirmed |-> FALSE]
  <2>1. ledger'.res = Put(Pruned, id, r) /\ ~Repeats(req)
    BY <1>5 DEF ReserveGranted
  <2>2. i = id => i >= Half
    <3>1. CASE req = None
      BY <1>1, <1>3, <3>1
    <3>2. CASE req # None
      BY <3>2, CapacityAssumption
    <3>3. QED
      BY <3>1, <3>2
  <2>3. id \notin DOMAIN Pruned
    <3>1. CASE req = None
      <4>1. id = ledger.nextId /\ id <= MaxId
        BY <1>5, <3>1 DEF ReserveGranted
      <4>2. id < Half
        BY <1>1, <4>1, CapacityAssumption
      <4>3. \A j \in DOMAIN Pruned : j < Half => j < ledger.nextId
        BY PrunedHeld DEF Held, IInv, Sound, HistoryOK
      <4>4. QED
        BY <1>1, <4>1, <4>2, <4>3
    <3>2. CASE req # None
      BY <2>1, <3>2 DEF Repeats
    <3>3. QED
      BY <3>1, <3>2
  <2> HIDE DEF id, r
  <2>4. CASE i \in DOMAIN Pruned
    BY <1>2, <2>1, <2>3, <2>4 DEF Put, SameHold
  <2>5. CASE i \notin DOMAIN Pruned
    BY <2>1, <2>2, <2>5 DEF Put
  <2>6. QED
    BY <2>4, <2>5
<1>6. ASSUME NEW handle \in 1..MaxId \cup KeyedIds, Confirmed(d, handle)
      PROVE  Goal
  <2> DEFINE id == AsSigned(handle)
             r  == [Pruned[id] EXCEPT !.confirmed = TRUE]
  <2>1. ledger'.res = Put(Pruned, id, r) /\ id \in DOMAIN Pruned
    BY <1>6 DEF Confirmed, IInv, Sound
  <2>2. SameHold(r, Pruned[id])
    BY <1>1, <2>1 DEF Table, Reservation, SameHold
  <2> HIDE DEF id, r
  <2>3. CASE i \in DOMAIN Pruned
    BY <1>2, <2>1, <2>2, <2>3 DEF Put, SameHold
  <2>4. CASE i \notin DOMAIN Pruned
    BY <2>1, <2>4 DEF Put
  <2>5. QED
    BY <2>3, <2>4
<1>7. ASSUME NEW handle \in 1..MaxId \cup KeyedIds, Cancelled(d, handle)
      PROVE  Goal
  <2>1. ledger'.res = Drop(Pruned, AsSigned(handle)) /\ AsSigned(handle) \in DOMAIN Pruned
    BY <1>7 DEF Cancelled, IInv, Sound
  <2>2. AsSigned(handle) = handle /\ handle < Half
    BY <1>1, <2>1, HandlesUnsigned DEF Table
  <2>3. CASE i = handle
    BY <1>7, <2>1, <2>2, <2>3 DEF Drop
  <2>4. CASE i # handle
    BY <1>2, <2>1, <2>2, <2>4 DEF Drop, SameHold
  <2>5. QED
    BY <2>3, <2>4
<1>8. ASSUME NEW t \in Totals, SetTotal(d, t)
      PROVE  Goal
  BY <1>8 DEF SetTotal, SameHold, IInv, Sound
<1>9. ASSUME OnlyPrune \/ (\E want, req : ReserveRepeated(d, want, req))
      PROVE  Goal
  BY <1>4, <1>9 DEF OnlyPrune, ReserveRepeated, IInv, Sound
<1>10. QED
  BY <1>5, <1>6, <1>7, <1>8, <1>9
     DEF Import, Available, ReserveConflict, ReserveRefused, ConfirmMissed, CancelMissed

(* What a table says of a hold a guest was told of.  The id of a fresh one *)
(* names nothing else; a keyed one, which cannot be cancelled, stands      *)
(* until its time is over.                                                 *)
Firm(h, res, t) ==
  /\ h.id < Half /\ h.id \in DOMAIN res => Stands(h, res)
  /\ h.id >= Half /\ h.until > t => Stands(h, res)

(* Every hold is firm in memory; an answered one is on disk too, or was    *)
(* cancelled.                                                              *)
HoldsFirm ==
  /\ \A d \in Dispatches : \A h \in pledged[d].holds : Firm(h, ledger.res, now)
  /\ \A h \in acked.holds :
       /\ Firm(h, ledger.res, now) /\ Firm(h, disk.res, now)
       /\ h.id < Half /\ h.id \in DOMAIN ledger.res => h.id \in DOMAIN disk.res

(* An import leaves a hold firm.                                           *)
LEMMA ImportFirm ==
  ASSUME IInv, NEW d \in Dispatches, Import(d), NEW h \in Hold,
         StillNames(h, ledger), Firm(h, ledger.res, now)
  PROVE  /\ Firm(h, ledger'.res, now)
         /\ h.id < Half /\ h.id \in DOMAIN ledger'.res => h.id \in DOMAIN ledger.res
<1>1. h.id \in Int /\ h.until \in Nat /\ Half \in Nat /\ now \in Nat /\ ledger.nextId \in Nat
  BY CapacityAssumption DEF Hold, Ids, IInv, HistoryOK, Sound
<1>2. h.id < Half /\ h.id \in DOMAIN ledger'.res => h.id \in DOMAIN ledger.res
  BY <1>1, ImportOutlives DEF Outlives, StillNames
<1>3. ASSUME h.id \in DOMAIN ledger.res, h.id \in DOMAIN ledger'.res, Stands(h, ledger.res),
             SameHold(ledger'.res[h.id], ledger.res[h.id])
      PROVE  Stands(h, ledger'.res)
  BY <1>3 DEF Stands, SameHold
<1>4. ASSUME h.id < Half, h.id \in DOMAIN ledger'.res
      PROVE  Stands(h, ledger'.res)
  <2>1. h.id \in DOMAIN ledger.res /\ Stands(h, ledger.res)
    BY <1>2, <1>4 DEF Firm
  <2>2. ~(h.id >= Half)
    BY <1>1, <1>4
  <2>3. QED
    BY <1>3, <1>4, <2>1, <2>2, ImportRow
<1>5. ASSUME h.id >= Half, h.until > now
      PROVE  Stands(h, ledger'.res)
  <2>1. h.id \in DOMAIN ledger.res /\ Stands(h, ledger.res)
    BY <1>5 DEF Firm, Stands
  <2>2. h.id \in DOMAIN Pruned
    <3>1. ledger.res[h.id].expires \in Nat
      BY <2>1 DEF IInv, Sound, Held, Table, Reservation
    <3>2. ledger.res[h.id].confirmed \/ ledger.res[h.id].expires > now
      BY <1>1, <1>5, <2>1, <3>1 DEF Stands
    <3>3. QED
      BY <2>1, <3>2 DEF Pruned, Prune
  <2>3. ~(h.id < Half)
    BY <1>1, <1>5
  <2>4. QED
    BY <1>3, <2>1, <2>2, <2>3, ImportRow
<1>6. QED
  BY <1>2, <1>4, <1>5 DEF Firm

(* What reserve tells its guest is firm.                                   *)
LEMMA ImportHolds ==
  ASSUME IInv, Kept, HoldsFirm, NEW d \in Dispatches, Import(d)
  PROVE  HoldsFirm'
<1>1. /\ pledged \in [Dispatches -> [sales : SUBSET Handle, holds : SUBSET Hold]]
      /\ acked \in [sales : SUBSET Handle, holds : SUBSET Hold]
  BY DEF IInv, HistoryOK
<1>2. disk' = disk /\ acked' = acked /\ now' = now
  BY DEF Import, Available, OnlyPrune, ReserveRepeated, ReserveConflict, ReserveRefused,
         ReserveGranted, Confirmed, ConfirmMissed, Cancelled, CancelMissed, SetTotal, Quiet
<1>3. \A e \in Dispatches : \A h \in pledged[e].holds : Firm(h, ledger'.res, now)
  BY <1>1, ImportFirm DEF Kept, Told, HoldsFirm
<1>4. \A h \in acked.holds :
        /\ Firm(h, ledger'.res, now) /\ Firm(h, disk.res, now)
        /\ h.id < Half /\ h.id \in DOMAIN ledger'.res => h.id \in DOMAIN disk.res
  BY <1>1, ImportFirm DEF Kept, Told, HoldsFirm
<1>5. ASSUME NEW told, Tell(d, "holds", told), Stands(told, ledger'.res)
      PROVE  \A e \in Dispatches : \A h \in pledged'[e].holds : Firm(h, ledger'.res, now)
  <2>1. Firm(told, ledger'.res, now)
    BY <1>5 DEF Firm
  <2>2. \A e \in Dispatches : pledged'[e].holds \subseteq pledged[e].holds \cup {told}
    BY <1>1, <1>5 DEF Tell
  <2>3. QED
    BY <1>3, <2>1, <2>2
<1>6. ASSUME NEW want \in Amounts, NEW req \in KeyedIds \cup {None},
             ReserveRepeated(d, want, req)
      PROVE  \A e \in Dispatches : \A h \in pledged'[e].holds : Firm(h, ledger'.res, now)
  <2> DEFINE h == [id |-> req, amount |-> want, until |-> Pruned[req].expires]
  <2>1. /\ Tell(d, "holds", h) /\ ledger'.res = Pruned
        /\ req \in DOMAIN Pruned /\ Pruned[req].amount = want
    BY <1>6 DEF ReserveRepeated, Repeats, IInv, Sound
  <2>2. Pruned[req].expires >= h.until
    BY <2>1, PrunedHeld DEF Table, Reservation
  <2>3. Stands(h, ledger'.res)
    BY <2>1, <2>2 DEF Stands
  <2> HIDE DEF h
  <2>4. QED
    BY <1>5, <2>1, <2>3
<1>7. ASSUME NEW want \in Amounts, NEW req \in KeyedIds \cup {None}, NEW ttl \in Ttls,
             ReserveGranted(d, want, ttl, req)
      PROVE  \A e \in Dispatches : \A h \in pledged'[e].holds : Firm(h, ledger'.res, now)
  <2> DEFINE id == IF req = None THEN ledger.nextId ELSE req
             h  == [id |-> id, amount |-> want, until |-> now + ttl]
  <2>1. /\ Tell(d, "holds", h)
        /\ id \in DOMAIN ledger'.res /\ ledger'.res[id].amount = want
        /\ ledger'.res[id].expires = now + ttl
    BY <1>7 DEF ReserveGranted, Put
  <2>2. now + ttl \in Nat
    BY CapacityAssumption DEF IInv, HistoryOK
  <2>3. Stands(h, ledger'.res)
    BY <2>1, <2>2 DEF Stands
  <2> HIDE DEF h
  <2>4. QED
    BY <1>5, <2>1, <2>3
<1>8. ASSUME NEW handle, Confirmed(d, handle)
      PROVE  \A e \in Dispatches : pledged'[e].holds = pledged[e].holds
  BY <1>1, <1>8 DEF Confirmed, Tell
<1>9. \A e \in Dispatches : \A h \in pledged'[e].holds : Firm(h, ledger'.res, now)
  BY <1>3, <1>6, <1>7, <1>8
     DEF Import, Available, OnlyPrune, ReserveConflict, ReserveRefused, ConfirmMissed,
         Cancelled, CancelMissed, SetTotal
<1>10. QED
  BY <1>2, <1>4, <1>9 DEF HoldsFirm

LEMMA HoldsFirmStep ==
  ASSUME DiskMayFail = FALSE, IInv, Kept, HoldsFirm, [Next]_vars
  PROVE  HoldsFirm'
<1>1. /\ pledged \in [Dispatches -> [sales : SUBSET Handle, holds : SUBSET Hold]]
      /\ acked \in [sales : SUBSET Handle, holds : SUBSET Hold]
  BY DEF IInv, HistoryOK
<1>2. ASSUME NEW d \in Dispatches, Close(d)
      PROVE  \A e \in Dispatches : pledged'[e].holds \subseteq pledged[e].holds
  BY <1>1, <1>2 DEF Close, Nothing
<1>3. ASSUME NEW d \in Dispatches, Finish(d)
      PROVE  HoldsFirm'
  <2>1. ledger' = ledger /\ disk' = ledger /\ now' = now /\ Close(d)
        /\ acked'.holds = acked.holds \cup pledged[d].holds
    BY <1>3 DEF Finish, Persist
  <2>2. QED
    BY <1>2, <2>1 DEF HoldsFirm
<1>4. ASSUME NEW d \in Dispatches, Trap(d)
      PROVE  HoldsFirm'
  <2>1. ledger' = ledger /\ disk' = ledger /\ now' = now /\ acked' = acked /\ Close(d)
    BY <1>4 DEF Trap, Persist
  <2>2. QED
    BY <1>2, <2>1 DEF HoldsFirm
<1>5. CASE Crash
  <2>1. ledger' = disk /\ disk' = disk /\ acked' = acked /\ now' = now
        /\ \A d \in Dispatches : pledged'[d] = Nothing
    BY <1>5 DEF Crash
  <2>2. QED
    BY <2>1 DEF HoldsFirm, Nothing
<1>6. CASE Tick
  <2>1. UNCHANGED <<ledger, disk, pledged, acked>> /\ now' = now + 1 /\ now \in Nat
    BY <1>6 DEF Tick, IInv, HistoryOK
  <2>2. ASSUME NEW h \in Hold, NEW res, Firm(h, res, now)
        PROVE  Firm(h, res, now + 1)
    <3>1. h.until > now + 1 => h.until > now
      BY <2>1 DEF Hold
    <3>2. QED
      BY <2>2, <3>1 DEF Firm
  <2>3. /\ \A d \in Dispatches : \A h \in pledged[d].holds : h \in Hold
        /\ \A h \in acked.holds : h \in Hold
    BY <1>1
  <2>4. QED
    BY <2>1, <2>2, <2>3 DEF HoldsFirm
<1>7. CASE UNCHANGED vars \/ \E d \in Dispatches : Begin(d)
  BY <1>7 DEF vars, Begin, HoldsFirm
<1>8. QED
  BY <1>3, <1>4, <1>5, <1>6, <1>7, ImportHolds DEF Next

(* The step of the property.                                               *)
LEMMA StandsStep ==
  ASSUME IInv, HoldsFirm, [Next]_vars,
         NEW h \in Granted, Crash => h \in acked.holds,
         Stands(h, ledger.res), h.until > now'
  PROVE  Stands(h, ledger'.res) \/ \E d \in Dispatches : Cancelled(d, h.id)
<1>1. h \in Hold
  BY DEF Granted, IInv, HistoryOK
<1>2. h.id \in DOMAIN ledger.res /\ h.id \in Int /\ h.until \in Nat /\ Half \in Nat /\ now \in Nat
  BY <1>1, CapacityAssumption DEF Stands, Hold, Ids, IInv, HistoryOK
<1>3. ASSUME NEW d \in Dispatches, Import(d)
      PROVE  Stands(h, ledger'.res) \/ Cancelled(d, h.id)
  <2>1. now' = now
    BY <1>3 DEF Import, Available, OnlyPrune, ReserveRepeated, ReserveConflict, ReserveRefused,
         ReserveGranted, Confirmed, ConfirmMissed, Cancelled, CancelMissed, SetTotal, Quiet
  <2>2. h.id \in DOMAIN Pruned
    <3>1. ledger.res[h.id].expires \in Nat
      BY <1>2 DEF IInv, Sound, Held, Table, Reservation
    <3>2. ledger.res[h.id].confirmed \/ ledger.res[h.id].expires > now
      BY <1>2, <2>1, <3>1 DEF Stands
    <3>3. QED
      BY <1>2, <3>2 DEF Pruned, Prune
  <2>3. CASE SameHold(ledger'.res[h.id], ledger.res[h.id]) /\ h.id \in DOMAIN ledger'.res
    BY <2>3 DEF SameHold, Stands
  <2>4. QED
    BY <1>2, <1>3, <2>2, <2>3, ImportRow
<1>4. CASE Crash
  <2>1. ledger' = disk /\ now' = now /\ h \in acked.holds
    BY <1>4 DEF Crash
  <2>2. CASE h.id < Half
    BY <1>2, <2>1, <2>2 DEF HoldsFirm, Firm
  <2>3. CASE h.id >= Half
    BY <2>1, <2>3 DEF HoldsFirm, Firm
  <2>4. QED
    BY <1>2, <2>2, <2>3
<1>5. CASE ledger' = ledger
  BY <1>5
<1>6. QED
  BY <1>3, <1>4, <1>5 DEF Next, vars, Begin, Finish, Trap, Tick

(* A hold a guest was granted stands for as long as it was granted, if the *)
(* snapshots are written: nothing but a cancel of it takes it away.        *)
THEOREM GrantsStand == DiskMayFail = FALSE => (Spec => HoldsStand)
<1> SUFFICES ASSUME DiskMayFail = FALSE
             PROVE  Spec => HoldsStand
  OBVIOUS
<1> DEFINE Inv == IInv /\ Kept /\ HoldsFirm
           Step == \A h \in Granted \cap Granted' :
                     Stands(h, ledger.res) /\ h.until > now' =>
                       Stands(h, ledger'.res) \/ \E d \in Dispatches : Cancelled(d, h.id)
<1>1. Init => Inv
  BY InitSound DEF Init, Kept, Told, HoldsFirm, Nothing
<1>2. Inv /\ [Next]_vars => Inv'
  BY StepKeeps, KeptStep, HoldsFirmStep
<1>3. Inv /\ [Next]_vars => [Step]_vars
  <2>1. ASSUME Inv, [Next]_vars, NEW h \in Granted \cap Granted'
        PROVE  Crash => h \in acked.holds
    BY <2>1 DEF Crash, Granted
  <2>2. ASSUME Inv, [Next]_vars
        PROVE  Step
    BY <2>1, <2>2, StandsStep
  <2>3. QED
    BY <2>2
<1> HIDE DEF Inv
<1>4. QED
  BY <1>1, <1>2, <1>3, PTL DEF Spec, HoldsStand

-----------------------------------------------------------------------------
(* The ledger implements the box office                                    *)

(* The acknowledged sales are one row each, and fit under the ceiling.     *)
LEMMA SalesFit ==
  ASSUME IInv, Kept
  PROVE  /\ Box!SoldOnce(acked.sales)
         /\ Cardinality(Box!SaleUnits(acked.sales)) <= peak
<1>1. /\ acked.sales \subseteq Handle /\ peak \in Nat
      /\ Table(ledger.res) /\ Reserved(ledger.res) <= peak
      /\ \A s \in acked.sales : SaleIn(s, ledger.res)
  BY DEF IInv, HistoryOK, Sound, Held, Kept, Told
<1>2. Box!SoldOnce(acked.sales)
  BY <1>1 DEF Box!SoldOnce, SaleIn, Handle
<1>3. Box!SaleUnits(acked.sales) \subseteq Units(ledger.res)
  BY <1>1 DEF Box!SaleUnits, Units, SaleIn
<1>4. IsFiniteSet(Units(ledger.res)) /\ Reserved(ledger.res) \in Nat
  BY <1>1, UnitsFinite
<1>5. /\ Cardinality(Box!SaleUnits(acked.sales)) <= Reserved(ledger.res)
      /\ Cardinality(Box!SaleUnits(acked.sales)) \in Nat
  <2>1. IsFiniteSet(Box!SaleUnits(acked.sales))
    BY <1>3, <1>4, FS_Subset
  <2>2. Cardinality(Box!SaleUnits(acked.sales)) \in Nat
    BY <2>1, FS_CardinalityType
  <2>3. QED
    BY <1>3, <1>4, <2>2, FS_Subset DEF Reserved
<1>6. QED
  BY <1>1, <1>2, <1>4, <1>5

(* The box office counts as the ledger does.                               *)
LEMMA SameCount == \A S : Box!Cardinality(S) = Cardinality(S)
  BY DEF Box!Cardinality, Cardinality

(* A step acknowledges more sales, or raises the ceiling, or neither.      *)
LEMMA StepSells ==
  ASSUME DiskMayFail = FALSE, IInv, Kept, [Next]_vars
  PROVE  [Box!BoxNext]_(Box!boxVars)
<1>1. IInv' /\ Kept'
  BY StepKeeps, KeptStep
<1>2. (Box!SoldOnce(acked.sales) /\ Cardinality(Box!SaleUnits(acked.sales)) <= peak)'
  BY <1>1, SalesFit, PTL
<1>3. ASSUME peak' = peak, acked.sales \subseteq acked'.sales
      PROVE  Box!Sell
  <2>1. Box!SoldOnce(acked'.sales) /\ Cardinality(Box!SaleUnits(acked'.sales)) <= peak
    BY <1>2, <1>3
  <2>2. Box!Cardinality(Box!SaleUnits(acked'.sales)) <= peak
    BY <2>1, SameCount
  <2>3. QED
    BY <1>3, <2>1, <2>2 DEF Box!Sell
<1>4. CASE peak' > peak /\ acked' = acked
  BY <1>4 DEF Box!BoxNext, Box!Raise
<1>5. CASE peak' = peak /\ (acked' = acked \/ \E d \in Dispatches : Finish(d))
  BY <1>3, <1>5 DEF Finish, Box!BoxNext
<1>6. ASSUME NEW d \in Dispatches, Import(d)
      PROVE  acked' = acked /\ (peak' = peak \/ peak' > peak)
  <2>1. ASSUME NEW t \in Totals, SetTotal(d, t)
        PROVE  acked' = acked /\ (peak' = peak \/ peak' > peak)
    BY <2>1 DEF SetTotal
  <2>2. ASSUME Quiet
        PROVE  acked' = acked /\ peak' = peak
    BY <2>2 DEF Quiet
  <2>3. QED
    BY <1>6, <2>1, <2>2
       DEF Import, Available, OnlyPrune, ReserveRepeated, ReserveConflict, ReserveRefused,
           ReserveGranted, Confirmed, ConfirmMissed, Cancelled, CancelMissed
<1>7. CASE UNCHANGED <<acked, peak>>
  BY <1>5, <1>7
<1>8. QED
  BY <1>4, <1>5, <1>6, <1>7 DEF Next, vars, Begin, Finish, Trap, Crash, Tick

(* The ledger, with its dispatches, traps and crashes, implements the box  *)
(* office: acknowledged sales only grow, one per reservation, and fit      *)
(* under the highest ceiling ever set; if snapshots are written, for else  *)
(* a crash takes an acknowledged sale back.                                *)
THEOREM Implements == DiskMayFail = FALSE => (Spec => ImplementsBoxOffice)
<1> SUFFICES ASSUME DiskMayFail = FALSE
             PROVE  Spec => ImplementsBoxOffice
  OBVIOUS
<1>1. Init => Box!BoxInit
  BY DEF Init, Nothing, Box!BoxInit
<1>2. IInv /\ Kept /\ [Next]_vars => [Box!BoxNext]_(Box!boxVars)
  BY StepSells
<1>3. QED
  BY <1>1, <1>2, PromisesKept, PTL DEF Spec, ImplementsBoxOffice, Box!BoxSpec
=============================================================================
