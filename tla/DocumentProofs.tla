-------------------------- MODULE DocumentProofs --------------------------
(***************************************************************************)
(* Proofs about changes of several documents.  AtomicBatch commits them at *)
(* once, for any records, tokens, requests, balances and faults: every     *)
(* decided move is made exactly once, and what clients were told stands.   *)
(* Registration writes them one compare-exchange at a time, for any names, *)
(* addresses and requests: a live account keeps its address and pointer.   *)
(***************************************************************************)
EXTENDS AtomicBatch, Registration, FiniteSetTheorems, TLAPS

-----------------------------------------------------------------------------
(* Batches                                                                 *)

(* The batches that move one unit for a token.                             *)
Moves(t) ==
  {m \in Batches(t) : /\ m[From[t]].value + 1 = m[From[t]].expected
                      /\ m[To[t]].value = m[To[t]].expected + 1}

(* How many decided tokens have r as their f.                              *)
Count(D, f, r) == Cardinality({t \in D : f[t] = r})

(* One more token counts for its own record only.                          *)
LEMMA CountOne ==
  ASSUME NEW D, IsFiniteSet(D), NEW t, t \notin D, NEW f, NEW r
  PROVE  /\ Count(D, f, r) \in Nat
         /\ f[t] = r => Count(D \cup {t}, f, r) = Count(D, f, r) + 1
         /\ f[t] # r => Count(D \cup {t}, f, r) = Count(D, f, r)
<1> DEFINE S == {u \in D : f[u] = r}
<1>1. IsFiniteSet(S)
  BY FS_Subset
<1>2. Count(D, f, r) \in Nat
  BY <1>1, FS_CardinalityType DEF Count
<1>3. ASSUME f[t] = r
      PROVE  Count(D \cup {t}, f, r) = Count(D, f, r) + 1
  <2>1. {u \in D \cup {t} : f[u] = r} = S \cup {t}
    BY <1>3
  <2>2. t \notin S
    OBVIOUS
  <2>3. Cardinality(S \cup {t}) = Cardinality(S) + 1
    BY <1>1, <2>2, FS_AddElement
  <2>4. QED
    BY <2>1, <2>3 DEF Count
<1>4. ASSUME f[t] # r
      PROVE  Count(D \cup {t}, f, r) = Count(D, f, r)
  <2>1. {u \in D \cup {t} : f[u] = r} = S
    BY <1>4
  <2>2. QED
    BY <2>1 DEF Count
<1>5. QED
  BY <1>2, <1>3, <1>4

-----------------------------------------------------------------------------
(* The inductive invariant                                                 *)

PartOK(s) == Partition(s) /\ MovedOnce(s)

(* What requests read, said and sent.                                      *)
Reads ==
  /\ seen \in [Dispatches -> [Records -> Nat \cup {Unread}]]
  /\ \A d \in Dispatches \ open, r \in Records : seen[d][r] = Unread
  /\ \A d \in open :
       seen[d][To[serves[d]]] # Unread => seen[d][From[serves[d]]] \in Nat \ {0}

RequestsOK ==
  /\ open \subseteq Dispatches
  /\ \A d \in open : serves[d] \in Tokens
  /\ DOMAIN sent = Tokens
  /\ \A t \in Tokens : sent[t] \subseteq Moves(t)
  /\ DOMAIN says = Dispatches
  /\ \A d \in Dispatches : says[d].result \in {"none", "committed", "changed", "conflict"}
  /\ \A a \in acked : a.token \in Tokens
  /\ faults \in 0..MaxFaults

IInv == PartOK(store) /\ PartOK(disk) /\ RequestsOK /\ Reads

-----------------------------------------------------------------------------
(* A batch                                                                 *)

(* What the guest builds from its reads moves one unit.                    *)
LEMMA BuiltMoves ==
  ASSUME BatchAssumption, IInv, NEW d \in Dispatches, d \in open, HasRead(d)
  PROVE  Built(d) \in Moves(serves[d])
<1> DEFINE t == serves[d]
           a == From[t]
           b == To[t]
<1>1. t \in Tokens /\ a \in Records /\ b \in Records /\ a # b
  BY DEF BatchAssumption, IInv, RequestsOK
<1>2. seen[d][a] \in Nat \ {0} /\ seen[d][b] \in Nat
  BY <1>1 DEF IInv, Reads, HasRead, Unread
<1>3. /\ DOMAIN Built(d) = {a, b}
      /\ Built(d)[a] = [expected |-> seen[d][a], value |-> seen[d][a] - 1]
      /\ Built(d)[b] = [expected |-> seen[d][b], value |-> seen[d][b] + 1]
  BY <1>1 DEF Built
<1>4. Built(d) \in Batches(t)
  <2>1. Built(d) = [r \in {a, b} |-> Built(d)[r]]
    BY <1>3 DEF Built
  <2>2. \A r \in {a, b} : Built(d)[r] \in [expected : Nat, value : Nat]
    BY <1>2, <1>3
  <2>3. QED
    BY <2>1, <2>2 DEF Batches
<1>5. QED
  BY <1>2, <1>3, <1>4 DEF Moves

(* A batch whose expectations hold is written whole: the partition keeps   *)
(* its shape and its account.                                              *)
LEMMA WrittenOK ==
  ASSUME BatchAssumption, PartOK(store), NEW t \in Tokens, t \notin DOMAIN store.decided,
         NEW batch \in Moves(t), Expected(batch)
  PROVE  PartOK(Written(t, batch))
<1> DEFINE a == From[t]
           b == To[t]
           D == DOMAIN store.decided
           W == Written(t, batch)
<1>1. a \in Records /\ b \in Records /\ a # b
  BY DEF BatchAssumption
<1>2. /\ DOMAIN batch = {a, b}
      /\ batch[a].value \in Nat /\ batch[b].value \in Nat
      /\ store.rows[a] = batch[a].value + 1
      /\ batch[b].value = store.rows[b] + 1
  BY DEF Moves, Batches, Expected
<1>3. W.rows = Left(batch) /\ DOMAIN W.decided = D \cup {t}
  BY DEF Written
<1>4. /\ W.rows[a] + 1 = store.rows[a]
      /\ W.rows[b] = store.rows[b] + 1
      /\ \A r \in Records \ {a, b} : W.rows[r] = store.rows[r]
      /\ W.rows \in [Records -> Nat]
  <2>1. store.rows \in [Records -> Nat]
    BY DEF PartOK, Partition
  <2>2. QED
    BY <1>1, <1>2, <1>3, <2>1 DEF Left
<1>5. Partition(W)
  <2>1. W = [rows |-> W.rows, decided |-> W.decided]
    BY DEF Written
  <2>2. D \subseteq Tokens /\ \A u \in D : store.decided[u] \in Batches(u)
    BY DEF PartOK, Partition
  <2>3. \A u \in D \cup {t} : W.decided[u] \in Batches(u)
    BY <2>2 DEF Written, Moves
  <2>4. QED
    BY <1>3, <1>4, <2>1, <2>2, <2>3 DEF Partition
<1>6. ASSUME NEW r \in Records
      PROVE  W.rows[r] + Count(D \cup {t}, From, r) = Start[r] + Count(D \cup {t}, To, r)
  <2>1. IsFiniteSet(D)
    BY FS_Subset DEF BatchAssumption, PartOK, Partition
  <2>2. store.rows[r] + Count(D, From, r) = Start[r] + Count(D, To, r)
    BY DEF PartOK, MovedOnce, Count
  <2>3. /\ Count(D, From, r) \in Nat /\ Count(D, To, r) \in Nat
        /\ store.rows[r] \in Nat /\ Start[r] \in Nat
    BY <2>1, CountOne DEF BatchAssumption, PartOK, Partition
  <2>4. CASE r = a
    <3>1. /\ Count(D \cup {t}, From, r) = Count(D, From, r) + 1
          /\ Count(D \cup {t}, To, r) = Count(D, To, r)
      BY <1>1, <2>1, <2>4, CountOne
    <3>2. W.rows[r] + 1 = store.rows[r] /\ W.rows[r] \in Nat
      BY <1>4, <2>4
    <3>3. QED
      BY <2>2, <2>3, <3>1, <3>2
  <2>5. CASE r = b
    <3>1. /\ Count(D \cup {t}, From, r) = Count(D, From, r)
          /\ Count(D \cup {t}, To, r) = Count(D, To, r) + 1
      BY <1>1, <2>1, <2>5, CountOne
    <3>2. W.rows[r] = store.rows[r] + 1
      BY <1>4, <2>5
    <3>3. QED
      BY <2>2, <2>3, <3>1, <3>2
  <2>6. CASE r \notin {a, b}
    <3>1. /\ Count(D \cup {t}, From, r) = Count(D, From, r)
          /\ Count(D \cup {t}, To, r) = Count(D, To, r)
      BY <2>1, <2>6, CountOne
    <3>2. W.rows[r] = store.rows[r]
      BY <1>4, <2>6
    <3>3. QED
      BY <2>2, <3>1, <3>2
  <2>7. QED
    BY <2>4, <2>5, <2>6
<1>7. QED
  BY <1>3, <1>5, <1>6 DEF PartOK, MovedOnce, Count

(* The import: whatever the verdict, the partition stays in order.         *)
LEMMA CommitOK ==
  ASSUME BatchAssumption, IInv, NEW d \in open, NEW batch \in Moves(serves[d]),
         Commit(d, batch)
  PROVE  PartOK(store')
<1>1. serves[d] \in Tokens /\ PartOK(store)
  BY DEF IInv, RequestsOK
<1>2. CASE serves[d] \notin DOMAIN store.decided /\ Expected(batch)
  <2>1. PartOK(Written(serves[d], batch))
    BY <1>1, <1>2, WrittenOK
  <2>2. QED
    BY <1>2, <2>1 DEF Commit
<1>3. CASE ~(serves[d] \notin DOMAIN store.decided /\ Expected(batch))
  BY <1>1, <1>3 DEF Commit
<1>4. QED
  BY <1>2, <1>3

-----------------------------------------------------------------------------
(* The invariant is inductive                                              *)

LEMMA InitInv == ASSUME BatchAssumption, Init PROVE IInv
<1> DEFINE s == [rows |-> Start, decided |-> <<>>]
<1>1. DOMAIN s.decided = {} /\ s.rows = Start
  OBVIOUS
<1>2. Partition(s)
  BY <1>1 DEF Partition, BatchAssumption
<1>3. MovedOnce(s)
  <2>1. ASSUME NEW r \in Records, NEW f
        PROVE  {t \in DOMAIN s.decided : f[t] = r} = {}
    BY <1>1
  <2>2. Start \in [Records -> Nat]
    BY DEF BatchAssumption
  <2>3. QED
    BY <1>1, <2>1, <2>2, FS_EmptySet DEF MovedOnce
<1>4. store = s /\ disk = s
  BY DEF Init
<1>5. open = {}
  BY DEF Init, open
<1>6. RequestsOK
  BY <1>5 DEF Init, RequestsOK, BatchAssumption, Silent
<1>7. Reads
  BY <1>5 DEF Init, Reads, Unread
<1>8. QED
  BY <1>2, <1>3, <1>4, <1>6, <1>7 DEF IInv, PartOK

(* Both images of the partition.                                           *)
LEMMA PartitionStep ==
  ASSUME BatchAssumption, IInv, Next
  PROVE  PartOK(store') /\ PartOK(disk')
<1> USE DEF IInv
<1>1. ASSUME NEW d \in Dispatches, Rebuild(d)
      PROVE  PartOK(store') /\ PartOK(disk')
  <2>1. d \in open /\ HasRead(d) /\ Commit(d, Built(d)) /\ disk' = disk
    BY <1>1 DEF Rebuild, Ready
  <2>2. Built(d) \in Moves(serves[d])
    BY <2>1, BuiltMoves
  <2>3. QED
    BY <2>1, <2>2, CommitOK
<1>2. ASSUME NEW d \in Dispatches, Resend(d)
      PROVE  PartOK(store') /\ PartOK(disk')
  <2>1. d \in open /\ disk' = disk
    BY <1>2 DEF Resend, Ready
  <2>2. PICK batch \in sent[serves[d]] : Commit(d, batch)
    BY <1>2 DEF Resend
  <2>3. batch \in Moves(serves[d])
    BY <2>1, <2>2 DEF RequestsOK
  <2>4. QED
    BY <2>1, <2>2, <2>3, CommitOK
<1>3. ASSUME NEW d \in Dispatches,
             \/ \E t \in Tokens : Begin(d, t)
             \/ \E r \in Records : Look(d, r)
             \/ Finish(d) \/ Abort(d) \/ Trap(d)
      PROVE  PartOK(store') /\ PartOK(disk')
  <2>1. store' = store /\ disk' \in {store, disk}
    BY <1>3 DEF Begin, Look, Finish, Abort, Trap, Persist
  <2>2. QED
    BY <2>1
<1>4. ASSUME Crash
      PROVE  PartOK(store') /\ PartOK(disk')
  BY <1>4 DEF Crash
<1>5. QED
  BY <1>1, <1>2, <1>3, <1>4 DEF Next

(* A batch that is sent is one its token may send again.                   *)
LEMMA CommitRequests ==
  ASSUME BatchAssumption, IInv, NEW d \in open, NEW batch \in Moves(serves[d]),
         Commit(d, batch), UNCHANGED <<serves, acked, faults>>
  PROVE  RequestsOK'
<1> USE DEF IInv, RequestsOK
<1>1. serves[d] \in Tokens /\ d \in Dispatches /\ open' = open
  BY DEF open
<1>2. Verdict(serves[d], batch) \in {"committed", "changed", "conflict"}
  BY DEF Verdict
<1>3. /\ DOMAIN says' = Dispatches
      /\ \A e \in Dispatches : says'[e].result \in {"none", "committed", "changed", "conflict"}
  BY <1>1, <1>2 DEF Commit, Said
<1>4. DOMAIN sent' = Tokens /\ \A t \in Tokens : sent'[t] \subseteq Moves(t)
  BY <1>1 DEF Commit
<1>5. QED
  BY <1>1, <1>3, <1>4

LEMMA RequestsStep ==
  ASSUME BatchAssumption, IInv, Next
  PROVE  RequestsOK'
<1> USE DEF IInv
<1>1. ASSUME NEW d \in Dispatches, Rebuild(d)
      PROVE  RequestsOK'
  <2>1. d \in open /\ HasRead(d) /\ Commit(d, Built(d)) /\ UNCHANGED <<serves, acked, faults>>
    BY <1>1 DEF Rebuild, Ready
  <2>2. Built(d) \in Moves(serves[d])
    BY <2>1, BuiltMoves
  <2>3. QED
    BY <2>1, <2>2, CommitRequests
<1>2. ASSUME NEW d \in Dispatches, Resend(d)
      PROVE  RequestsOK'
  <2>1. d \in open /\ UNCHANGED <<serves, acked, faults>>
    BY <1>2 DEF Resend, Ready
  <2>2. PICK batch \in sent[serves[d]] : Commit(d, batch)
    BY <1>2 DEF Resend
  <2>3. batch \in Moves(serves[d])
    BY <2>1, <2>2 DEF RequestsOK
  <2>4. QED
    BY <2>1, <2>2, <2>3, CommitRequests
<1>3. ASSUME NEW d \in Dispatches, NEW t \in Tokens, Begin(d, t)
      PROVE  RequestsOK'
  BY <1>3 DEF Begin, RequestsOK, open
<1>4. ASSUME NEW d \in Dispatches, NEW r \in Records, Look(d, r)
      PROVE  RequestsOK'
  BY <1>4 DEF Look, RequestsOK, open
<1>5. ASSUME NEW d \in Dispatches, Finish(d) \/ Abort(d) \/ Trap(d)
      PROVE  RequestsOK'
  <2>1. Close(d) /\ sent' = sent /\ faults' \in 0..MaxFaults
    BY <1>5 DEF Finish, Abort, Trap, RequestsOK, BatchAssumption
  <2>2. \A a \in acked' : a.token \in Tokens
    BY <1>5 DEF Finish, Abort, Trap, Answered, RequestsOK
  <2>3. QED
    BY <2>1, <2>2 DEF Close, RequestsOK, open, Silent
<1>6. ASSUME Crash
      PROVE  RequestsOK'
  BY <1>6 DEF Crash, RequestsOK, open, Silent, BatchAssumption
<1>7. QED
  BY <1>1, <1>2, <1>3, <1>4, <1>5, <1>6 DEF Next

LEMMA ReadsStep ==
  ASSUME BatchAssumption, IInv, Next
  PROVE  Reads'
<1> USE DEF IInv
<1>1. ASSUME UNCHANGED <<seen, serves>>
      PROVE  Reads'
  BY <1>1 DEF Reads, open
<1>2. ASSUME NEW d \in Dispatches, NEW t \in Tokens, Begin(d, t)
      PROVE  Reads'
  <2>1. seen' = seen /\ open' = open \cup {d} /\ serves'[d] = t
        /\ \A e \in open : serves'[e] = serves[e]
    BY <1>2 DEF Begin, open
  <2>2. seen[d][To[t]] = Unread
    BY <1>2 DEF Begin, Reads, BatchAssumption
  <2>3. d \notin open
    BY <1>2 DEF Begin
  <2>4. QED
    BY <2>1, <2>2, <2>3 DEF Reads
<1>3. ASSUME NEW d \in Dispatches, NEW r \in Records, Look(d, r)
      PROVE  Reads'
  <2> DEFINE a == From[serves[d]]
             b == To[serves[d]]
  <2>1. /\ d \in open /\ UNCHANGED <<serves>> /\ open' = open
        /\ seen' = [seen EXCEPT ![d][r] = store.rows[r]]
        /\ seen[d][r] = Unread
        /\ r = a \/ (r = b /\ seen[d][a] > 0)
    BY <1>3 DEF Look, open
  <2>2. store.rows[r] \in Nat
    BY DEF PartOK, Partition
  <2>3. a # b /\ a \in Records /\ b \in Records
    BY <2>1 DEF BatchAssumption, RequestsOK
  <2>4. seen' \in [Dispatches -> [Records -> Nat \cup {Unread}]]
    BY <2>1, <2>2 DEF Reads
  <2>5. \A e \in Dispatches \ {d} : seen'[e] = seen[e]
    BY <2>1 DEF Reads
  <2>6. seen'[d][b] # Unread => seen'[d][a] \in Nat \ {0}
    <3>1. CASE r = a
      <4>1. seen'[d][b] = seen[d][b] /\ seen[d][b] = Unread
        BY <2>1, <2>3, <3>1 DEF Reads, Unread
      <4>2. QED
        BY <4>1
    <3>2. CASE r = b
      <4>1. seen'[d][a] = seen[d][a]
        BY <2>1, <2>3, <3>2 DEF Reads
      <4>2. seen[d][a] \in Nat \cup {Unread} /\ seen[d][a] > 0
        BY <2>1, <2>3, <3>2 DEF Reads
      <4>3. QED
        BY <4>1, <4>2 DEF Unread
    <3>3. QED
      BY <2>1, <3>1, <3>2
  <2>7. QED
    BY <2>1, <2>4, <2>5, <2>6 DEF Reads
<1>4. ASSUME NEW d \in Dispatches, Finish(d) \/ Abort(d) \/ Trap(d)
      PROVE  Reads'
  <2>1. Close(d)
    BY <1>4 DEF Finish, Abort, Trap
  <2>2. open' = open \ {d} /\ \A e \in open \ {d} : serves'[e] = serves[e]
    BY <2>1 DEF Close, open
  <2>3. seen' = [seen EXCEPT ![d] = [r \in Records |-> Unread]]
    BY <2>1 DEF Close
  <2>4. seen' \in [Dispatches -> [Records -> Nat \cup {Unread}]]
    BY <2>3 DEF Reads
  <2>5. \A e \in Dispatches \ {d} : seen'[e] = seen[e]
    BY <2>3 DEF Reads
  <2>6. \A r \in Records : seen'[d][r] = Unread
    BY <2>3 DEF Reads
  <2>7. open \subseteq Dispatches
    BY DEF RequestsOK
  <2>8. QED
    BY <2>2, <2>4, <2>5, <2>6, <2>7 DEF Reads
<1>5. ASSUME Crash
      PROVE  Reads'
  BY <1>5 DEF Crash, Reads, open
<1>6. QED
  BY <1>1, <1>2, <1>3, <1>4, <1>5 DEF Next, Rebuild, Resend

LEMMA InvStep == ASSUME BatchAssumption, IInv, [Next]_vars PROVE IInv'
<1>1. CASE Next
  BY <1>1, PartitionStep, RequestsStep, ReadsStep DEF IInv
<1>2. CASE UNCHANGED vars
  BY <1>2 DEF vars, IInv, RequestsOK, Reads, open
<1>3. QED
  BY <1>1, <1>2

(* Specifications keep the invariant.                                      *)
LEMMA Invariance == Spec => []IInv
<1>1. Init => IInv
  BY BatchAssumption, InitInv
<1>2. IInv /\ [Next]_vars => IInv'
  BY BatchAssumption, InvStep
<1>3. QED
  BY <1>1, <1>2, PTL DEF Spec

(* The shape of every variable, always.                                    *)
THEOREM TypeCorrect == Spec => []TypeOK
<1>1. IInv => TypeOK
  BY DEF IInv, PartOK, RequestsOK, Reads, TypeOK, Moves
<1>2. QED
  BY <1>1, Invariance, PTL

(* Every decided token moved its unit exactly once, whatever interleaves,  *)
(* is retried, traps or crashes, and even if snapshots fail.               *)
THEOREM MovesExactlyOnce == Spec => []ExactlyOnce
<1>1. IInv => ExactlyOnce
  BY DEF IInv, PartOK, ExactlyOnce
<1>2. QED
  BY <1>1, Invariance, PTL

-----------------------------------------------------------------------------
(* What was told stands, if snapshots are written.  AnswersStand alone is  *)
(* not inductive: what an open request will answer must stand in memory.   *)

Stands(d, s) ==
  says[d].result = "committed" => Decided(serves[d], says[d].batch, s)

AInv ==
  /\ AnswersStand
  /\ \A d \in open : Stands(d, store)
  /\ \A d \in Dispatches \ open : says[d] = Silent

(* A batch leaves what was decided as it is, and its own answer stands.    *)
LEMMA CommitStands ==
  ASSUME BatchAssumption, IInv, NEW d \in open, NEW batch, Commit(d, batch)
  PROVE  /\ \A t, m : Decided(t, m, store) => Decided(t, m, store')
         /\ says'[d].result = "committed" => Decided(serves[d], says'[d].batch, store')
<1> DEFINE t == serves[d]
<1>1. says'[d] = Said(Verdict(t, batch), batch)
  BY DEF IInv, RequestsOK, Commit
<1>2. CASE t \notin DOMAIN store.decided /\ Expected(batch)
  <2>1. store' = Written(t, batch)
    BY <1>2 DEF Commit
  <2>2. /\ DOMAIN store'.decided = DOMAIN store.decided \cup {t}
        /\ store'.decided[t] = batch
        /\ \A u \in DOMAIN store.decided : store'.decided[u] = store.decided[u]
    BY <1>2, <2>1 DEF Written
  <2>3. QED
    BY <1>1, <2>2 DEF Decided, Said
<1>3. CASE ~(t \notin DOMAIN store.decided /\ Expected(batch))
  <2>1. store' = store
    BY <1>3 DEF Commit
  <2>2. QED
    BY <1>1, <1>3, <2>1 DEF Decided, Said, Verdict
<1>4. QED
  BY <1>2, <1>3

LEMMA AnswersStep ==
  ASSUME BatchAssumption, DiskMayFail = FALSE, IInv, AInv, Next
  PROVE  AInv'
<1> USE DEF AInv, AnswersStand
<1>1. ASSUME NEW d \in open, NEW batch, Commit(d, batch),
             UNCHANGED <<disk, serves, acked>>
      PROVE  AInv'
  <2>1. \A t, m : Decided(t, m, store) => Decided(t, m, store')
    BY <1>1, CommitStands
  <2>2. says'[d].result = "committed" => Decided(serves[d], says'[d].batch, store')
    BY <1>1, CommitStands
  <2>3. \A e \in Dispatches \ {d} : says'[e] = says[e]
    BY <1>1 DEF Commit, IInv, RequestsOK
  <2>4. open' = open /\ open \subseteq Dispatches /\ serves' = serves
    BY <1>1 DEF open, IInv, RequestsOK
  <2>5. \A e \in open : says'[e].result = "committed" =>
                          Decided(serves[e], says'[e].batch, store')
    BY <2>1, <2>2, <2>3, <2>4 DEF Stands
  <2>6. QED
    BY <1>1, <2>1, <2>3, <2>4, <2>5 DEF Stands
<1>2. ASSUME NEW d \in Dispatches, NEW t \in Tokens, Begin(d, t)
      PROVE  AInv'
  <2>1. /\ UNCHANGED <<store, disk, says, acked>> /\ open' = open \cup {d}
        /\ \A e \in open : serves'[e] = serves[e]
    BY <1>2 DEF Begin, open
  <2>2. says[d] = Silent
    BY <1>2 DEF Begin
  <2>3. QED
    BY <2>1, <2>2 DEF Stands, Silent
<1>3. ASSUME NEW d \in Dispatches, NEW r \in Records, Look(d, r)
      PROVE  AInv'
  BY <1>3 DEF Look, Stands, open
<1>4. ASSUME NEW d \in Dispatches, Close(d), store' = store
      PROVE  /\ \A e \in open' : Stands(e, store)'
             /\ \A e \in Dispatches \ open' : says'[e] = Silent
  <2>1. /\ open' = open \ {d} /\ open \subseteq Dispatches
        /\ \A e \in open \ {d} : serves'[e] = serves[e]
        /\ \A e \in Dispatches \ {d} : says'[e] = says[e]
        /\ says'[d] = Silent
    BY <1>4 DEF Close, open, IInv, RequestsOK
  <2>2. QED
    BY <1>4, <2>1 DEF Stands
<1>5. ASSUME NEW d \in Dispatches, Finish(d)
      PROVE  AInv'
  <2>1. d \in open /\ Close(d) /\ store' = store /\ disk' = store
    BY <1>5 DEF Finish, Persist
  <2>2. \A a \in acked' : \/ a \in acked
                          \/ /\ says[d].result = "committed"
                             /\ a = [token |-> serves[d], batch |-> says[d].batch]
    BY <1>5 DEF Finish, Answered
  <2>3. Stands(d, store)
    BY <2>1
  <2>4. QED
    BY <1>4, <2>1, <2>2, <2>3 DEF Stands
<1>6. ASSUME NEW d \in Dispatches, Abort(d) \/ Trap(d)
      PROVE  AInv'
  <2>1. Close(d) /\ store' = store /\ disk' = store /\ acked' = acked
    BY <1>6 DEF Abort, Trap, Persist
  <2>2. QED
    BY <1>4, <2>1
<1>7. ASSUME Crash
      PROVE  AInv'
  BY <1>7 DEF Crash, open
<1>8. ASSUME NEW d \in Dispatches, Rebuild(d) \/ Resend(d)
      PROVE  AInv'
  <2>1. d \in open /\ UNCHANGED <<disk, serves, acked>> /\ \E batch : Commit(d, batch)
    BY <1>8 DEF Rebuild, Resend, Ready
  <2>2. QED
    BY <1>1, <2>1
<1>9. QED
  BY <1>2, <1>3, <1>5, <1>6, <1>7, <1>8 DEF Next

(* What a client was told stays true, in memory and on disk.               *)
THEOREM AnswersPermanent == DiskMayFail = FALSE => (Spec => []AnswersStand)
<1> SUFFICES ASSUME DiskMayFail = FALSE
             PROVE  Spec => []AnswersStand
  OBVIOUS
<1>1. Init => AInv
  BY DEF Init, AInv, AnswersStand, open
<1>2. IInv /\ AInv /\ [Next]_vars => AInv'
  <2>1. CASE Next
    BY <2>1, BatchAssumption, AnswersStep
  <2>2. CASE UNCHANGED vars
    BY <2>2 DEF vars, AInv, AnswersStand, Stands, open
  <2>3. QED
    BY <2>1, <2>2
<1>3. AInv => AnswersStand
  BY DEF AInv
<1>4. QED
  BY <1>1, <1>2, <1>3, Invariance, PTL DEF Spec

-----------------------------------------------------------------------------
(* Registration: the inductive invariant                                   *)

Deleter  == {"mark", "address", "release", "remove", "unindex"}
Keeper   == {"list", "confirm", "insert", "enable"}
Claimant == {"reserve", "owner", "prior", "reclaim", "again", "undo"} \cup Keeper

Job == [at : {"idle", "find", "create"} \cup Claimant \cup Deleter, job : {"none", "register", "delete"},
        name : Names \cup {0}, email : Emails \cup {0}, row : Rows,
        owner : [name : Names \cup {0}, inc : Nat], listed : Nat, tries : Nat]

(* The shapes: a row that is there has an incarnation and an address, and  *)
(* nothing names an incarnation that was never given out.                  *)
Real(acct) == acct.inc \in 1..born /\ acct.email \in Emails

StoresFit ==
  /\ accounts \in [Names -> Rows] /\ \A n \in Names : accounts[n] = NoRow \/ Real(accounts[n])
  /\ emails \in [Emails -> [name : Names \cup {0}, inc : Nat]]
  /\ \A e \in Emails : emails[e] = NoOwner \/ (emails[e].name \in Names /\ emails[e].inc \in 1..born)
  /\ index \in [Names -> Nat] /\ \A n \in Names : index[n] <= born
  /\ deleted \subseteq 1..born /\ born \in Nat /\ count \in 0..MaxRegistrants
  /\ work \in [Registrants -> Job]

(* A request knows what its step is about.                                 *)
JobFits(q) ==
  /\ q.at # "idle" => q.name \in Names /\ q.listed <= born
  /\ q.at = "find" => q.row = NoRow /\ q.job = "delete"
  /\ q.at = "create" =>
       /\ q.email \in Emails
       /\ q.row = NoRow \/ q.row.inc \in 1..born
  /\ q.at \in Claimant => q.row.registering
  /\ q.at \in Claimant \cup (Deleter \ {"unindex"}) => Real(q.row)
  /\ q.at = "unindex" => q.row.inc \in 1..born
  /\ q.at \in {"prior", "reclaim"} => q.owner.name \in Names /\ q.owner.inc \in 1..born
  /\ q.at \in {"find", "confirm"} => q.listed # 0
  /\ q.at = "confirm" => q.listed # q.row.inc
  /\ q.at \in Deleter /\ q.job = "register" => q.email \in Emails
  /\ q.at \in Deleter \cup {"create"} => q.listed = 0

(* An incarnation belongs to one name, whoever speaks of it.               *)
Placed ==
  \A n \in Names : accounts[n].inc # 0 =>
    \A m \in Names : accounts[m].inc = accounts[n].inc \/ index[m] = accounts[n].inc => m = n

Named(q) ==
  q.at # "idle" =>
    \A n \in Names : accounts[n].inc # 0 /\ accounts[n].inc \in {q.row.inc, q.listed} => n = q.name

(* What is being deleted stays so until its row is gone; what was fenced   *)
(* is being deleted.                                                       *)
Doomed(i) == \A n \in Names : accounts[n].inc = i => accounts[n].deleting
Buried    == \A i \in deleted : Doomed(i)

(* What a request concluded from its reads still holds when it acts on it; *)
(* what a pending row has got so far, it keeps.                            *)
Concluded(q) ==
  /\ q.at = "reclaim" => ~Keeps(q)
  /\ q.at = "insert" => q.listed = 0 \/ accounts[q.name].inc # q.listed

Holding(q) ==
  q.at \in Keeper /\ accounts[q.name] = q.row /\ ~q.row.deleting =>
    /\ emails[q.row.email] = Claimed(q)
    /\ q.at = "enable" => index[q.name] = q.row.inc

Own(w) ==
  LET q == work[w]
  IN /\ JobFits(q) /\ Named(q) /\ Concluded(q) /\ Holding(q)
     /\ q.at \in Deleter => Doomed(q.row.inc)

Stores == StoresFit /\ Placed /\ Buried /\ LiveIsReachable

RegistrationInv == Stores /\ \A w \in Registrants : Own(w)

(***************************************************************************)
(* What a step may do to the three collections and to the fences, whoever  *)
(* takes it.                                                               *)
(***************************************************************************)
RowsAge ==
  /\ born' \in {born, born + 1}
  /\ \A n \in Names :
       \/ accounts'[n] = accounts[n]
       \/ accounts'[n] = NoRow
       \/ accounts[n].inc # 0 /\ accounts'[n] = [accounts[n] EXCEPT !.deleting = TRUE]
       \/ accounts[n].inc # 0 /\ accounts'[n] = [accounts[n] EXCEPT !.registering = FALSE]
       \/ /\ born' = born + 1 /\ accounts'[n].inc = born + 1
          /\ accounts'[n].registering

AddressesStand ==
  \A e \in Emails :
    emails'[e] = emails[e] \/ ~\E n \in Names : /\ emails[e] = [name |-> n, inc |-> accounts[n].inc]
                                                 /\ accounts[n].inc # 0 /\ accounts[n].email = e
                                                 /\ ~accounts[n].deleting

PointersStand ==
  \A n \in Names :
    index'[n] = index[n] \/ index[n] # accounts[n].inc \/ accounts[n].inc = 0 \/ accounts[n].deleting

FencedOff ==
  \/ deleted' = deleted
  \/ \E i \in 1..born : deleted' = deleted \cup {i} /\ Doomed(i)

Effects == RowsAge /\ AddressesStand /\ PointersStand /\ FencedOff

(* An incarnation that was given out is never given out again.             *)
LEMMA RowsAged ==
  ASSUME StoresFit, RowsAge, NEW n \in Names, accounts'[n].inc \in 1..born
  PROVE  /\ accounts[n].inc = accounts'[n].inc /\ accounts[n].email = accounts'[n].email
         /\ accounts[n].deleting => accounts'[n].deleting
         /\ accounts[n].registering \/ ~accounts'[n].registering
         /\ accounts'[n].registering /\ ~accounts'[n].deleting => accounts'[n] = accounts[n]
         /\ \/ accounts'[n].registering = accounts[n].registering
            \/ accounts'[n] = [accounts[n] EXCEPT !.registering = FALSE]
<1>1. accounts[n] \in Rows /\ born \in Nat
  BY DEF StoresFit
<1>2. accounts'[n] # NoRow /\ accounts'[n].inc # born + 1
  BY <1>1 DEF NoRow
<1>3. QED
  BY <1>1, <1>2 DEF RowsAge, Rows

LEMMA DoomedStays ==
  ASSUME StoresFit, RowsAge, NEW i \in 1..born, Doomed(i) PROVE Doomed(i)'
<1>1. SUFFICES ASSUME NEW n \in Names, accounts'[n].inc = i PROVE accounts'[n].deleting
  BY DEF Doomed
<1>2. QED
  BY <1>1, RowsAged DEF Doomed

(* What a request that does not move relies on is left alone.              *)
LEMMA OthersKept ==
  ASSUME Stores, Effects, NEW w \in Registrants, work'[w] = work[w], Own(w) PROVE Own(w)'
<1>1. PICK p : p = work[w]
  OBVIOUS
<1>2. work'[w] = p /\ p = work[w] /\ p \in Job /\ born \in Nat /\ born' \in {born, born + 1}
  BY <1>1 DEF Stores, StoresFit, Effects, RowsAge
<1>3. /\ JobFits(p) /\ Named(p) /\ Concluded(p) /\ Holding(p)
      /\ p.at \in Deleter => Doomed(p.row.inc)
  BY <1>1 DEF Own
<1>4. JobFits(p)'
  BY <1>2, <1>3 DEF JobFits, Real, Job, Rows
<1>5. p.at # "idle" => p.row.inc \in 0..born /\ p.listed \in 0..born
  BY <1>2, <1>3 DEF JobFits, Job, Rows, Real, Claimant, Deleter, Keeper, NoRow
<1>6. Named(p)'
  <2>1. SUFFICES ASSUME p.at # "idle", NEW n \in Names, accounts'[n].inc # 0,
                        accounts'[n].inc \in {p.row.inc, p.listed}
                 PROVE  n = p.name
    BY DEF Named
  <2>2. accounts'[n].inc \in 1..born
    BY <1>2, <1>5, <2>1
  <2>3. accounts[n].inc = accounts'[n].inc
    BY <2>2, RowsAged DEF Effects, Stores
  <2>4. QED
    BY <1>3, <2>1, <2>3 DEF Named
<1>7. p.at \in Deleter => Doomed(p.row.inc)'
  BY <1>2, <1>3, DoomedStays DEF Stores, Effects, JobFits, Real, Deleter
<1>8. Concluded(p)'
  <2>1. CASE p.at = "reclaim"
    <3>1. p.owner.name \in Names /\ p.owner.inc \in 1..born /\ ~Keeps(p)
      BY <1>3, <2>1 DEF JobFits, Concluded
    <3> DEFINE n == p.owner.name
    <3>2. SUFFICES ASSUME Keeps(p)' PROVE FALSE
      BY <2>1 DEF Concluded
    <3>3. /\ ~accounts'[n].deleting /\ accounts'[n].email = p.row.email
          /\ accounts'[n].inc = p.owner.inc /\ accounts'[n].inc \notin deleted'
      BY <3>2 DEF Keeps
    <3>4. /\ accounts[n].inc = accounts'[n].inc /\ accounts[n].email = accounts'[n].email
          /\ accounts[n].deleting => accounts'[n].deleting
      BY <3>1, <3>3, RowsAged DEF Stores, Effects
    <3>5. deleted \subseteq deleted'
      BY DEF Effects, FencedOff
    <3>6. QED
      BY <3>1, <3>3, <3>4, <3>5 DEF Keeps
  <2>2. CASE p.at = "insert"
    <3>1. p.listed = 0 \/ accounts[p.name].inc # p.listed
      BY <1>3, <2>2 DEF Concluded
    <3>2. p.name \in Names /\ p.listed \in 0..born
      BY <1>3, <1>5, <2>2 DEF JobFits
    <3>3. p.listed # 0 => accounts'[p.name].inc # p.listed
      <4>1. SUFFICES ASSUME p.listed # 0, accounts'[p.name].inc = p.listed PROVE FALSE
        OBVIOUS
      <4>2. accounts'[p.name].inc \in 1..born
        BY <1>2, <3>2, <4>1
      <4>3. accounts[p.name].inc = accounts'[p.name].inc
        BY <3>2, <4>2, RowsAged DEF Stores, Effects
      <4>4. QED
        BY <3>1, <4>1, <4>3
    <3>4. QED
      BY <2>2, <3>3 DEF Concluded
  <2>3. QED
    BY <2>1, <2>2 DEF Concluded
<1>9. Holding(p)'
  <2>1. SUFFICES ASSUME p.at \in Keeper, accounts'[p.name] = p.row, ~p.row.deleting PROVE Holding(p)'
    BY DEF Holding
  <2>2. p.name \in Names /\ Real(p.row) /\ p.row.registering
    BY <1>3, <2>1 DEF JobFits, Claimant, Keeper
  <2>3. accounts[p.name] = p.row
    BY <2>1, <2>2, RowsAged DEF Stores, Effects, Real
  <2>4. emails[p.row.email] = Claimed(p) /\ (p.at = "enable" => index[p.name] = p.row.inc)
    BY <1>3, <2>1, <2>3 DEF Holding
  <2>5. emails'[p.row.email] = Claimed(p)
    BY <2>1, <2>2, <2>3, <2>4 DEF Effects, AddressesStand, Real, Claimed
  <2>6. p.at = "enable" => index'[p.name] = p.row.inc
    BY <2>1, <2>2, <2>3, <2>4 DEF Effects, PointersStand, Real
  <2>7. QED
    BY <2>5, <2>6 DEF Holding, Claimed
<1>10. QED
  BY <1>2, <1>4, <1>6, <1>7, <1>8, <1>9 DEF Own

(* The collections after a step, when what is new in them fits.            *)
LEMMA StoresKept ==
  ASSUME Stores, Effects, StoresFit',
         \A n \in Names : accounts'[n].inc \notin 1..born /\ accounts'[n].inc # 0 =>
            \A m \in Names : accounts'[m].inc = accounts'[n].inc => m = n,
         \A n, m \in Names : index'[m] = index[m] \/ index'[m] = 0
                            \/ (accounts'[n].inc = index'[m] => m = n),
         \A n \in Names :
            accounts[n].registering /\ accounts'[n].inc # 0 /\ ~accounts'[n].registering
              /\ ~accounts'[n].deleting
              => /\ emails'[accounts[n].email] = [name |-> n, inc |-> accounts[n].inc]
                 /\ index'[n] = accounts[n].inc
  PROVE  Stores'
<1>1. born \in Nat /\ born' \in {born, born + 1} /\ index \in [Names -> Nat]
      /\ \A m \in Names : index[m] <= born
  BY DEF Stores, StoresFit, Effects, RowsAge
<1>2. \A n \in Names : accounts'[n].inc = 0 \/ accounts'[n].inc \in 1..born \/ accounts'[n].inc = born + 1
  <2>1. \A n \in Names : accounts'[n] = NoRow \/ accounts'[n].inc \in 1..born'
    BY DEF StoresFit, Real
  <2>2. QED
    BY <1>1, <2>1 DEF NoRow
<1>3. Placed'
  <2>1. SUFFICES ASSUME NEW n \in Names, accounts'[n].inc # 0, NEW m \in Names,
                        accounts'[m].inc = accounts'[n].inc \/ index'[m] = accounts'[n].inc
                 PROVE  m = n
    BY DEF Placed
  <2>2. CASE accounts'[n].inc \in 1..born
    <3>1. accounts[n].inc = accounts'[n].inc
      BY <2>2, RowsAged DEF Stores, Effects
    <3>2. accounts'[m].inc = accounts'[n].inc => accounts[m].inc = accounts'[m].inc
      BY <2>2, RowsAged DEF Stores, Effects
    <3>3. QED
      BY <2>1, <3>1, <3>2 DEF Stores, Placed
  <2>3. CASE accounts'[n].inc = born + 1
    BY <1>1, <2>1, <2>3
  <2>4. QED
    BY <1>2, <2>1, <2>2, <2>3
<1>4. Buried'
  <2>1. deleted \subseteq 1..born
    BY DEF Stores, StoresFit
  <2>2. \A i \in deleted' : i \in 1..born /\ Doomed(i)
    BY <2>1 DEF Stores, Buried, Effects, FencedOff
  <2>3. QED
    BY <2>2, DoomedStays DEF Buried, Stores, Effects
<1>5. LiveIsReachable'
  <2>1. SUFFICES ASSUME NEW n \in Names, Live(n)'
                 PROVE  /\ emails'[accounts'[n].email] = [name |-> n, inc |-> accounts'[n].inc]
                        /\ index'[n] = accounts'[n].inc /\ accounts'[n].inc \notin deleted'
    BY DEF LiveIsReachable
  <2>2. accounts'[n].inc # 0 /\ ~accounts'[n].registering /\ ~accounts'[n].deleting
    BY <2>1 DEF Live
  <2>3. accounts'[n].inc \notin deleted'
    BY <1>4, <2>2 DEF Buried, Doomed
  <2>4. accounts'[n].inc \in 1..born
    <3>1. accounts[n] = NoRow \/ accounts[n].inc \in 1..born
      BY DEF Stores, StoresFit, Real
    <3>2. accounts[n] \in Rows
      BY DEF Stores, StoresFit
    <3>3. \/ accounts'[n].inc \in {0, accounts[n].inc}
          \/ accounts'[n].registering
      <4>1. RowsAge
        BY DEF Effects
      <4>2. [accounts[n] EXCEPT !.deleting = TRUE].inc = accounts[n].inc
        BY <3>2 DEF Rows
      <4>3. [accounts[n] EXCEPT !.registering = FALSE].inc = accounts[n].inc
        BY <3>2 DEF Rows
      <4>4. NoRow.inc = 0
        BY DEF NoRow
      <4>5. QED
        BY <4>1, <4>2, <4>3, <4>4 DEF RowsAge
    <3>4. QED
      BY <1>1, <1>2, <2>2, <3>1, <3>3 DEF NoRow
  <2>5. accounts[n].inc = accounts'[n].inc /\ accounts[n].email = accounts'[n].email
        /\ ~accounts[n].deleting
    BY <2>2, <2>4, RowsAged DEF Stores, Effects
  <2>6. CASE accounts[n].registering
    BY <2>2, <2>3, <2>5, <2>6
  <2>7. CASE ~accounts[n].registering
    <3>1. /\ emails[accounts[n].email] = [name |-> n, inc |-> accounts[n].inc]
          /\ index[n] = accounts[n].inc
      BY <2>2, <2>5, <2>7 DEF Stores, LiveIsReachable, Live
    <3>2. accounts[n].email \in Emails
      BY <2>2, <2>5 DEF Stores, StoresFit, Real, NoRow
    <3>3. emails'[accounts[n].email] = emails[accounts[n].email]
      BY <2>2, <2>5, <3>1, <3>2 DEF Effects, AddressesStand
    <3>4. index'[n] = index[n]
      BY <2>2, <2>5, <3>1 DEF Effects, PointersStand
    <3>5. QED
      BY <2>3, <2>5, <3>1, <3>3, <3>4
  <2>8. QED
    BY <2>6, <2>7 DEF Stores, StoresFit, Rows
<1>6. QED
  BY <1>3, <1>4, <1>5 DEF Stores

(* A step of one request, by what it leaves that request with.             *)
Suits(q) ==
  /\ JobFits(q) /\ Named(q) /\ Concluded(q) /\ Holding(q)
  /\ q.at \in Deleter => Doomed(q.row.inc)

LEMMA Suited ==
  ASSUME RegistrationInv, NEW w \in Registrants
  PROVE  Suits(work[w]) /\ work[w] \in Job
BY DEF RegistrationInv, Own, Suits, Stores, StoresFit

LEMMA MoveKept ==
  ASSUME RegistrationInv, Effects, Stores', NEW w \in Registrants, NEW q \in Job,
         work' = [work EXCEPT ![w] = q], Suits(q)'
  PROVE  RegistrationInv'
<1>1. ASSUME NEW v \in Registrants PROVE Own(v)'
  <2>1. work \in [Registrants -> Job]
    BY DEF RegistrationInv, Stores, StoresFit
  <2>2. CASE v = w
    <3>1. work'[v] = q
      BY <2>1, <2>2
    <3>2. QED
      BY <3>1 DEF Own, Suits
  <2>3. CASE v # w
    <3>1. work'[v] = work[v] /\ Own(v) /\ Stores
      BY <2>1, <2>3 DEF RegistrationInv
    <3>2. QED
      BY <3>1, OthersKept
  <2>4. QED
    BY <2>2, <2>3
<1>2. QED
  BY <1>1 DEF RegistrationInv

LEMMA LocalKept ==
  ASSUME RegistrationInv, NEW w \in Registrants, NEW q \in Job,
         UNCHANGED <<accounts, emails, index, deleted, born>>, count' \in 0..MaxRegistrants,
         work' = [work EXCEPT ![w] = q], Suits(q)
  PROVE  RegistrationInv'
<1>1. Effects
  BY DEF Effects, RowsAge, AddressesStand, PointersStand, FencedOff
<1>2. Stores'
  <2>1. StoresFit'
    BY DEF RegistrationInv, Stores, StoresFit, Real
  <2>2. Placed' /\ Buried' /\ LiveIsReachable'
    BY DEF RegistrationInv, Stores, Placed, Buried, Doomed, LiveIsReachable, Live
  <2>3. QED
    BY <2>1, <2>2 DEF Stores
<1>3. Suits(q)'
  BY DEF Suits, JobFits, Real, Named, Concluded, Keeps, Holding, Claimed, Doomed
<1>4. QED
  BY <1>1, <1>2, <1>3, MoveKept

(* ... when it takes or leaves an address;                                 *)
AddressMove(w, q, e, owner) ==
  /\ UNCHANGED <<accounts, index, deleted, born, count>>
  /\ emails' = [emails EXCEPT ![e] = owner] /\ AddressesStand
  /\ owner = NoOwner \/ owner \in [name : Names, inc : 1..born]
  /\ work' = [work EXCEPT ![w] = q]
  /\ JobFits(q) /\ Named(q) /\ Concluded(q) /\ (q.at \in Deleter => Doomed(q.row.inc))
  /\ q.at \in Keeper => q.at = "list" /\ e = q.row.email /\ owner = Claimed(q)

LEMMA AddressKept ==
  ASSUME RegistrationInv, NEW w \in Registrants, NEW q \in Job, NEW e \in Emails, NEW owner,
         AddressMove(w, q, e, owner)
  PROVE  RegistrationInv'
<1> USE DEF AddressMove
<1>1. Effects
  BY DEF Effects, RowsAge, PointersStand, FencedOff, RegistrationInv, Stores, StoresFit
<1>2. StoresFit'
  <2>1. emails \in [Emails -> [name : Names \cup {0}, inc : Nat]] /\ born \in Nat
    BY DEF RegistrationInv, Stores, StoresFit
  <2>2. owner \in [name : Names \cup {0}, inc : Nat]
    BY <2>1 DEF NoOwner
  <2>3. emails' \in [Emails -> [name : Names \cup {0}, inc : Nat]]
    BY <2>1, <2>2
  <2>4. \A x \in Emails : emails'[x] = NoOwner \/ (emails'[x].name \in Names /\ emails'[x].inc \in 1..born)
    BY <2>1 DEF RegistrationInv, Stores, StoresFit
  <2>5. work' \in [Registrants -> Job]
    BY DEF RegistrationInv, Stores, StoresFit
  <2>6. QED
    BY <2>3, <2>4, <2>5 DEF RegistrationInv, Stores, StoresFit, Real
<1>3. Stores'
  <2>1. Placed /\ StoresFit /\ Stores
    BY DEF RegistrationInv, Stores
  <2>2. \A n \in Names : accounts'[n].inc \notin 1..born /\ accounts'[n].inc # 0 =>
            \A m \in Names : accounts'[m].inc = accounts'[n].inc => m = n
    BY <2>1 DEF Placed
  <2>3. \A n, m \in Names : index'[m] = index[m]
    OBVIOUS
  <2>4. \A n \in Names : accounts'[n].registering = accounts[n].registering
    OBVIOUS
  <2>5. QED
    BY <1>1, <1>2, <2>1, <2>2, <2>3, <2>4, StoresKept
<1>4. Suits(q)'
  <2>1. JobFits(q)' /\ Named(q)' /\ Concluded(q)' /\ (q.at \in Deleter => Doomed(q.row.inc)')
    BY DEF JobFits, Real, Named, Concluded, Keeps, Doomed
  <2>2. Holding(q)'
    BY DEF Holding, Claimed, RegistrationInv, Stores, StoresFit
  <2>3. QED
    BY <2>1, <2>2 DEF Suits
<1>5. QED
  BY <1>1, <1>3, <1>4, MoveKept

(* ... a pointer;                                                          *)
PointerMove(w, q, n, i) ==
  /\ UNCHANGED <<accounts, emails, deleted, born, count>>
  /\ index' = [index EXCEPT ![n] = i] /\ PointersStand
  /\ i # 0 => \A m \in Names : accounts[m].inc = i => m = n
  /\ work' = [work EXCEPT ![w] = q]
  /\ JobFits(q) /\ Named(q) /\ Concluded(q) /\ (q.at \in Deleter => Doomed(q.row.inc))
  /\ Holding(q)'

LEMMA PointerKept ==
  ASSUME RegistrationInv, NEW w \in Registrants, NEW q \in Job, NEW n \in Names, NEW i \in 0..born,
         PointerMove(w, q, n, i)
  PROVE  RegistrationInv'
<1> USE DEF PointerMove
<1>1. Effects
  BY DEF Effects, RowsAge, AddressesStand, FencedOff, RegistrationInv, Stores, StoresFit
<1>2. StoresFit'
  <2>1. index' \in [Names -> Nat] /\ \A m \in Names : index'[m] <= born
    BY DEF RegistrationInv, Stores, StoresFit
  <2>2. work' \in [Registrants -> Job]
    BY DEF RegistrationInv, Stores, StoresFit
  <2>3. QED
    BY <2>1, <2>2 DEF RegistrationInv, Stores, StoresFit, Real
<1>3. Stores'
  <2>1. Placed /\ StoresFit /\ Stores
    BY DEF RegistrationInv, Stores
  <2>2. \A m \in Names : accounts'[m].inc \notin 1..born /\ accounts'[m].inc # 0 =>
            \A k \in Names : accounts'[k].inc = accounts'[m].inc => k = m
    BY <2>1 DEF Placed
  <2>3. \A k, m \in Names : index'[m] = index[m] \/ index'[m] = 0
                            \/ (accounts'[k].inc = index'[m] => m = k)
    BY <2>1 DEF StoresFit
  <2>4. \A k \in Names : accounts'[k].registering = accounts[k].registering
    OBVIOUS
  <2>5. QED
    BY <1>1, <1>2, <2>1, <2>2, <2>3, <2>4, StoresKept
<1>4. Suits(q)'
  <2>1. JobFits(q)' /\ Named(q)' /\ Concluded(q)' /\ (q.at \in Deleter => Doomed(q.row.inc)')
    BY DEF JobFits, Real, Named, Concluded, Keeps, Doomed
  <2>2. QED
    BY <2>1 DEF Suits
<1>5. QED
  BY <1>1, <1>3, <1>4, MoveKept

(* ... or a row.                                                           *)
RowMove(w, q, n, acct) ==
  /\ UNCHANGED <<emails, index, deleted>> /\ count' \in 0..MaxRegistrants
  /\ accounts' = [accounts EXCEPT ![n] = acct] /\ RowsAge
  /\ acct = NoRow \/ (acct.inc \in 1..born' /\ acct.email \in Emails)
  /\ acct.inc # 0 /\ acct.inc # accounts[n].inc => acct.inc = born + 1 /\ born' = born + 1
  /\ accounts[n].registering /\ acct.inc # 0 /\ ~acct.registering /\ ~acct.deleting
       => /\ emails[accounts[n].email] = [name |-> n, inc |-> accounts[n].inc]
          /\ index[n] = accounts[n].inc
  /\ work' = [work EXCEPT ![w] = q] /\ Suits(q)'

LEMMA RowKept ==
  ASSUME RegistrationInv, NEW w \in Registrants, NEW q \in Job, NEW n \in Names, NEW acct \in Rows,
         RowMove(w, q, n, acct)
  PROVE  RegistrationInv'
<1> USE DEF RowMove
<1>1. Effects
  BY DEF Effects, AddressesStand, PointersStand, FencedOff
<1>2. /\ StoresFit /\ Placed /\ Stores /\ born \in Nat /\ born' \in {born, born + 1}
      /\ accounts \in [Names -> Rows]
  BY DEF RegistrationInv, Stores, StoresFit, RowsAge
<1>3. accounts'[n] = acct /\ \A m \in Names \ {n} : accounts'[m] = accounts[m]
  BY <1>2
<1>4. StoresFit'
  <2>1. accounts' \in [Names -> Rows]
    BY <1>2
  <2>2. \A m \in Names : accounts'[m] = NoRow \/ Real(accounts[m])'
    BY <1>2, <1>3 DEF StoresFit, Real
  <2>3. \A x \in Emails : emails'[x] = NoOwner \/ (emails'[x].name \in Names /\ emails'[x].inc \in 1..born')
    BY <1>2 DEF StoresFit
  <2>4. work' \in [Registrants -> Job]
    BY <1>2 DEF StoresFit
  <2>5. (\A m \in Names : index'[m] <= born') /\ deleted' \subseteq 1..born' /\ born' \in Nat
    BY <1>2 DEF StoresFit
  <2>6. QED
    BY <1>2, <2>1, <2>2, <2>3, <2>4, <2>5 DEF StoresFit
<1>5. Stores'
  <2>1. ASSUME NEW m \in Names, accounts'[m].inc \notin 1..born, accounts'[m].inc # 0,
               NEW k \in Names, accounts'[k].inc = accounts'[m].inc
        PROVE  k = m
    <3>1. \A j \in Names : accounts[j].inc \in 0..born
      BY <1>2 DEF StoresFit, Real, NoRow
    <3>2. m = n /\ k = n
      BY <1>2, <1>3, <2>1, <3>1
    <3>3. QED
      BY <3>2
  <2>2. \A k, m \in Names : index'[m] = index[m]
    OBVIOUS
  <2>3. ASSUME NEW m \in Names, accounts[m].registering, accounts'[m].inc # 0,
               ~accounts'[m].registering, ~accounts'[m].deleting
        PROVE  /\ emails'[accounts[m].email] = [name |-> m, inc |-> accounts[m].inc]
               /\ index'[m] = accounts[m].inc
    <3>1. m = n
      BY <1>3, <2>3
    <3>2. QED
      BY <1>3, <2>3, <3>1
  <2>4. QED
    BY <1>1, <1>2, <1>4, <2>1, <2>2, <2>3, StoresKept
<1>6. QED
  BY <1>1, <1>5, MoveKept

-----------------------------------------------------------------------------
(* Registration: the steps                                                 *)

LEMMA RegistrationInvInit == RegistrationAssumption /\ RegistrationInit => RegistrationInv
<1>1. SUFFICES ASSUME RegistrationAssumption, RegistrationInit PROVE RegistrationInv
  OBVIOUS
<1>2. NoRow \in Rows /\ Resting \in Job /\ NoOwner \in [name : Names \cup {0}, inc : Nat]
  BY DEF NoRow, Rows, Resting, Job, NoOwner
<1>3. StoresFit
  BY <1>1, <1>2 DEF RegistrationAssumption, RegistrationInit, StoresFit
<1>4. Placed /\ Buried /\ LiveIsReachable
  BY <1>1 DEF RegistrationInit, Placed, Buried, LiveIsReachable, Live, NoRow
<1>5. ASSUME NEW w \in Registrants PROVE Own(w)
  BY <1>1, <1>3 DEF RegistrationInit, StoresFit, Own, Resting, JobFits, Named, Concluded, Holding,
                    Claimant, Keeper, Deleter, NoRow
<1>6. QED
  BY <1>3, <1>4, <1>5 DEF RegistrationInv, Stores

LEMMA RestKept ==
  ASSUME RegistrationInv, NEW w \in Registrants, Rest(w),
         UNCHANGED <<accounts, emails, index, deleted, born, count>>
  PROVE  RegistrationInv'
<1>1. Resting \in Job /\ Suits(Resting)
  BY DEF Resting, Job, Rows, NoRow, NoOwner, Suits, JobFits, Named, Concluded, Holding,
         Claimant, Keeper, Deleter
<1>2. count' \in 0..MaxRegistrants /\ work' = [work EXCEPT ![w] = Resting]
  BY DEF RegistrationInv, Stores, StoresFit, Rest, Put
<1>3. QED
  BY <1>1, <1>2, LocalKept

(* A step that changes nothing but where the request stands.               *)
LEMMA GoKept ==
  ASSUME RegistrationInv, NEW w \in Registrants, NEW s, Go(w, s),
         UNCHANGED <<accounts, emails, index, deleted, born, count>>,
         [work[w] EXCEPT !.at = s] \in Job, Suits([work[w] EXCEPT !.at = s])
  PROVE  RegistrationInv'
<1>1. count' \in 0..MaxRegistrants /\ work' = [work EXCEPT ![w] = [work[w] EXCEPT !.at = s]]
  BY DEF RegistrationInv, Stores, StoresFit, Go, Put
<1>2. QED
  BY <1>1, LocalKept

LEMMA PlacedRows ==
  ASSUME RegistrationInv, NEW n \in Names, accounts[n] # NoRow
  PROVE  /\ accounts[n] \in Rows /\ Real(accounts[n]) /\ accounts[n].inc # 0
         /\ \A m \in Names : accounts[m].inc = accounts[n].inc => m = n
BY DEF RegistrationInv, Stores, StoresFit, Placed, Real

LEMMA RegisterKept == ASSUME RegistrationAssumption, RegistrationInv, NEW w \in Registrants, Register(w) PROVE RegistrationInv'
<1>1. PICK n \in Names, e \in Emails :
        Put(w, [Resting EXCEPT !.job = "register", !.name = n, !.email = e, !.row = accounts[n],
                  !.at = IF accounts[n].deleting THEN "mark" ELSE "create"])
  BY DEF Register
<1>2. PICK q : q = [Resting EXCEPT !.job = "register", !.name = n, !.email = e, !.row = accounts[n],
                      !.at = IF accounts[n].deleting THEN "mark" ELSE "create"]
  OBVIOUS
<1>3. /\ q.at = IF accounts[n].deleting THEN "mark" ELSE "create"
      /\ q.job = "register" /\ q.name = n /\ q.email = e /\ q.row = accounts[n] /\ q.listed = 0
      /\ q \in Job
  BY <1>2 DEF Resting, Job, NoOwner, Claimant, Keeper, Deleter, RegistrationInv, Stores, StoresFit
<1>4. accounts[n].deleting => accounts[n] # NoRow
  BY DEF NoRow
<1>5. accounts[n] = NoRow \/ Real(accounts[n])
  BY DEF RegistrationInv, Stores, StoresFit
<1>6. JobFits(q)
  BY <1>3, <1>4, <1>5 DEF JobFits, Real, Claimant, Keeper, Deleter, RegistrationInv, Stores, StoresFit
<1>7. Named(q) /\ (q.at \in Deleter => Doomed(q.row.inc))
  BY <1>3, <1>4, PlacedRows DEF Named, Doomed, NoRow, Deleter
<1>8. Suits(q)
  BY <1>3, <1>6, <1>7 DEF Suits, Concluded, Holding, Keeper
<1>9. /\ UNCHANGED <<accounts, emails, index, deleted, born>> /\ count' \in 0..MaxRegistrants
      /\ work' = [work EXCEPT ![w] = q]
  <2>1. count < MaxRegistrants /\ count' = count + 1 /\ UNCHANGED <<accounts, emails, index, deleted, born>>
    BY DEF Register
  <2>2. count \in 0..MaxRegistrants /\ MaxRegistrants \in Nat
    BY DEF RegistrationInv, Stores, StoresFit, RegistrationAssumption
  <2>3. work' = [work EXCEPT ![w] = q]
    BY <1>1, <1>2 DEF Put
  <2>4. QED
    BY <2>1, <2>2, <2>3
<1>10. QED
  BY <1>3, <1>8, <1>9, LocalKept

(* A row that a deletion marks, whichever request does it.                 *)
LEMMA MarkKept ==
  ASSUME RegistrationInv, NEW w \in Registrants, NEW n \in Names, accounts[n] # NoRow, NEW q \in Job,
         UNCHANGED <<emails, index, deleted, born>>, count' \in 0..MaxRegistrants,
         accounts' = [accounts EXCEPT ![n].deleting = TRUE],
         q.at = "mark", q.name = n, q.row = [accounts[n] EXCEPT !.deleting = TRUE],
         q.job = "delete", q.listed = 0,
         work' = [work EXCEPT ![w] = q]
  PROVE  RegistrationInv'
<1>1. PICK acct : acct = [accounts[n] EXCEPT !.deleting = TRUE]
  OBVIOUS
<1>2. /\ accounts[n] \in Rows /\ Real(accounts[n]) /\ accounts[n].inc # 0
      /\ \A m \in Names : accounts[m].inc = accounts[n].inc => m = n
      /\ accounts \in [Names -> Rows] /\ born \in Nat
  BY PlacedRows DEF RegistrationInv, Stores, StoresFit
<1>3. /\ acct \in Rows /\ acct.inc = accounts[n].inc /\ acct.email = accounts[n].email /\ acct.deleting
      /\ accounts' = [accounts EXCEPT ![n] = acct] /\ q.row = acct
  BY <1>1, <1>2 DEF Rows
<1>4. RowsAge
  BY <1>1, <1>2, <1>3 DEF RowsAge
<1>5. JobFits(q)'
  BY <1>2, <1>3 DEF JobFits, Real, Claimant, Keeper, Deleter
<1>6. /\ accounts'[n].deleting
      /\ \A m \in Names : accounts'[m].inc = acct.inc => m = n
  BY <1>2, <1>3
<1>7. Named(q)' /\ (q.at \in Deleter => Doomed(q.row.inc)')
  BY <1>2, <1>3, <1>6 DEF Named, Doomed
<1>8. Suits(q)'
  BY <1>5, <1>7 DEF Suits, Concluded, Holding, Keeper
<1>9. RowMove(w, q, n, acct)
  BY <1>2, <1>3, <1>4, <1>8 DEF RowMove, Real
<1>10. QED
  BY <1>3, <1>9, RowKept

LEMMA DeleteKept == ASSUME RegistrationAssumption, RegistrationInv, NEW w \in Registrants, Delete(w) PROVE RegistrationInv'
<1>1. PICK n \in Names :
        /\ Live(n) \/ accounts[n].deleting
        /\ accounts' = [accounts EXCEPT ![n].deleting = TRUE]
        /\ Put(w, [Resting EXCEPT !.job = "delete", !.name = n, !.at = "mark",
                                  !.row = [accounts[n] EXCEPT !.deleting = TRUE]])
  BY DEF Delete
<1>2. PICK q : q = [Resting EXCEPT !.job = "delete", !.name = n, !.at = "mark",
                                   !.row = [accounts[n] EXCEPT !.deleting = TRUE]]
  OBVIOUS
<1>3. accounts[n] # NoRow /\ accounts[n] \in Rows
  BY <1>1 DEF Live, NoRow, RegistrationInv, Stores, StoresFit
<1>4. [accounts[n] EXCEPT !.deleting = TRUE] \in Rows
  BY <1>3 DEF Rows
<1>5. /\ q \in Job /\ q.at = "mark" /\ q.name = n /\ q.row = [accounts[n] EXCEPT !.deleting = TRUE]
      /\ q.job = "delete" /\ q.listed = 0
  BY <1>2, <1>4 DEF Resting, Job, NoOwner, Deleter
<1>6. /\ UNCHANGED <<emails, index, deleted, born>> /\ count' \in 0..MaxRegistrants
      /\ work' = [work EXCEPT ![w] = q]
  <2>1. count < MaxRegistrants /\ count' = count + 1 /\ UNCHANGED <<emails, index, deleted, born>>
    BY DEF Delete
  <2>2. count \in 0..MaxRegistrants /\ MaxRegistrants \in Nat
    BY DEF RegistrationInv, Stores, StoresFit, RegistrationAssumption
  <2>3. work' = [work EXCEPT ![w] = q]
    BY <1>1, <1>2 DEF Put
  <2>4. QED
    BY <2>1, <2>2, <2>3
<1>7. QED
  BY <1>1, <1>3, <1>5, <1>6, MarkKept

LEMMA DeleteUserKept == ASSUME RegistrationAssumption, RegistrationInv, NEW w \in Registrants, DeleteUser(w) PROVE RegistrationInv'
<1>1. PICK n \in Names :
        /\ index[n] # 0
        /\ Put(w, [Resting EXCEPT !.job = "delete", !.name = n, !.listed = index[n], !.at = "find"])
  BY DEF DeleteUser
<1>2. PICK q : q = [Resting EXCEPT !.job = "delete", !.name = n, !.listed = index[n], !.at = "find"]
  OBVIOUS
<1>3. index[n] \in Nat /\ index[n] <= born
      /\ \A m \in Names : accounts[m].inc # 0 /\ index[n] = accounts[m].inc => n = m
  BY DEF RegistrationInv, Stores, StoresFit, Placed
<1>4. /\ q \in Job /\ q.at = "find" /\ q.name = n /\ q.row = NoRow /\ q.row.inc = 0
      /\ q.job = "delete" /\ q.listed = index[n]
  BY <1>2, <1>3 DEF Resting, Job, NoOwner, NoRow, Rows, Deleter
<1>5. JobFits(q) /\ Named(q)
  BY <1>1, <1>3, <1>4 DEF JobFits, Named, Claimant, Keeper, Deleter
<1>6. Suits(q)
  BY <1>4, <1>5 DEF Suits, Concluded, Holding, Keeper, Deleter
<1>7. /\ UNCHANGED <<accounts, emails, index, deleted, born>> /\ count' \in 0..MaxRegistrants
      /\ work' = [work EXCEPT ![w] = q]
  <2>1. count < MaxRegistrants /\ count' = count + 1 /\ UNCHANGED <<accounts, emails, index, deleted, born>>
    BY DEF DeleteUser
  <2>2. count \in 0..MaxRegistrants /\ MaxRegistrants \in Nat
    BY DEF RegistrationInv, Stores, StoresFit, RegistrationAssumption
  <2>3. work' = [work EXCEPT ![w] = q]
    BY <1>1, <1>2 DEF Put
  <2>4. QED
    BY <2>1, <2>2, <2>3
<1>8. QED
  BY <1>4, <1>6, <1>7, LocalKept

LEMMA FindUserKept == ASSUME RegistrationInv, NEW w \in Registrants, FindUser(w) PROVE RegistrationInv'
<1>1. PICK p : p = work[w]
  OBVIOUS
<1>2. Suits(p) /\ p \in Job /\ p.at = "find" /\ p.name \in Names /\ p.listed \in 1..born
      /\ p.row = NoRow /\ born \in Nat
  BY <1>1, Suited DEF FindUser, Suits, JobFits, Job, RegistrationInv, Stores, StoresFit
<1> DEFINE n == p.name
<1>3. CASE accounts[n].inc = p.listed
  <2>1. PICK q : q = [p EXCEPT !.at = "mark", !.row = [accounts[n] EXCEPT !.deleting = TRUE], !.listed = 0]
    OBVIOUS
  <2>2. accounts[n] # NoRow /\ accounts[n] \in Rows
    BY <1>2, <1>3 DEF NoRow, RegistrationInv, Stores, StoresFit
  <2>3. [accounts[n] EXCEPT !.deleting = TRUE] \in Rows
    BY <2>2 DEF Rows
  <2>4. /\ q \in Job /\ q.at = "mark" /\ q.name = n /\ q.row = [accounts[n] EXCEPT !.deleting = TRUE]
        /\ q.job = p.job /\ q.listed = 0
    BY <1>2, <2>1, <2>3 DEF Job, Deleter
  <2>5. p.job = "delete"
    BY <1>2 DEF Suits, JobFits
  <2>6. /\ UNCHANGED <<emails, index, deleted, born>> /\ count' \in 0..MaxRegistrants
        /\ work' = [work EXCEPT ![w] = q] /\ accounts' = [accounts EXCEPT ![n].deleting = TRUE]
    BY <1>1, <1>3, <2>1 DEF FindUser, Put, RegistrationInv, Stores, StoresFit
  <2>7. QED
    BY <1>2, <2>2, <2>4, <2>5, <2>6, MarkKept
<1>4. CASE accounts[n].inc # p.listed
  <2>1. PICK q : q = [p EXCEPT !.at = "unindex", !.row.inc = p.listed, !.listed = 0]
    OBVIOUS
  <2>2. /\ q \in Job /\ q.at = "unindex" /\ q.name = n /\ q.row.inc = p.listed
        /\ q.job = p.job /\ q.listed = 0
    BY <1>2, <2>1 DEF Job, Deleter, NoRow, Rows
  <2>3. Doomed(p.listed) /\ Named(q)
    BY <1>2, <1>4, <2>2 DEF Suits, Named, Doomed, NoRow
  <2>4. JobFits(q)
    <3>1. p.job = "delete"
      BY <1>2 DEF Suits, JobFits
    <3>2. QED
      BY <1>2, <2>2, <3>1 DEF JobFits, Claimant, Keeper, Deleter
  <2>5. Suits(q)
    BY <2>2, <2>3, <2>4 DEF Suits, Concluded, Holding, Keeper
  <2>6. /\ UNCHANGED <<accounts, emails, index, deleted, born>> /\ count' \in 0..MaxRegistrants
        /\ work' = [work EXCEPT ![w] = q]
    BY <1>1, <1>4, <2>1 DEF FindUser, Put, RegistrationInv, Stores, StoresFit
  <2>7. QED
    BY <2>2, <2>5, <2>6, LocalKept
<1>5. QED
  BY <1>3, <1>4

(* A request that goes on, and one that goes on with what it read.         *)
RegistrationSteps == {"idle", "find", "create"} \cup Claimant \cup Deleter

LEMMA Going ==
  ASSUME NEW p \in Job, NEW s \in RegistrationSteps, NEW q, q = [p EXCEPT !.at = s]
  PROVE  /\ q \in Job /\ q.at = s /\ q.job = p.job /\ q.name = p.name /\ q.email = p.email
         /\ q.row = p.row /\ q.owner = p.owner /\ q.listed = p.listed /\ q.tries = p.tries
         /\ Claimed(q) = Claimed(p)
BY DEF Job, RegistrationSteps, Claimed

LEMMA ClaimantGoes ==
  ASSUME NEW p \in Job, Suits(p), p.at \in Claimant, NEW s \in Claimant \ {"prior", "reclaim", "confirm"},
         NEW q, q = [p EXCEPT !.at = s]
  PROVE  JobFits(q) /\ Named(q) /\ q.at \notin Deleter
<1>1. s \in RegistrationSteps
  BY DEF RegistrationSteps
<1>2. /\ q \in Job /\ q.at = s /\ q.job = p.job /\ q.name = p.name /\ q.email = p.email
      /\ q.row = p.row /\ q.owner = p.owner /\ q.listed = p.listed
  BY <1>1, Going
<1>3. JobFits(p) /\ Named(p)
  BY DEF Suits
<1>4. JobFits(q)
  BY <1>2, <1>3 DEF JobFits, Claimant, Keeper, Deleter
<1>5. QED
  BY <1>2, <1>3, <1>4 DEF Named, Claimant, Keeper, Deleter

LEMMA WorkGoes ==
  ASSUME NEW w, NEW s, Go(w, s), NEW p, p = work[w], NEW q, q = [p EXCEPT !.at = s]
  PROVE  work' = [work EXCEPT ![w] = q]
BY DEF Go, Put

LEMMA CountStays == ASSUME RegistrationInv, UNCHANGED count PROVE count' \in 0..MaxRegistrants
BY DEF RegistrationInv, Stores, StoresFit

(* The next step of a claimant, where it takes no step that needs more.    *)
LEMMA ClaimantKept ==
  ASSUME RegistrationInv, NEW w \in Registrants, work[w].at \in Claimant,
         NEW s \in {"owner", "again", "undo"}, Go(w, s),
         UNCHANGED <<accounts, emails, index, deleted, born, count>>
  PROVE  RegistrationInv'
<1>1. PICK p : p = work[w]
  OBVIOUS
<1>2. PICK q : q = [p EXCEPT !.at = s]
  OBVIOUS
<1>3. p \in Job /\ Suits(p) /\ p.at \in Claimant /\ s \in Claimant \ {"prior", "reclaim", "confirm"} /\ s \in RegistrationSteps
  BY <1>1, Suited DEF Claimant, Keeper, RegistrationSteps
<1>4. JobFits(q) /\ Named(q) /\ q.at \notin Deleter /\ q \in Job /\ q.at = s
  BY <1>2, <1>3, ClaimantGoes, Going
<1>5. Suits(q)
  BY <1>4 DEF Suits, Concluded, Holding, Keeper
<1>6. work' = [work EXCEPT ![w] = q] /\ count' \in 0..MaxRegistrants
  BY <1>1, <1>2, WorkGoes, CountStays
<1>7. QED
  BY <1>4, <1>5, <1>6, LocalKept

(* Taking an address that nobody has.                                      *)
LEMMA TakeKept ==
  ASSUME RegistrationInv, NEW w \in Registrants, work[w].at \in Claimant,
         emails[work[w].row.email] = NoOwner,
         emails' = [emails EXCEPT ![work[w].row.email] = Claimed(work[w])],
         Go(w, "list"), UNCHANGED <<accounts, index, deleted, born, count>>
  PROVE  RegistrationInv'
<1>1. PICK p : p = work[w]
  OBVIOUS
<1>2. PICK q : q = [p EXCEPT !.at = "list"]
  OBVIOUS
<1>3. /\ p \in Job /\ Suits(p) /\ p.at \in Claimant /\ Real(p.row) /\ p.name \in Names
      /\ "list" \in Claimant \ {"prior", "reclaim", "confirm"} /\ "list" \in RegistrationSteps
  BY <1>1, Suited DEF Claimant, Keeper, Deleter, RegistrationSteps, Suits, JobFits
<1>4. JobFits(q) /\ Named(q) /\ q.at \notin Deleter /\ q \in Job /\ q.at = "list" /\ q.row = p.row
      /\ Claimed(q) = Claimed(p)
  BY <1>2, <1>3, ClaimantGoes, Going
<1>5. PICK e, owner : e \in Emails /\ e = p.row.email /\ owner = Claimed(p)
  BY <1>3 DEF Real
<1>6. /\ emails[e] = NoOwner /\ emails' = [emails EXCEPT ![e] = owner]
      /\ emails \in [Emails -> [name : Names \cup {0}, inc : Nat]]
  BY <1>1, <1>5 DEF RegistrationInv, Stores, StoresFit
<1>7. AddressesStand
  <2>1. \A x \in Emails \ {e} : emails'[x] = emails[x]
    BY <1>6
  <2>2. \A n \in Names : accounts[n].inc # 0 => emails[e] # [name |-> n, inc |-> accounts[n].inc]
    BY <1>6 DEF NoOwner
  <2>3. QED
    BY <2>1, <2>2 DEF AddressesStand
<1>8. owner \in [name : Names, inc : 1..born]
  BY <1>3, <1>5 DEF Claimed, Real
<1>9. AddressMove(w, q, e, owner)
  <2>1. work' = [work EXCEPT ![w] = q]
    BY <1>1, <1>2, WorkGoes
  <2>2. Concluded(q)
    BY <1>4 DEF Concluded
  <2>3. QED
    BY <1>4, <1>5, <1>6, <1>7, <1>8, <2>1, <2>2 DEF AddressMove
<1>10. QED
  BY <1>4, <1>5, <1>9, AddressKept

LEMMA ReserveKept == ASSUME RegistrationInv, NEW w \in Registrants, Reserve(w) \/ ReserveAgain(w) PROVE RegistrationInv'
<1>1. work[w].at \in Claimant
  BY DEF Reserve, ReserveAgain, Claimant
<1>2. CASE emails[work[w].row.email] = NoOwner
  BY <1>1, <1>2, TakeKept DEF Reserve, ReserveAgain
<1>3. CASE emails[work[w].row.email] # NoOwner
  BY <1>1, <1>3, ClaimantKept DEF Reserve, ReserveAgain
<1>4. QED
  BY <1>2, <1>3

LEMMA LookOwnerKept == ASSUME RegistrationInv, NEW w \in Registrants, LookOwner(w) PROVE RegistrationInv'
<1>1. PICK p : p = work[w]
  OBVIOUS
<1>2. PICK owner : owner = emails[p.row.email]
  OBVIOUS
<1>3. PICK s : s = CASE owner = NoOwner -> "again" [] owner = Claimed(p) -> "list" [] OTHER -> "prior"
  OBVIOUS
<1>4. PICK q : q = [p EXCEPT !.owner = owner, !.at = s]
  OBVIOUS
<1>5. /\ p \in Job /\ Suits(p) /\ p.at = "owner" /\ Real(p.row) /\ p.row.registering /\ p.name \in Names
  BY <1>1, Suited DEF LookOwner, Claimant, Keeper, Deleter, Suits, JobFits
<1>6. /\ owner \in [name : Names \cup {0}, inc : Nat]
      /\ owner = NoOwner \/ (owner.name \in Names /\ owner.inc \in 1..born)
  BY <1>2, <1>5 DEF Real, RegistrationInv, Stores, StoresFit
<1>7. s \in {"again", "list", "prior"} /\ (s = "prior" => owner # NoOwner) /\ (s = "list" => owner = Claimed(p))
  BY <1>3
<1>8. /\ q \in Job /\ q.at = s /\ q.job = p.job /\ q.name = p.name /\ q.email = p.email
      /\ q.row = p.row /\ q.owner = owner /\ q.listed = p.listed
  BY <1>4, <1>5, <1>6, <1>7 DEF Job, Claimant, Keeper
<1>9. JobFits(q)
  BY <1>5, <1>6, <1>7, <1>8 DEF Suits, JobFits, Claimant, Keeper, Deleter
<1>10. Named(q) /\ Concluded(q) /\ q.at \notin Deleter
  BY <1>5, <1>7, <1>8 DEF Suits, Named, Concluded, Deleter
<1>11. Holding(q)
  BY <1>2, <1>7, <1>8 DEF Holding, Keeper, Claimed
<1>12. Suits(q)
  BY <1>9, <1>10, <1>11 DEF Suits
<1>13. work' = [work EXCEPT ![w] = q]
  BY <1>1, <1>2, <1>3, <1>4 DEF LookOwner, Put
<1>14. UNCHANGED <<accounts, emails, index, deleted, born>> /\ count' \in 0..MaxRegistrants
  BY CountStays DEF LookOwner
<1>15. QED
  BY <1>8, <1>12, <1>13, <1>14, LocalKept

LEMMA LookPriorKept == ASSUME RegistrationInv, NEW w \in Registrants, LookPrior(w) PROVE RegistrationInv'
<1>1. PICK p : p = work[w]
  OBVIOUS
<1>2. p \in Job /\ Suits(p) /\ JobFits(p) /\ p.at = "prior"
  BY <1>1, Suited DEF LookPrior, Suits
<1>3. UNCHANGED <<accounts, emails, index, deleted, born, count>>
  BY DEF LookPrior
<1>4. CASE Keeps(p)
  <2>1. Go(w, "undo") /\ work[w].at \in Claimant
    BY <1>1, <1>2, <1>4 DEF LookPrior, Claimant
  <2>2. QED
    BY <1>3, <2>1, ClaimantKept
<1>5. CASE ~Keeps(p)
  <2>1. PICK q : q = [p EXCEPT !.at = "reclaim"]
    OBVIOUS
  <2>2. /\ q \in Job /\ q.at = "reclaim" /\ q.job = p.job /\ q.name = p.name /\ q.email = p.email
        /\ q.row = p.row /\ q.owner = p.owner /\ q.listed = p.listed
    BY <1>2, <2>1, Going DEF RegistrationSteps, Claimant
  <2>3. JobFits(q)
    BY <1>2, <2>2 DEF JobFits, Claimant, Keeper, Deleter
  <2>4. Named(q) /\ Concluded(q)
    BY <1>2, <1>5, <2>2 DEF Suits, Named, Concluded, Keeps
  <2>5. Suits(q)
    BY <2>2, <2>3, <2>4 DEF Suits, Holding, Keeper, Deleter
  <2>6. work' = [work EXCEPT ![w] = q] /\ count' \in 0..MaxRegistrants
    BY <1>1, <1>3, <1>5, <2>1, WorkGoes, CountStays DEF LookPrior
  <2>7. QED
    BY <1>3, <2>2, <2>5, <2>6, LocalKept
<1>6. QED
  BY <1>4, <1>5

(* Only an owner that no longer keeps the address loses it.                *)
LEMMA ReclaimKept == ASSUME RegistrationInv, NEW w \in Registrants, Reclaim(w) PROVE RegistrationInv'
<1>1. PICK p : p = work[w]
  OBVIOUS
<1>2. /\ p \in Job /\ Suits(p) /\ JobFits(p) /\ Concluded(p) /\ p.at = "reclaim" /\ p.at \in Claimant
      /\ Real(p.row)
  BY <1>1, Suited DEF Reclaim, Suits, JobFits, Claimant
<1>3. CASE emails[p.row.email] # p.owner
  <2>1. Go(w, "undo") /\ UNCHANGED <<accounts, emails, index, deleted, born, count>>
    BY <1>1, <1>3 DEF Reclaim
  <2>2. QED
    BY <1>1, <1>2, <2>1, ClaimantKept
<1>4. CASE emails[p.row.email] = p.owner
  <2>1. PICK q : q = [p EXCEPT !.at = "again"]
    OBVIOUS
  <2>2. "again" \in Claimant \ {"prior", "reclaim", "confirm"} /\ "again" \in RegistrationSteps
    BY DEF Claimant, Keeper, RegistrationSteps
  <2>3. JobFits(q) /\ Named(q) /\ q.at \notin Deleter /\ q \in Job /\ q.at = "again"
    BY <1>2, <2>1, <2>2, ClaimantGoes, Going
  <2>4. PICK e, owner : e \in Emails /\ e = p.row.email /\ owner = NoOwner
    BY <1>2 DEF Real
  <2>5. /\ emails' = [emails EXCEPT ![e] = owner]
        /\ UNCHANGED <<accounts, index, deleted, born, count>> /\ Go(w, "again")
    BY <1>1, <1>4, <2>4 DEF Reclaim
  <2>6. ~Keeps(p) /\ emails \in [Emails -> [name : Names \cup {0}, inc : Nat]]
    BY <1>2 DEF Concluded, RegistrationInv, Stores, StoresFit
  <2>7. ASSUME NEW n \in Names, emails[e] = [name |-> n, inc |-> accounts[n].inc],
               accounts[n].inc # 0, accounts[n].email = e, ~accounts[n].deleting
        PROVE  FALSE
    <3>1. p.owner.name = n /\ p.owner.inc = accounts[n].inc
      BY <1>4, <2>4, <2>7
    <3>2. accounts[n].inc \notin deleted
      BY <2>7 DEF RegistrationInv, Stores, Buried, Doomed
    <3>3. QED
      BY <2>4, <2>6, <2>7, <3>1, <3>2 DEF Keeps
  <2>8. AddressesStand
    <3>1. \A x \in Emails \ {e} : emails'[x] = emails[x]
      BY <2>5, <2>6
    <3>2. QED
      BY <2>7, <3>1 DEF AddressesStand
  <2>9. AddressMove(w, q, e, owner)
    <3>1. work' = [work EXCEPT ![w] = q]
      BY <1>1, <2>1, <2>5, WorkGoes
    <3>2. Concluded(q) /\ q.at \notin Keeper
      BY <2>3 DEF Concluded, Keeper
    <3>3. QED
      BY <2>3, <2>4, <2>5, <2>8, <3>1, <3>2 DEF AddressMove
  <2>10. QED
    BY <2>3, <2>4, <2>9, AddressKept
<1>5. QED
  BY <1>3, <1>4

(* A request that ends, taking its row away or leaving it.                 *)
LEMMA RestingFits == Resting \in Job /\ Suits(Resting) /\ Suits(Resting)'
BY DEF Resting, Job, Rows, NoRow, NoOwner, Suits, JobFits, Named, Concluded, Holding,
       Claimant, Keeper, Deleter

(* Taking a row away, whatever the request does next.                      *)
LEMMA TakenKept ==
  ASSUME RegistrationInv, NEW w \in Registrants, NEW n \in Names, NEW q \in Job,
         UNCHANGED <<emails, index, deleted, born, count>>,
         accounts' = [accounts EXCEPT ![n] = NoRow], work' = [work EXCEPT ![w] = q], Suits(q)'
  PROVE  RegistrationInv'
<1>1. PICK acct \in Rows : acct = NoRow /\ acct.inc = 0
  <2>1. NoRow \in Rows /\ NoRow.inc = 0
    BY DEF Rows, NoRow
  <2>2. QED
    BY <2>1
<1>2. accounts \in [Names -> Rows]
  BY DEF RegistrationInv, Stores, StoresFit
<1>3. RowsAge
  BY <1>1, <1>2 DEF RowsAge
<1>4. RowMove(w, q, n, acct)
  BY <1>1, <1>2, <1>3, CountStays DEF RowMove
<1>5. QED
  BY <1>4, RowKept

LEMMA UndoKept == ASSUME RegistrationInv, NEW w \in Registrants, Undo(w) PROVE RegistrationInv'
<1>1. PICK p : p = work[w]
  OBVIOUS
<1>2. p.name \in Names
  BY <1>1, Suited DEF Undo, Suits, JobFits
<1>3. UNCHANGED <<emails, index, deleted, born, count>> /\ Rest(w)
  BY DEF Undo
<1>4. CASE accounts[p.name] = p.row
  <2>1. accounts' = [accounts EXCEPT ![p.name] = NoRow] /\ work' = [work EXCEPT ![w] = Resting]
    BY <1>1, <1>3, <1>4 DEF Undo, Rest, Put
  <2>2. PICK n \in Names : n = p.name
    BY <1>2
  <2>3. QED
    BY <1>3, <2>1, <2>2, RestingFits, TakenKept
<1>5. CASE accounts[p.name] # p.row
  <2>1. UNCHANGED accounts
    BY <1>1, <1>5 DEF Undo
  <2>2. QED
    BY <1>3, <2>1, RestKept
<1>6. QED
  BY <1>4, <1>5

LEMMA AbandonKept == ASSUME RegistrationInv, NEW w \in Registrants, Abandon(w) PROVE RegistrationInv'
BY RestKept DEF Abandon

(* A registration goes on with a row of its own, or with the pending one   *)
(* it found.                                                               *)
LEMMA CreateRowKept == ASSUME RegistrationInv, NEW w \in Registrants, CreateRow(w) PROVE RegistrationInv'
<1>1. PICK p : p = work[w]
  OBVIOUS
<1>2. /\ p \in Job /\ Suits(p) /\ JobFits(p) /\ Named(p) /\ p.at = "create" /\ p.name \in Names
      /\ p.email \in Emails /\ p.listed = 0 /\ born \in Nat /\ accounts \in [Names -> Rows]
  BY <1>1, Suited DEF CreateRow, Suits, JobFits, RegistrationInv, Stores, StoresFit
<1>3. UNCHANGED <<emails, index, deleted, count>>
  BY DEF CreateRow
<1>4. CASE p.row.registering /\ p.row.email = p.email /\ Go(w, "reserve") /\ UNCHANGED <<accounts, born>>
  <2>1. PICK q : q = [p EXCEPT !.at = "reserve"]
    OBVIOUS
  <2>2. /\ q \in Job /\ q.at = "reserve" /\ q.job = p.job /\ q.name = p.name /\ q.email = p.email
        /\ q.row = p.row /\ q.owner = p.owner /\ q.listed = p.listed
    BY <1>2, <2>1, Going DEF RegistrationSteps, Claimant
  <2>3. Real(p.row)
    BY <1>2, <1>4 DEF JobFits, Real, NoRow
  <2>4. JobFits(q) /\ Named(q)
    BY <1>2, <1>4, <2>2, <2>3 DEF JobFits, Named, Claimant, Keeper, Deleter
  <2>5. Suits(q)
    BY <2>2, <2>4 DEF Suits, Concluded, Holding, Keeper, Deleter
  <2>6. work' = [work EXCEPT ![w] = q] /\ count' \in 0..MaxRegistrants
    BY <1>1, <1>3, <1>4, <2>1, WorkGoes, CountStays
  <2>7. QED
    BY <1>3, <1>4, <2>2, <2>5, <2>6, LocalKept
<1>5. CASE Rest(w) /\ UNCHANGED <<accounts, born>>
  BY <1>3, <1>5, RestKept
<1>6. ASSUME accounts[p.name] = NoRow, born' = born + 1,
             NEW new, new = [inc |-> born + 1, email |-> p.email, registering |-> TRUE, deleting |-> FALSE],
             accounts' = [accounts EXCEPT ![p.name] = new],
             Put(w, [p EXCEPT !.at = "reserve", !.row = new])
      PROVE  RegistrationInv'
  <2>1. PICK n, q : n \in Names /\ n = p.name /\ q = [p EXCEPT !.at = "reserve", !.row = new]
    BY <1>2
  <2>2. /\ new \in Rows /\ new.inc = born + 1 /\ new.email = p.email /\ new.registering /\ ~new.deleting
    BY <1>2, <1>6 DEF Rows
  <2>3. /\ q \in Job /\ q.at = "reserve" /\ q.job = p.job /\ q.name = n /\ q.email = p.email
        /\ q.row = new /\ q.owner = p.owner /\ q.listed = 0
    BY <1>2, <2>1, <2>2 DEF Job, Claimant
  <2>4. accounts' = [accounts EXCEPT ![n] = new] /\ \A m \in Names \ {n} : accounts'[m] = accounts[m]
    BY <1>2, <1>6, <2>1
  <2>5. RowsAge
    BY <1>2, <1>6, <2>2, <2>4 DEF RowsAge
  <2>6. \A m \in Names : accounts[m].inc # born + 1
    BY <1>2 DEF RegistrationInv, Stores, StoresFit, Real, NoRow
  <2>7. Named(q)'
    BY <1>2, <2>2, <2>3, <2>4, <2>6 DEF Named
  <2>8. JobFits(q)'
    <3>1. Real(new)' /\ 0 <= born'
      BY <1>2, <1>6, <2>2 DEF Real
    <3>2. QED
      BY <1>2, <2>1, <2>2, <2>3, <3>1 DEF JobFits, Claimant, Keeper, Deleter
  <2>9. Suits(q)'
    BY <2>3, <2>7, <2>8 DEF Suits, Concluded, Holding, Keeper, Deleter
  <2>10. RowMove(w, q, n, new)
    <3>1. work' = [work EXCEPT ![w] = q]
      BY <1>6, <2>1 DEF Put
    <3>2. ~accounts[n].registering
      BY <1>6, <2>1 DEF NoRow
    <3>3. new.inc \in 1..born' /\ new.email \in Emails
      BY <1>2, <1>6, <2>2
    <3>4. QED
      BY <1>3, <1>6, <2>2, <2>4, <2>5, <2>9, <3>1, <3>2, <3>3, CountStays DEF RowMove
  <2>11. QED
    BY <2>1, <2>2, <2>3, <2>10, RowKept
<1>7. QED
  <2>1. PICK new : new = [inc |-> born + 1, email |-> p.email, registering |-> TRUE, deleting |-> FALSE]
    OBVIOUS
  <2>2. \/ p.row.registering /\ p.row.email = p.email /\ Go(w, "reserve") /\ UNCHANGED <<accounts, born>>
        \/ Rest(w) /\ UNCHANGED <<accounts, born>>
        \/ /\ accounts[p.name] = NoRow /\ born' = born + 1
           /\ accounts' = [accounts EXCEPT ![p.name] = new]
           /\ Put(w, [p EXCEPT !.at = "reserve", !.row = new])
    BY <1>1, <2>1 DEF CreateRow
  <2>3. QED
    BY <1>4, <1>5, <1>6, <2>1, <2>2

LEMMA ListLookKept == ASSUME RegistrationInv, NEW w \in Registrants, ListLook(w) PROVE RegistrationInv'
<1>1. PICK p : p = work[w]
  OBVIOUS
<1>2. /\ p \in Job /\ Suits(p) /\ JobFits(p) /\ Named(p) /\ Holding(p) /\ p.at = "list" /\ p.name \in Names
      /\ Real(p.row) /\ p.row.registering /\ born \in Nat
  BY <1>1, Suited DEF ListLook, Suits, JobFits, Claimant, Keeper, RegistrationInv, Stores, StoresFit
<1>3. PICK i : i = index[p.name]
  OBVIOUS
<1>4. /\ i \in Nat /\ i <= born /\ \A m \in Names : accounts[m].inc # 0 /\ i = accounts[m].inc => p.name = m
  BY <1>2, <1>3 DEF RegistrationInv, Stores, StoresFit, Placed
<1>5. PICK s : s = CASE i = p.row.inc -> "enable" [] i = 0 -> "insert" [] OTHER -> "confirm"
  OBVIOUS
<1>6. PICK q : q = [p EXCEPT !.owner = NoOwner, !.listed = i, !.at = s]
  OBVIOUS
<1>7. /\ s \in {"enable", "insert", "confirm"} /\ (s = "enable" => i = p.row.inc)
      /\ (s = "insert" => i = 0) /\ (s = "confirm" => i # 0 /\ i # p.row.inc)
  BY <1>5
<1>8. /\ q \in Job /\ q.at = s /\ q.job = p.job /\ q.name = p.name /\ q.email = p.email
      /\ q.row = p.row /\ q.listed = i
  <2>1. NoOwner \in [name : Names \cup {0}, inc : Nat]
    BY DEF NoOwner
  <2>2. s \in Claimant
    BY <1>7 DEF Claimant, Keeper
  <2>3. QED
    BY <1>2, <1>4, <1>6, <2>1, <2>2 DEF Job
<1>9. JobFits(q)
  BY <1>2, <1>4, <1>7, <1>8 DEF JobFits, Claimant, Keeper, Deleter
<1>10. Named(q) /\ Concluded(q)
  BY <1>2, <1>4, <1>7, <1>8 DEF Named, Concluded
<1>11. Holding(q)
  BY <1>2, <1>3, <1>7, <1>8 DEF Holding, Keeper, Claimed
<1>12. Suits(q)
  BY <1>7, <1>8, <1>9, <1>10, <1>11 DEF Suits, Deleter
<1>13. work' = [work EXCEPT ![w] = q] /\ UNCHANGED <<accounts, emails, index, deleted, born, count>>
  BY <1>1, <1>3, <1>5, <1>6 DEF ListLook, Put
<1>14. QED
  BY <1>8, <1>12, <1>13, CountStays, LocalKept

(* Only the incarnation whose row is there replaces another in the index.  *)
LEMMA ListConfirmKept == ASSUME RegistrationInv, NEW w \in Registrants, ListConfirm(w) PROVE RegistrationInv'
<1>1. PICK p : p = work[w]
  OBVIOUS
<1>2. /\ p \in Job /\ Suits(p) /\ JobFits(p) /\ Named(p) /\ Holding(p) /\ p.at = "confirm" /\ p.name \in Names
  BY <1>1, Suited DEF ListConfirm, Suits, JobFits
<1>3. UNCHANGED <<accounts, emails, index, deleted, born, count>>
  BY DEF ListConfirm
<1>4. CASE accounts[p.name].inc # p.row.inc
  BY <1>1, <1>3, <1>4, RestKept DEF ListConfirm
<1>5. CASE accounts[p.name].inc = p.row.inc
  <2>1. PICK q : q = [p EXCEPT !.at = "insert"]
    OBVIOUS
  <2>2. /\ q \in Job /\ q.at = "insert" /\ q.job = p.job /\ q.name = p.name /\ q.email = p.email
        /\ q.row = p.row /\ q.owner = p.owner /\ q.listed = p.listed /\ Claimed(q) = Claimed(p)
    BY <1>2, <2>1, Going DEF RegistrationSteps, Claimant, Keeper
  <2>3. JobFits(q) /\ Named(q)
    BY <1>2, <2>2 DEF JobFits, Named, Claimant, Keeper, Deleter
  <2>4. Concluded(q)
    BY <1>2, <1>5, <2>2 DEF Concluded, JobFits
  <2>5. Holding(q)
    BY <1>2, <2>2 DEF Holding, Keeper
  <2>6. Suits(q)
    BY <2>2, <2>3, <2>4, <2>5 DEF Suits, Deleter
  <2>7. work' = [work EXCEPT ![w] = q] /\ count' \in 0..MaxRegistrants
    BY <1>1, <1>3, <1>5, <2>1, WorkGoes, CountStays DEF ListConfirm
  <2>8. QED
    BY <1>3, <2>2, <2>6, <2>7, LocalKept
<1>6. QED
  BY <1>4, <1>5

(* The pointer goes to the incarnation whose row was seen, or to no row.   *)
LEMMA ListInsertKept == ASSUME RegistrationInv, NEW w \in Registrants, ListInsert(w) PROVE RegistrationInv'
<1>1. PICK p : p = work[w]
  OBVIOUS
<1>2. /\ p \in Job /\ Suits(p) /\ JobFits(p) /\ Named(p) /\ Concluded(p) /\ Holding(p) /\ p.at = "insert"
      /\ p.name \in Names /\ Real(p.row) /\ p.row.registering /\ born \in Nat
  BY <1>1, Suited DEF ListInsert, Suits, JobFits, Claimant, Keeper, RegistrationInv, Stores, StoresFit
<1>3. UNCHANGED <<accounts, emails, deleted, born, count>>
  BY DEF ListInsert
<1>4. CASE index[p.name] # p.listed /\ Rest(w)
  <2>1. UNCHANGED index
    BY <1>1, <1>4 DEF ListInsert
  <2>2. QED
    BY <1>3, <1>4, <2>1, RestKept
<1>5. CASE index[p.name] # p.listed /\ Put(w, [p EXCEPT !.at = "list", !.tries = @ + 1])
  <2>1. PICK q : q = [p EXCEPT !.at = "list", !.tries = @ + 1]
    OBVIOUS
  <2>2. /\ q \in Job /\ q.at = "list" /\ q.job = p.job /\ q.name = p.name /\ q.email = p.email
        /\ q.row = p.row /\ q.owner = p.owner /\ q.listed = p.listed
    <3>1. p.tries + 1 \in Nat /\ "list" \in Claimant
      BY <1>2 DEF Job, Claimant, Keeper
    <3>2. QED
      BY <1>2, <2>1, <3>1 DEF Job
  <2>3. JobFits(q) /\ Named(q)
    BY <1>2, <2>2 DEF JobFits, Named, Claimant, Keeper, Deleter
  <2>4. Suits(q)
    BY <1>2, <2>2, <2>3 DEF Suits, Concluded, Holding, Keeper, Claimed, Deleter
  <2>5. UNCHANGED index /\ work' = [work EXCEPT ![w] = q]
    BY <1>1, <1>5, <2>1 DEF ListInsert, Put
  <2>6. QED
    BY <1>3, <2>2, <2>4, <2>5, CountStays, LocalKept
<1>6. ASSUME index[p.name] = p.listed, index' = [index EXCEPT ![p.name] = p.row.inc],
             Put(w, [p EXCEPT !.at = "enable", !.tries = 0, !.listed = 0])
      PROVE  RegistrationInv'
  <2>1. PICK n, i, q : /\ n \in Names /\ n = p.name /\ i \in 1..born /\ i = p.row.inc
                       /\ q = [p EXCEPT !.at = "enable", !.tries = 0, !.listed = 0]
    BY <1>2 DEF Real
  <2>2. /\ q \in Job /\ q.at = "enable" /\ q.job = p.job /\ q.name = p.name /\ q.email = p.email
        /\ q.row = p.row /\ q.owner = p.owner /\ q.listed = 0
    BY <1>2, <2>1 DEF Job, Claimant, Keeper
  <2>3. index[n] = p.listed /\ index' = [index EXCEPT ![n] = i] /\ index \in [Names -> Nat]
    BY <1>6, <2>1 DEF RegistrationInv, Stores, StoresFit
  <2>4. index'[n] = i /\ \A m \in Names \ {n} : index'[m] = index[m]
    BY <2>1, <2>3
  <2>5. PointersStand
    <3>1. p.listed = 0 \/ accounts[n].inc # p.listed
      BY <1>2, <2>1 DEF Concluded
    <3>2. QED
      BY <2>3, <2>4, <3>1 DEF PointersStand
  <2>6. \A m \in Names : accounts[m].inc = i => m = n
    BY <1>2, <2>1 DEF Named
  <2>7. JobFits(q) /\ Named(q)
    BY <1>2, <2>2 DEF JobFits, Named, Claimant, Keeper, Deleter
  <2>8. Holding(q)'
    BY <1>2, <1>3, <2>1, <2>2, <2>4 DEF Holding, Keeper, Claimed
  <2>9. PointerMove(w, q, n, i)
    <3>1. work' = [work EXCEPT ![w] = q]
      BY <1>6, <2>1 DEF Put
    <3>2. Concluded(q) /\ q.at \notin Deleter
      BY <2>2 DEF Concluded, Deleter
    <3>3. QED
      BY <1>3, <2>3, <2>5, <2>6, <2>7, <2>8, <3>1, <3>2 DEF PointerMove
  <2>10. QED
    BY <2>1, <2>2, <2>9, PointerKept
<1>7. QED
  <2>1. \/ index[p.name] # p.listed /\ Rest(w)
        \/ index[p.name] # p.listed /\ Put(w, [p EXCEPT !.at = "list", !.tries = @ + 1])
        \/ /\ index[p.name] = p.listed /\ index' = [index EXCEPT ![p.name] = p.row.inc]
           /\ Put(w, [p EXCEPT !.at = "enable", !.tries = 0, !.listed = 0])
    BY <1>1 DEF ListInsert
  <2>2. QED
    BY <1>4, <1>5, <1>6, <2>1

(* A row goes live only with its address and its pointer.                  *)
LEMMA EnableRowKept == ASSUME RegistrationInv, NEW w \in Registrants, EnableRow(w) PROVE RegistrationInv'
<1>1. PICK p : p = work[w]
  OBVIOUS
<1>2. /\ p \in Job /\ Suits(p) /\ JobFits(p) /\ Holding(p) /\ p.at = "enable" /\ p.at \in Keeper
      /\ p.name \in Names /\ Real(p.row) /\ p.row.registering /\ accounts \in [Names -> Rows] /\ born \in Nat
  BY <1>1, Suited DEF EnableRow, Suits, JobFits, Claimant, Keeper, RegistrationInv, Stores, StoresFit
<1>3. UNCHANGED <<emails, index, deleted, born, count>> /\ Rest(w)
  BY DEF EnableRow
<1>4. CASE accounts[p.name] # p.row
  <2>1. UNCHANGED accounts
    BY <1>1, <1>4 DEF EnableRow
  <2>2. QED
    BY <1>3, <2>1, RestKept
<1>5. CASE accounts[p.name] = p.row
  <2>1. PICK n, acct : n \in Names /\ n = p.name /\ acct = [accounts[n] EXCEPT !.registering = FALSE]
    BY <1>2
  <2>2. /\ acct \in Rows /\ acct.inc = p.row.inc /\ acct.email = p.row.email /\ acct.deleting = p.row.deleting
        /\ accounts[n] = p.row /\ accounts[n] \in Rows
    BY <1>2, <1>5, <2>1 DEF Rows
  <2>3. accounts' = [accounts EXCEPT ![n] = acct]
    BY <1>1, <1>5, <2>1 DEF EnableRow
  <2>4. accounts'[n] = acct /\ \A m \in Names \ {n} : accounts'[m] = accounts[m]
    BY <1>2, <2>1, <2>3
  <2>5. RowsAge
    <3>1. accounts'[n] = [accounts[n] EXCEPT !.registering = FALSE]
      BY <2>1, <2>4
    <3>2. accounts[n].inc # 0
      BY <1>2, <2>2 DEF Real
    <3>3. QED
      BY <1>2, <1>3, <2>4, <3>1, <3>2 DEF RowsAge
  <2>6. ~acct.deleting => /\ emails[accounts[n].email] = [name |-> n, inc |-> accounts[n].inc]
                         /\ index[n] = accounts[n].inc
    BY <1>2, <1>5, <2>1, <2>2 DEF Holding, Claimed
  <2>7. acct.inc \in 1..born' /\ acct.email \in Emails
    BY <1>2, <1>3, <2>2 DEF Real
  <2>8. RowMove(w, Resting, n, acct)
    <3>1. work' = [work EXCEPT ![w] = Resting]
      BY <1>3 DEF Rest, Put
    <3>2. acct.inc = accounts[n].inc
      BY <2>2
    <3>3. QED
      BY <1>3, <2>3, <2>5, <2>6, <2>7, <3>1, <3>2, RestingFits, CountStays DEF RowMove
  <2>9. QED
    BY <2>1, <2>2, <2>8, RestingFits, RowKept
<1>6. QED
  BY <1>4, <1>5

(* The deleter goes on with the row it marked.                             *)
LEMMA DeleterGoes ==
  ASSUME NEW p \in Job, Suits(p), p.at \in Deleter, NEW s \in Deleter \cup {"create"},
         p.at = "unindex" => s \in {"unindex", "create"},
         s = "create" => p.job = "register",
         NEW q, q = [p EXCEPT !.at = s]
  PROVE  JobFits(q) /\ Named(q) /\ Concluded(q) /\ Suits(q) /\ q \in Job /\ q.at \notin Keeper
<1>1. s \in RegistrationSteps
  BY DEF RegistrationSteps
<1>2. /\ q \in Job /\ q.at = s /\ q.job = p.job /\ q.name = p.name /\ q.email = p.email
      /\ q.row = p.row /\ q.owner = p.owner /\ q.listed = p.listed
  BY <1>1, Going
<1>3. JobFits(p) /\ Named(p) /\ Doomed(p.row.inc)
  BY DEF Suits
<1>4. JobFits(q)
  BY <1>2, <1>3 DEF JobFits, Real, Claimant, Keeper, Deleter
<1>5. Named(q) /\ Concluded(q) /\ q.at \notin Keeper
  BY <1>2, <1>3 DEF Named, Concluded, Keeper, Deleter
<1>6. QED
  BY <1>2, <1>3, <1>4, <1>5 DEF Suits, Holding

LEMMA DeleterKept ==
  ASSUME RegistrationInv, NEW w \in Registrants, work[w].at \in Deleter,
         NEW s \in Deleter \cup {"create"}, Go(w, s),
         work[w].at = "unindex" => s \in {"unindex", "create"},
         s = "create" => work[w].job = "register",
         UNCHANGED <<accounts, emails, index, deleted, born, count>>
  PROVE  RegistrationInv'
<1>1. PICK p : p = work[w]
  OBVIOUS
<1>2. PICK q : q = [p EXCEPT !.at = s]
  OBVIOUS
<1>3. p \in Job /\ Suits(p)
  BY <1>1, Suited
<1>4. Suits(q) /\ q \in Job
  BY <1>1, <1>2, <1>3, DeleterGoes
<1>5. work' = [work EXCEPT ![w] = q] /\ count' \in 0..MaxRegistrants
  BY <1>1, <1>2, WorkGoes, CountStays
<1>6. QED
  BY <1>4, <1>5, LocalKept

LEMMA LookAddressKept == ASSUME RegistrationInv, NEW w \in Registrants, LookAddress(w) PROVE RegistrationInv'
<1>1. /\ work[w].at \in Deleter /\ work[w].at # "unindex"
      /\ Go(w, "release") \/ Go(w, "remove")
      /\ UNCHANGED <<accounts, emails, index, deleted, born, count>>
      /\ "release" \in Deleter /\ "remove" \in Deleter
  BY DEF LookAddress, Deleter
<1>2. CASE Go(w, "release")
  BY <1>1, <1>2, DeleterKept
<1>3. CASE Go(w, "remove")
  BY <1>1, <1>3, DeleterKept
<1>4. QED
  BY <1>1, <1>2, <1>3

(* What a deletion has begun to fence is being deleted.                    *)
LEMMA MarkDeletedKept == ASSUME RegistrationInv, NEW w \in Registrants, MarkDeleted(w) PROVE RegistrationInv'
<1>1. PICK p : p = work[w]
  OBVIOUS
<1>2. PICK q : q = [p EXCEPT !.at = "address"]
  OBVIOUS
<1>3. /\ p \in Job /\ Suits(p) /\ JobFits(p) /\ p.at = "mark" /\ p.at \in Deleter /\ Real(p.row)
      /\ Doomed(p.row.inc) /\ "address" \in Deleter
  BY <1>1, Suited DEF MarkDeleted, Suits, JobFits, Deleter
<1>4. Suits(q) /\ q \in Job /\ q.at \notin Keeper
  BY <1>2, <1>3, DeleterGoes
<1>5. PICK i : i \in 1..born /\ i = p.row.inc
  BY <1>3 DEF Real
<1>6. /\ deleted' = deleted \cup {i} /\ UNCHANGED <<accounts, emails, index, born, count>>
      /\ Doomed(i) /\ work' = [work EXCEPT ![w] = q]
  BY <1>1, <1>2, <1>3, <1>5, WorkGoes DEF MarkDeleted
<1>7. Effects
  BY <1>5, <1>6 DEF Effects, RowsAge, AddressesStand, PointersStand, FencedOff
<1>8. Stores'
  <2>1. StoresFit'
    <3>1. StoresFit /\ work' \in [Registrants -> Job]
      BY <1>4, <1>6 DEF RegistrationInv, Stores, StoresFit
    <3>2. QED
      BY <1>5, <1>6, <3>1 DEF StoresFit, Real
  <2>2. Placed /\ StoresFit /\ Stores
    BY DEF RegistrationInv, Stores
  <2>3. \A n \in Names : accounts'[n].inc \notin 1..born /\ accounts'[n].inc # 0 =>
            \A m \in Names : accounts'[m].inc = accounts'[n].inc => m = n
    BY <1>6, <2>2 DEF Placed
  <2>4. \A n, m \in Names : index'[m] = index[m]
    BY <1>6
  <2>5. \A n \in Names : accounts'[n].registering = accounts[n].registering
    BY <1>6
  <2>6. QED
    BY <1>7, <2>1, <2>2, <2>3, <2>4, <2>5, StoresKept
<1>9. Suits(q)'
  <2>1. JobFits(q)' /\ Named(q)' /\ (q.at \in Deleter => Doomed(q.row.inc)')
    BY <1>4, <1>6 DEF Suits, JobFits, Real, Named, Doomed
  <2>2. q.at = "address"
    BY <1>2, <1>3 DEF Job
  <2>3. QED
    BY <1>4, <2>1, <2>2 DEF Suits, Concluded, Holding
<1>10. QED
  BY <1>4, <1>6, <1>7, <1>8, <1>9, MoveKept

(* A deletion releases the address of its own incarnation only.            *)
LEMMA ReleaseAddressKept == ASSUME RegistrationInv, NEW w \in Registrants, ReleaseAddress(w) PROVE RegistrationInv'
<1>1. PICK p : p = work[w]
  OBVIOUS
<1>2. /\ p \in Job /\ Suits(p) /\ JobFits(p) /\ p.at = "release" /\ p.at \in Deleter /\ Real(p.row)
      /\ Doomed(p.row.inc) /\ "remove" \in Deleter /\ Go(w, "remove")
      /\ UNCHANGED <<accounts, index, deleted, born, count>>
  BY <1>1, Suited DEF ReleaseAddress, Suits, JobFits, Deleter
<1>3. CASE emails[p.row.email] # Claimed(p)
  <2>1. UNCHANGED emails
    BY <1>1, <1>3 DEF ReleaseAddress
  <2>2. QED
    BY <1>1, <1>2, <2>1, DeleterKept
<1>4. CASE emails[p.row.email] = Claimed(p)
  <2>1. PICK q : q = [p EXCEPT !.at = "remove"]
    OBVIOUS
  <2>2. Suits(q) /\ JobFits(q) /\ Named(q) /\ Concluded(q) /\ q \in Job /\ q.at \notin Keeper
    BY <1>2, <2>1, DeleterGoes
  <2>3. PICK e, owner : e \in Emails /\ e = p.row.email /\ owner = NoOwner
    BY <1>2 DEF Real
  <2>4. emails' = [emails EXCEPT ![e] = owner] /\ emails \in [Emails -> [name : Names \cup {0}, inc : Nat]]
    BY <1>1, <1>4, <2>3 DEF ReleaseAddress, RegistrationInv, Stores, StoresFit
  <2>5. AddressesStand
    <3>1. \A x \in Emails \ {e} : emails'[x] = emails[x]
      BY <2>4
    <3>2. \A n \in Names : emails[e] = [name |-> n, inc |-> accounts[n].inc] => accounts[n].deleting
      BY <1>2, <1>4, <2>3 DEF Claimed, Doomed
    <3>3. QED
      BY <3>1, <3>2 DEF AddressesStand
  <2>6. AddressMove(w, q, e, owner)
    <3>1. work' = [work EXCEPT ![w] = q]
      BY <1>1, <1>2, <2>1, WorkGoes
    <3>2. q.at \in Deleter => Doomed(q.row.inc)
      BY <2>2 DEF Suits
    <3>3. QED
      BY <1>2, <2>2, <2>3, <2>4, <2>5, <3>1, <3>2 DEF AddressMove
  <2>7. QED
    BY <2>2, <2>3, <2>6, AddressKept
<1>5. QED
  BY <1>3, <1>4

LEMMA RemoveKept == ASSUME RegistrationInv, NEW w \in Registrants, Remove(w) PROVE RegistrationInv'
<1>1. PICK p : p = work[w]
  OBVIOUS
<1>2. /\ p \in Job /\ Suits(p) /\ JobFits(p) /\ Named(p) /\ p.at = "remove" /\ p.at \in Deleter
      /\ Doomed(p.row.inc) /\ p.name \in Names /\ accounts \in [Names -> Rows]
      /\ {"unindex", "create"} \subseteq Deleter \cup {"create"}
  BY <1>1, Suited DEF Remove, Suits, JobFits, Deleter, RegistrationInv, Stores, StoresFit
<1>3. UNCHANGED <<emails, index, deleted, born, count>>
  BY DEF Remove
<1>4. CASE accounts[p.name] # p.row
  <2>1. UNCHANGED accounts
    BY <1>1, <1>4 DEF Remove
  <2>2. CASE p.job = "register"
    <3>1. Go(w, "create")
      BY <1>1, <1>4, <2>2 DEF Remove
    <3>2. QED
      BY <1>1, <1>2, <1>3, <2>1, <2>2, <3>1, DeleterKept
  <2>3. CASE p.job # "register"
    BY <1>1, <1>3, <1>4, <2>1, <2>3, RestKept DEF Remove
  <2>4. QED
    BY <2>2, <2>3
<1>5. CASE accounts[p.name] = p.row
  <2>1. PICK n, q : n \in Names /\ n = p.name /\ q = [p EXCEPT !.at = "unindex"]
    BY <1>2
  <2>2. Suits(q) /\ q \in Job /\ q.at \notin Keeper /\ q.at = "unindex" /\ q.row = p.row /\ q.name = p.name
    <3>1. Suits(q) /\ q \in Job /\ q.at \notin Keeper
      BY <1>2, <2>1, DeleterGoes
    <3>2. QED
      BY <1>2, <2>1, <3>1, Going DEF RegistrationSteps, Deleter
  <2>3. accounts' = [accounts EXCEPT ![n] = NoRow] /\ work' = [work EXCEPT ![w] = q]
    BY <1>1, <1>5, <2>1, WorkGoes DEF Remove
  <2>4. \A m \in Names : accounts'[m] = accounts[m] \/ accounts'[m] = NoRow
    BY <1>2, <2>3
  <2>5. Named(q)'
    BY <2>2, <2>4 DEF Suits, Named, NoRow
  <2>6. Doomed(q.row.inc)'
    <3>1. q.row.inc # 0
      BY <1>2, <2>2 DEF JobFits, Deleter, Real
    <3>2. QED
      BY <1>2, <2>2, <2>4, <3>1 DEF Doomed, NoRow
  <2>7. JobFits(q)'
    BY <1>3, <2>2 DEF Suits, JobFits, Real
  <2>8. Suits(q)'
    BY <2>2, <2>5, <2>6, <2>7 DEF Suits, Concluded, Holding
  <2>9. QED
    BY <1>3, <2>1, <2>2, <2>3, <2>8, TakenKept
<1>6. QED
  BY <1>4, <1>5

(* A deletion drops the pointer to its own incarnation only.               *)
LEMMA UnindexKept == ASSUME RegistrationInv, NEW w \in Registrants, Unindex(w) PROVE RegistrationInv'
<1>1. PICK p : p = work[w]
  OBVIOUS
<1>2. /\ p \in Job /\ Suits(p) /\ JobFits(p) /\ p.at = "unindex" /\ p.at \in Deleter
      /\ Doomed(p.row.inc) /\ p.name \in Names /\ index \in [Names -> Nat] /\ "create" \in Deleter \cup {"create"}
  BY <1>1, Suited DEF Unindex, Suits, JobFits, Deleter, RegistrationInv, Stores, StoresFit
<1>3. UNCHANGED <<accounts, emails, deleted, born, count>>
  BY DEF Unindex
<1>4. CASE index[p.name] # p.row.inc
  <2>1. UNCHANGED index
    BY <1>1, <1>4 DEF Unindex
  <2>2. CASE p.job = "register"
    <3>1. Go(w, "create")
      BY <1>1, <2>2 DEF Unindex
    <3>2. QED
      BY <1>1, <1>2, <1>3, <2>1, <2>2, <3>1, DeleterKept
  <2>3. CASE p.job # "register"
    BY <1>1, <1>3, <2>1, <2>3, RestKept DEF Unindex
  <2>4. QED
    BY <2>2, <2>3
<1>5. CASE index[p.name] = p.row.inc
  <2>1. PICK n, i : n \in Names /\ n = p.name /\ i \in 0..born /\ i = 0
    BY <1>2 DEF RegistrationInv, Stores, StoresFit
  <2>2. index' = [index EXCEPT ![n] = i] /\ \A m \in Names \ {n} : index'[m] = index[m]
    BY <1>1, <1>2, <1>5, <2>1 DEF Unindex
  <2>3. PointersStand
    BY <1>2, <1>5, <2>1, <2>2 DEF PointersStand, Doomed
  <2>4. ASSUME NEW q \in Job, Suits(q), q.at \notin Keeper, work' = [work EXCEPT ![w] = q]
        PROVE  RegistrationInv'
    <3>1. PointerMove(w, q, n, i)
      BY <1>3, <2>1, <2>2, <2>3, <2>4 DEF PointerMove, Suits, Holding
    <3>2. QED
      BY <2>1, <2>4, <3>1, PointerKept
  <2>5. CASE p.job = "register"
    <3>1. PICK q : q = [p EXCEPT !.at = "create"]
      OBVIOUS
    <3>2. Suits(q) /\ q \in Job /\ q.at \notin Keeper
      BY <1>2, <2>5, <3>1, DeleterGoes
    <3>3. work' = [work EXCEPT ![w] = q]
      BY <1>1, <2>5, <3>1, WorkGoes DEF Unindex
    <3>4. QED
      BY <2>4, <3>2, <3>3
  <2>6. CASE p.job # "register"
    <3>1. work' = [work EXCEPT ![w] = Resting] /\ Resting.at \notin Keeper
      BY <1>1, <2>6 DEF Unindex, Rest, Put, Resting, Keeper
    <3>2. QED
      BY <2>4, <3>1, RestingFits
  <2>7. QED
    BY <2>5, <2>6
<1>6. QED
  BY <1>4, <1>5

LEMMA RegistrationStepKept ==
  ASSUME RegistrationAssumption, RegistrationInv, NEW w \in Registrants, RegistrationStep(w)
  PROVE  RegistrationInv'
<1>1. CASE Register(w) \/ Delete(w) \/ DeleteUser(w) \/ FindUser(w) \/ CreateRow(w)
  BY <1>1, RegisterKept, DeleteKept, DeleteUserKept, FindUserKept, CreateRowKept
<1>2. CASE Reserving(w)
  BY <1>2, ReserveKept, LookOwnerKept, LookPriorKept, ReclaimKept DEF Reserving
<1>3. CASE Listing(w) \/ EnableRow(w) \/ Undo(w)
  BY <1>3, ListLookKept, ListConfirmKept, ListInsertKept, EnableRowKept, UndoKept DEF Listing
<1>4. CASE Deleting(w) \/ Abandon(w)
  BY <1>4, MarkDeletedKept, LookAddressKept, ReleaseAddressKept, RemoveKept, UnindexKept, AbandonKept
  DEF Deleting
<1>5. QED
  BY <1>1, <1>2, <1>3, <1>4 DEF RegistrationStep

LEMMA RegistrationIdle == ASSUME RegistrationInv, UNCHANGED registrationVars PROVE RegistrationInv'
<1>1. Effects
  BY DEF registrationVars, Effects, RowsAge, AddressesStand, PointersStand, FencedOff
<1>2. Stores'
  BY DEF registrationVars, RegistrationInv, Stores, StoresFit, Real, Placed, Buried, Doomed,
         LiveIsReachable, Live
<1>3. ASSUME NEW w \in Registrants PROVE Own(w)'
  BY <1>1, OthersKept DEF RegistrationInv, registrationVars
<1>4. QED
  BY <1>2, <1>3 DEF RegistrationInv

(* A live account keeps its address and its pointer, and is not fenced,    *)
(* for any names, addresses and requests, however they interleave and die  *)
(* (reserveEmail, AuthMaintenance.index, finishDeletion).                  *)
THEOREM AccountsReachable == RegistrationSpec => []LiveIsReachable
<1>1. RegistrationInit => RegistrationInv
  BY RegistrationInvInit, RegistrationAssumption
<1>2. RegistrationInv /\ [RegistrationNext]_registrationVars => RegistrationInv'
  BY RegistrationAssumption, RegistrationStepKept, RegistrationIdle DEF RegistrationNext
<1>3. RegistrationInv => LiveIsReachable
  BY DEF RegistrationInv, Stores
<1>4. QED
  BY <1>1, <1>2, <1>3, PTL DEF RegistrationSpec

=============================================================================
