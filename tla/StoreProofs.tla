---------------------------- MODULE StoreProofs ----------------------------
(***************************************************************************)
(* Proofs about what outlives the process that wrote it.  RecordStore, for *)
(* any rows, values, keys and dispatches: unique contents, what an         *)
(* idempotency key was answered, who consumed a value.  BlobDisk, the lock *)
(* of the compiler and CompilerBuild: whole objects, one build at a time,  *)
(* what builds leave, once or while dev watches.                           *)
(***************************************************************************)
EXTENDS RecordStore, BlobDisk, CompilerBuild, FiniteSetTheorems, SequenceTheorems, TLAPS

-----------------------------------------------------------------------------
(* Records: the inductive invariant                                        *)

Fields == {"rows", "answers", "claims", "sums", "added"}

(* Every row was born by one of the writes so far.                         *)
Dated(m) == \A r \in DOMAIN m.rows : m.rows[r].born \in 1..writes

StoreShapes ==
  /\ TypeOK
  /\ DOMAIN mem = Fields /\ DOMAIN disk = Fields
  /\ Dated(mem) /\ Dated(disk)

Born(m) == {m.rows[r].born : r \in DOMAIN m.rows}

(* A write makes one row, and who consumed it has it alone.                *)
BornOnce(m) == \A r, s \in DOMAIN m.rows : m.rows[r].born = m.rows[s].born => r = s

Consumed ==
  /\ BornOnce(mem) /\ BornOnce(disk)
  /\ \A d \in Dispatches : took[d] \cap (Born(mem) \cup taken) = {}
  /\ \A d, e \in Dispatches : d # e => took[d] \cap took[e] = {}
  /\ taken \cap (Born(mem) \cup Born(disk)) = {}
  /\ \A d \in Dispatches : \A b \in took[d] : b <= writes
  /\ \A b \in taken : b <= writes

(* What was answered, and what was answered to a client.                   *)
Promised ==
  /\ \A a \in kept : Binds(mem, a) /\ Binds(disk, a)
  /\ \A d \in Dispatches : \A a \in told[d] : Binds(mem, a)

IInv == StoreShapes /\ UniqueHeld /\ (~DiskMayFail => Consumed /\ Promised)

-----------------------------------------------------------------------------
(* Tables                                                                  *)

LEMMA WithFacts ==
  ASSUME NEW f, NEW k, NEW v
  PROVE  /\ DOMAIN With(f, k, v) = DOMAIN f \cup {k} /\ With(f, k, v)[k] = v
         /\ \A x \in DOMAIN f \ {k} : With(f, k, v)[x] = f[x]
         /\ With(f, k, v) = [x \in DOMAIN With(f, k, v) |-> With(f, k, v)[x]]
BY DEF With

LEMMA DropFacts ==
  ASSUME NEW f, NEW k
  PROVE  /\ DOMAIN Drop(f, k) = DOMAIN f \ {k}
         /\ \A x \in DOMAIN f \ {k} : Drop(f, k)[x] = f[x]
         /\ Drop(f, k) = [x \in DOMAIN Drop(f, k) |-> Drop(f, k)[x]]
BY DEF Drop

LEMMA WithTyped ==
  ASSUME NEW S, NEW f, f \in [DOMAIN f -> S], NEW k, NEW v \in S
  PROVE  With(f, k, v) \in [DOMAIN With(f, k, v) -> S]
BY DEF With

LEMMA DropTyped ==
  ASSUME NEW S, NEW f, f \in [DOMAIN f -> S], NEW k
  PROVE  Drop(f, k) \in [DOMAIN Drop(f, k) -> S]
BY DEF Drop

-----------------------------------------------------------------------------
(* What an import does                                                     *)

RowOf(v, forced) == [value |-> v, born |-> writes + 1, forced |-> forced]

(* A row is written, which looked for a conflict or is marked, or goes.    *)
Written(r, v, forced) ==
  (forced \/ ~Conflict(r, v)) /\ mem'.rows = With(mem.rows, r, RowOf(v, forced))

RowsStep(d) ==
  \/ UNCHANGED <<mem.rows, took>>
  \/ /\ \E r \in RowKeys, v \in Values, forced \in BOOLEAN : Written(r, v, forced)
     /\ UNCHANGED took
  \/ \E r \in RowKeys :
       /\ mem'.rows = Drop(mem.rows, r)
       /\ \/ UNCHANGED took
          \/ r \in DOMAIN mem.rows /\ took' = [took EXCEPT ![d] = @ \cup {mem.rows[r].born}]

(* A new key is given its outcome, and the dispatch is told.               *)
Answered(d, op, r, i, v, out) ==
  /\ <<op, r, i>> \notin DOMAIN mem.answers
  /\ mem'.answers = With(mem.answers, <<op, r, i>>, [value |-> v, outcome |-> out])
  /\ told' = [told EXCEPT ![d] = @ \cup {Answer(op, r, v, i, out)}]

AnswersStep(d) ==
  \/ mem'.answers = mem.answers /\ told' = told
  \/ \E op \in RecordOps, r \in RowKeys, i \in Idems, v \in Values \cup {NoValue}, out \in Outcome :
       Answered(d, op, r, i, v, out)

Leaves(d) ==
  /\ writes' = writes + 1 /\ open' = open \cup {d} /\ UNCHANGED <<disk, kept, taken>>
  /\ DOMAIN mem' = Fields

RecordEffect(d) ==
  RowsStep(d) /\ AnswersStep(d) /\ Leaves(d) /\ UNCHANGED <<mem.claims, mem.sums, mem.added>>

LEMMA Executed ==
  ASSUME StoreAssumption, IInv, NEW d \in Dispatches, NEW op \in RecordOps, NEW r \in RowKeys,
         NEW v \in Values \cup {NoValue}, NEW i \in KeysOf[op], NEW out \in Outcome,
         NEW m, DOMAIN m = Fields,
         m.answers = mem.answers, m.claims = mem.claims, m.sums = mem.sums, m.added = mem.added,
         Execute(d, op, r, v, i, m, out)
  PROVE  /\ mem'.rows = m.rows /\ AnswersStep(d) /\ Leaves(d)
         /\ UNCHANGED <<mem.claims, mem.sums, mem.added>>
<1>1. i \in Idems \cup {NoIdem}
  BY DEF StoreAssumption, RecordOps
<1>2. Leaves(d) /\ mem'.rows = m.rows /\ UNCHANGED <<mem.claims, mem.sums, mem.added>>
  <2>1. mem' = Settled(m, op, r, v, i, out)
    BY DEF Execute
  <2>2. /\ DOMAIN mem' = Fields /\ mem'.rows = m.rows /\ mem'.claims = m.claims
        /\ mem'.sums = m.sums /\ mem'.added = m.added
    BY <2>1 DEF Settled, Fields
  <2>3. QED
    BY <2>2 DEF Execute, Changing, Opened, Leaves
<1>3. CASE i = NoIdem
  <2>1. mem' = m /\ told' = told
    BY <1>3 DEF Execute, Settled, Tell
  <2>2. QED
    BY <1>2, <2>1 DEF AnswersStep
<1>4. CASE i # NoIdem
  <2>1. i \in Idems /\ <<op, r, i>> \notin DOMAIN mem.answers
    BY <1>1, <1>4 DEF Execute, Fresh
  <2>2. mem'.answers = With(mem.answers, <<op, r, i>>, [value |-> v, outcome |-> out])
    BY <1>4 DEF Execute, Settled, Fields
  <2>3. told' = [told EXCEPT ![d] = @ \cup {Answer(op, r, v, i, out)}]
    BY <1>4 DEF Execute, Tell
  <2>4. QED
    <3>1. Answered(d, op, r, i, v, out)
      BY <2>1, <2>2, <2>3 DEF Answered
    <3>2. QED
      BY <1>2, <2>1, <3>1 DEF AnswersStep
<1>5. QED
  BY <1>2, <1>3, <1>4

LEMMA Storing ==
  ASSUME IInv, NEW r, NEW v, NEW forced
  PROVE  LET m == Stored(r, v, forced)
         IN  /\ DOMAIN m = Fields /\ m.rows = With(mem.rows, r, RowOf(v, forced))
             /\ m.answers = mem.answers /\ m.claims = mem.claims /\ m.sums = mem.sums
             /\ m.added = mem.added
BY DEF Stored, IInv, StoreShapes, Fields, RowOf

LEMMA Removing ==
  ASSUME IInv, NEW r
  PROVE  LET m == Removed(r)
         IN  /\ DOMAIN m = Fields /\ m.rows = Drop(mem.rows, r)
             /\ m.answers = mem.answers /\ m.claims = mem.claims /\ m.sums = mem.sums
             /\ m.added = mem.added
BY DEF Removed, IInv, StoreShapes, Fields

LEMMA RecordEffects ==
  ASSUME StoreAssumption, IInv, NEW d \in Dispatches, RecordStep(d)
  PROVE  RecordEffect(d)
<1> DOMAIN mem = Fields
  BY DEF IInv, StoreShapes
<1> \A kind \in {"unit", "absent", "exists", "missing"} : Plainly(kind) \in Outcome
  BY DEF Plainly, Outcome
<1> \A v \in Values : Valued(v) \in Outcome
  BY DEF Valued, Outcome
<1>1. ASSUME NEW r \in RowKeys, NEW v \in Values, NEW i \in KeysOf["create"], Create(d, r, v, i)
      PROVE  RecordEffect(d)
  <2>1. CASE r \in DOMAIN mem.rows \/ Conflict(r, v)
    <3>1. Execute(d, "create", r, v, i, mem, Plainly("exists")) /\ UNCHANGED took
      BY <1>1, <2>1 DEF Create
    <3>2. QED
      BY <1>1, <3>1, Executed DEF RecordEffect, RowsStep, RecordOps
  <2>2. CASE ~(r \in DOMAIN mem.rows \/ Conflict(r, v))
    <3>1. Execute(d, "create", r, v, i, Stored(r, v, FALSE), Plainly("unit")) /\ UNCHANGED took
      BY <1>1, <2>2 DEF Create
    <3>2. /\ mem'.rows = With(mem.rows, r, RowOf(v, FALSE)) /\ AnswersStep(d) /\ Leaves(d)
          /\ UNCHANGED <<mem.claims, mem.sums, mem.added>>
      <4> DEFINE m == Stored(r, v, FALSE)
      <4>1. /\ DOMAIN m = Fields /\ m.rows = With(mem.rows, r, RowOf(v, FALSE))
            /\ m.answers = mem.answers /\ m.claims = mem.claims /\ m.sums = mem.sums
            /\ m.added = mem.added
        BY Storing
      <4>2. Execute(d, "create", r, v, i, m, Plainly("unit")) /\ "create" \in RecordOps
        BY <3>1 DEF RecordOps
      <4> HIDE DEF m
      <4>3. v \in Values \cup {NoValue}
        BY <1>1
      <4>4. /\ mem'.rows = m.rows /\ AnswersStep(d) /\ Leaves(d)
            /\ UNCHANGED <<mem.claims, mem.sums, mem.added>>
        BY <1>1, <4>1, <4>2, <4>3, Executed
      <4>5. QED
        BY <4>1, <4>4
    <3>3. QED
      BY <1>1, <2>2, <3>1, <3>2 DEF RecordEffect, RowsStep, Written
  <2>3. QED
    BY <2>1, <2>2
<1>2. ASSUME NEW r \in RowKeys, NEW v \in Values, NEW i \in KeysOf["patch"], Patch(d, r, v, i)
      PROVE  RecordEffect(d)
  <2>1. CASE r \notin DOMAIN mem.rows
    <3>1. Execute(d, "patch", r, v, i, mem, Plainly("missing")) /\ UNCHANGED took
      BY <1>2, <2>1 DEF Patch
    <3>2. QED
      BY <1>2, <3>1, Executed DEF RecordEffect, RowsStep, RecordOps
  <2>2. CASE r \in DOMAIN mem.rows /\ Conflict(r, v)
    <3>1. Execute(d, "patch", r, v, i, mem, Plainly("exists")) /\ UNCHANGED took
      BY <1>2, <2>2 DEF Patch
    <3>2. QED
      BY <1>2, <3>1, Executed DEF RecordEffect, RowsStep, RecordOps
  <2>3. CASE r \in DOMAIN mem.rows /\ ~Conflict(r, v)
    <3>1. Execute(d, "patch", r, v, i, Stored(r, v, FALSE), Valued(v)) /\ UNCHANGED took
      BY <1>2, <2>3 DEF Patch
    <3>2. /\ mem'.rows = With(mem.rows, r, RowOf(v, FALSE)) /\ AnswersStep(d) /\ Leaves(d)
          /\ UNCHANGED <<mem.claims, mem.sums, mem.added>>
      <4> DEFINE m == Stored(r, v, FALSE)
      <4>1. /\ DOMAIN m = Fields /\ m.rows = With(mem.rows, r, RowOf(v, FALSE))
            /\ m.answers = mem.answers /\ m.claims = mem.claims /\ m.sums = mem.sums
            /\ m.added = mem.added
        BY Storing
      <4>2. Execute(d, "patch", r, v, i, m, Valued(v)) /\ "patch" \in RecordOps
        BY <3>1 DEF RecordOps
      <4> HIDE DEF m
      <4>3. v \in Values \cup {NoValue}
        BY <1>2
      <4>4. /\ mem'.rows = m.rows /\ AnswersStep(d) /\ Leaves(d)
            /\ UNCHANGED <<mem.claims, mem.sums, mem.added>>
        BY <1>2, <4>1, <4>2, <4>3, Executed
      <4>5. QED
        BY <4>1, <4>4
    <3>3. QED
      BY <1>2, <2>3, <3>1, <3>2 DEF RecordEffect, RowsStep, Written
  <2>4. QED
    BY <2>1, <2>2, <2>3
<1>3. ASSUME NEW r \in RowKeys, NEW v \in Values, NEW i \in KeysOf["enqueue"], Enqueue(d, r, v, i)
      PROVE  RecordEffect(d)
  <2>1. CASE r \in DOMAIN mem.rows
    <3>1. Execute(d, "enqueue", r, v, i, Stored(r, v, TRUE), Plainly("unit")) /\ UNCHANGED took
      BY <1>3, <2>1 DEF Enqueue
    <3>2. /\ mem'.rows = With(mem.rows, r, RowOf(v, TRUE)) /\ AnswersStep(d) /\ Leaves(d)
          /\ UNCHANGED <<mem.claims, mem.sums, mem.added>>
      <4> DEFINE m == Stored(r, v, TRUE)
      <4>1. /\ DOMAIN m = Fields /\ m.rows = With(mem.rows, r, RowOf(v, TRUE))
            /\ m.answers = mem.answers /\ m.claims = mem.claims /\ m.sums = mem.sums
            /\ m.added = mem.added
        BY Storing
      <4>2. Execute(d, "enqueue", r, v, i, m, Plainly("unit")) /\ "enqueue" \in RecordOps
        BY <3>1 DEF RecordOps
      <4> HIDE DEF m
      <4>3. v \in Values \cup {NoValue}
        BY <1>3
      <4>4. /\ mem'.rows = m.rows /\ AnswersStep(d) /\ Leaves(d)
            /\ UNCHANGED <<mem.claims, mem.sums, mem.added>>
        BY <1>3, <4>1, <4>2, <4>3, Executed
      <4>5. QED
        BY <4>1, <4>4
    <3>3. QED
      BY <1>3, <3>1, <3>2 DEF RecordEffect, RowsStep, Written
  <2>2. CASE r \notin DOMAIN mem.rows
    <3>1. Execute(d, "enqueue", r, v, i, mem, Plainly("missing")) /\ UNCHANGED took
      BY <1>3, <2>2 DEF Enqueue
    <3>2. QED
      BY <1>3, <3>1, Executed DEF RecordEffect, RowsStep, RecordOps
  <2>3. QED
    BY <2>1, <2>2
<1>4. ASSUME NEW r \in RowKeys, NEW v \in Values, Upsert(d, r, v) PROVE RecordEffect(d)
  <2>1. mem' = Stored(r, v, FALSE) /\ ~Conflict(r, v)
    BY <1>4 DEF Upsert
  <2>2. Written(r, v, FALSE) /\ DOMAIN mem' = Fields /\ mem'.answers = mem.answers
        /\ UNCHANGED <<mem.claims, mem.sums, mem.added>>
    <3> DEFINE m == Stored(r, v, FALSE)
    <3>1. /\ DOMAIN m = Fields /\ m.rows = With(mem.rows, r, RowOf(v, FALSE))
          /\ m.answers = mem.answers /\ m.claims = mem.claims /\ m.sums = mem.sums
          /\ m.added = mem.added
      BY Storing
    <3>2. mem' = m
      BY <2>1
    <3> HIDE DEF m
    <3>3. QED
      BY <2>1, <3>1, <3>2 DEF Written
  <2>3. QED
    BY <1>4, <2>2 DEF Upsert, Changing, Opened, RecordEffect, RowsStep, AnswersStep, Leaves
<1>5. ASSUME NEW r \in RowKeys, NEW i \in KeysOf["delete"], DeleteRow(d, r, i)
      PROVE  RecordEffect(d)
  <2>1. Execute(d, "delete", r, NoValue, i, Removed(r), Plainly("unit")) /\ UNCHANGED took
    BY <1>5 DEF DeleteRow
  <2>2. /\ mem'.rows = Drop(mem.rows, r) /\ AnswersStep(d) /\ Leaves(d)
        /\ UNCHANGED <<mem.claims, mem.sums, mem.added>>
    BY <1>5, <2>1, Removing, Executed DEF RecordOps
  <2>3. QED
    BY <1>5, <2>1, <2>2 DEF RecordEffect, RowsStep
<1>6. ASSUME NEW r \in RowKeys, NEW i \in KeysOf["getDelete"], GetDelete(d, r, i)
      PROVE  RecordEffect(d)
  <2>1. CASE r \in DOMAIN mem.rows
    <3>1. /\ Execute(d, "getDelete", r, NoValue, i, Removed(r), Valued(mem.rows[r].value))
          /\ took' = [took EXCEPT ![d] = @ \cup {mem.rows[r].born}]
          /\ mem.rows[r].value \in Values
      BY <1>6, <2>1 DEF GetDelete, IInv, StoreShapes, TypeOK, Store, Row
    <3>2. /\ mem'.rows = Drop(mem.rows, r) /\ AnswersStep(d) /\ Leaves(d)
          /\ UNCHANGED <<mem.claims, mem.sums, mem.added>>
      BY <1>6, <3>1, Removing, Executed DEF RecordOps
    <3>3. QED
      BY <1>6, <2>1, <3>1, <3>2 DEF RecordEffect, RowsStep
  <2>2. CASE r \notin DOMAIN mem.rows
    <3>1. Execute(d, "getDelete", r, NoValue, i, mem, Plainly("absent")) /\ UNCHANGED took
      BY <1>6, <2>2 DEF GetDelete
    <3>2. QED
      BY <1>6, <3>1, Executed DEF RecordEffect, RowsStep, RecordOps
  <2>3. QED
    BY <2>1, <2>2
<1>7. ASSUME NEW r \in Plain, NEW e \in Values \cup {NoValue}, NEW v \in Values,
             CompareExchange(d, r, e, v)
      PROVE  RecordEffect(d)
  <2>1. r \in RowKeys /\ ~Conflict(r, v) /\ mem' = Stored(r, v, FALSE)
    BY <1>7 DEF StoreAssumption, CompareExchange, Conflict
  <2>2. Written(r, v, FALSE) /\ DOMAIN mem' = Fields /\ mem'.answers = mem.answers
        /\ UNCHANGED <<mem.claims, mem.sums, mem.added>>
    <3> DEFINE m == Stored(r, v, FALSE)
    <3>1. /\ DOMAIN m = Fields /\ m.rows = With(mem.rows, r, RowOf(v, FALSE))
          /\ m.answers = mem.answers /\ m.claims = mem.claims /\ m.sums = mem.sums
          /\ m.added = mem.added
      BY Storing
    <3>2. mem' = m
      BY <2>1
    <3> HIDE DEF m
    <3>3. QED
      BY <2>1, <3>1, <3>2 DEF Written
  <2>3. QED
    BY <1>7, <2>1, <2>2
       DEF CompareExchange, Changing, Opened, RecordEffect, RowsStep, AnswersStep, Leaves
<1>8. ASSUME NEW r \in Plain, NEW e \in Values \cup {NoValue}, CompareDelete(d, r, e)
      PROVE  RecordEffect(d)
  <2>1. r \in RowKeys /\ r \in DOMAIN mem.rows /\ mem' = Removed(r)
    BY <1>8 DEF StoreAssumption, CompareDelete, Expected
  <2>2. QED
    BY <1>8, <2>1, Removing
       DEF CompareDelete, Changing, Opened, RecordEffect, RowsStep, AnswersStep, Leaves
<1>9. QED
  BY <1>1, <1>2, <1>3, <1>4, <1>5, <1>6, <1>7, <1>8 DEF RecordStep

-----------------------------------------------------------------------------
(* Every step keeps the invariant                                          *)

LEMMA Initially == StoreAssumption /\ Init => IInv
<1> SUFFICES ASSUME StoreAssumption, Init PROVE IInv
  OBVIOUS
<1>1. DOMAIN Empty = Fields /\ mem = Empty /\ disk = Empty
  BY DEF Init, Empty, Fields
<1>2. /\ Empty.rows = <<>> /\ Empty.answers = <<>> /\ Empty.claims = <<>>
      /\ Empty.added = <<>> /\ Empty.sums = [c \in Counters |-> 0]
  BY DEF Empty
<1>3. DOMAIN <<>> = {} /\ \A S : <<>> \in [{} -> S]
  OBVIOUS
<1>4. Store(Empty)
  <2>1. Empty.sums \in [Counters -> Low..High]
    BY <1>2 DEF StoreAssumption
  <2>2. QED
    BY <1>2, <1>3, <2>1 DEF Store
<1>5. StoreShapes
  BY <1>1, <1>2, <1>3, <1>4 DEF StoreAssumption, Init, StoreShapes, TypeOK, Dated
<1>6. UniqueHeld
  BY <1>1, <1>2, <1>3 DEF UniqueHeld
<1>7. Consumed /\ Promised
  BY <1>1, <1>2, <1>3 DEF Init, Consumed, BornOnce, Born, Promised
<1>8. QED
  BY <1>5, <1>6, <1>7 DEF IInv

(* A claim and an addition leave rows and answers alone.                   *)
ClaimEffect(d, n, o, i) ==
  /\ Leaves(d) /\ UNCHANGED <<mem.rows, mem.answers, mem.sums, mem.added, took>>
  /\ n \notin DOMAIN mem.claims /\ i \in MaybeIdem
  /\ mem'.claims = With(mem.claims, n, [owner |-> o, idem |-> i])
  /\ told' = [told EXCEPT ![d] = @ \cup {Answer("claim", n, o, i, Plainly("unit"))}]

AddEffect(d, c, delta, i) ==
  /\ Leaves(d) /\ UNCHANGED <<mem.rows, mem.answers, mem.claims, took>>
  /\ mem'.sums = [mem.sums EXCEPT ![c] = Saturated(mem.sums[c] + delta)]
  /\ \/ UNCHANGED <<mem.added, told>>
     \/ /\ i \in Idems /\ <<c, i>> \notin DOMAIN mem.added
        /\ mem'.added = With(mem.added, <<c, i>>, delta)
        /\ told' = [told EXCEPT ![d] = @ \cup {Answer("add", c, delta, i, Plainly("unit"))}]

LEMMA SharedEffects ==
  ASSUME StoreAssumption, IInv, NEW d \in Dispatches
  PROVE  /\ \A n \in UniqueKeys, o \in Owners, i \in KeysOf["claim"] :
              Claim(d, n, o, i) => ClaimEffect(d, n, o, i)
         /\ \A c \in Counters, delta \in Deltas, i \in KeysOf["add"] :
              Add(d, c, delta, i) => AddEffect(d, c, delta, i)
<1> DOMAIN mem = Fields
  BY DEF IInv, StoreShapes
<1>1. ASSUME NEW n \in UniqueKeys, NEW o \in Owners, NEW i \in KeysOf["claim"], Claim(d, n, o, i)
      PROVE  ClaimEffect(d, n, o, i)
  <2>1. i \in MaybeIdem
    BY <1>1 DEF StoreAssumption, MaybeIdem
  <2>2. /\ DOMAIN mem' = Fields /\ UNCHANGED <<mem.rows, mem.answers, mem.sums, mem.added>>
        /\ mem'.claims = With(mem.claims, n, [owner |-> o, idem |-> i])
    BY <1>1 DEF Claim, Fields
  <2>3. QED
    BY <1>1, <2>1, <2>2 DEF Claim, Changing, Opened, Leaves, ClaimEffect
<1>2. ASSUME NEW c \in Counters, NEW delta \in Deltas, NEW i \in KeysOf["add"], Add(d, c, delta, i)
      PROVE  AddEffect(d, c, delta, i)
  <2>1. /\ DOMAIN mem' = Fields /\ UNCHANGED <<mem.rows, mem.answers, mem.claims>>
        /\ mem'.sums = [mem.sums EXCEPT ![c] = Saturated(mem.sums[c] + delta)]
        /\ mem'.added = IF i = NoIdem THEN mem.added ELSE With(mem.added, <<c, i>>, delta)
    BY <1>2 DEF Add, Fields
  <2>2. i \in Idems \cup {NoIdem}
    BY <1>2 DEF StoreAssumption
  <2>3. Leaves(d) /\ UNCHANGED took
    BY <1>2, <2>1 DEF Add, Changing, Opened, Leaves
  <2>4. CASE i = NoIdem
    BY <1>2, <2>1, <2>3, <2>4 DEF Add, Tell, AddEffect
  <2>5. CASE i # NoIdem
    BY <1>2, <2>1, <2>2, <2>3, <2>5 DEF Add, Tell, AddEffect
  <2>6. QED
    BY <2>4, <2>5
<1>3. QED
  BY <1>1, <1>2

(* A release ends the promises of its owner's claim.                       *)
NotOf(a, n, o) == ~(a.op = "claim" /\ a.target = n /\ a.value = o)

LEMMA ReleaseEffect ==
  ASSUME StoreAssumption, IInv, NEW d \in Dispatches, NEW n, NEW o, Release(d, n, o)
  PROVE  /\ writes' = writes + 1 /\ open' = open \cup {d} /\ UNCHANGED <<disk, taken, took>>
         /\ DOMAIN mem' = Fields /\ UNCHANGED <<mem.rows, mem.answers, mem.sums, mem.added>>
         /\ n \in DOMAIN mem.claims /\ mem.claims[n].owner = o
         /\ mem'.claims = Drop(mem.claims, n)
         /\ DOMAIN told' = Dispatches /\ kept' = {a \in kept : NotOf(a, n, o)}
         /\ \A e \in Dispatches : told'[e] = {a \in told[e] : NotOf(a, n, o)}
<1> DOMAIN mem = Fields
  BY DEF IInv, StoreShapes
<1>1. /\ DOMAIN mem' = Fields /\ UNCHANGED <<mem.rows, mem.answers, mem.sums, mem.added>>
      /\ mem'.claims = Drop(mem.claims, n)
  BY DEF Release, Fields
<1>2. QED
  BY <1>1 DEF Release, MayRelease, Changing, Opened, NotOf

(* A request that was seen is told what binds already.                     *)
RepeatEffect(d) ==
  /\ open' = open \cup {d} /\ UNCHANGED <<mem, disk, writes, took, kept, taken>>
  /\ \/ UNCHANGED told
     \/ \E a : Told(a) /\ Binds(mem, a) /\ told' = [told EXCEPT ![d] = @ \cup {a}]

LEMMA RepeatEffects ==
  ASSUME StoreAssumption, IInv, NEW d \in Dispatches, RepeatedStep(d)
  PROVE  RepeatEffect(d)
<1>0. Plainly("unit") \in Outcome
  BY DEF Plainly, Outcome
<1>1. ASSUME NEW op \in RecordOps, NEW r \in RowKeys, NEW i \in Idems, Replay(d, op, r, i)
      PROVE  RepeatEffect(d)
  <2> DEFINE seen == mem.answers[<<op, r, i>>]
             a == Answer(op, r, seen.value, i, seen.outcome)
  <2>1. <<op, r, i>> \in DOMAIN mem.answers /\ i # NoIdem
    BY <1>1 DEF Replay, Fresh, StoreAssumption
  <2>2. seen \in [value : Values \cup {NoValue}, outcome : Outcome]
    BY <2>1 DEF IInv, StoreShapes, TypeOK, Store
  <2>3. seen = [value |-> seen.value, outcome |-> seen.outcome] /\ seen.outcome \in Outcome
    BY <2>2
  <2>4. told' = [told EXCEPT ![d] = @ \cup {a}]
    BY <1>1, <2>1 DEF Replay, Tell
  <2> HIDE DEF seen
  <2>5. Told(a)
    BY <1>1, <2>3 DEF Answer, Told, Targets, MaybeIdem
  <2>6. Binds(mem, a)
    BY <1>1, <2>1, <2>3 DEF Answer, Binds, RecordOps, seen
  <2>7. QED
    BY <1>1, <2>4, <2>5, <2>6 DEF Replay, Repeating, Opened, RepeatEffect
<1>2. ASSUME NEW n \in UniqueKeys, NEW o \in Owners, NEW i \in KeysOf["claim"], ClaimAgain(d, n, o, i)
      PROVE  RepeatEffect(d)
  <2> DEFINE a == Answer("claim", n, o, i, Plainly("unit"))
  <2>1. i \in MaybeIdem
    BY <1>2 DEF StoreAssumption, MaybeIdem
  <2>2. Told(a)
    BY <1>0, <1>2, <2>1 DEF Answer, Told, Targets
  <2>3. Binds(mem, a)
    BY <1>2 DEF ClaimAgain, Answer, Binds
  <2>4. QED
    BY <1>2, <2>2, <2>3 DEF ClaimAgain, Repeating, Opened, RepeatEffect
<1>3. ASSUME NEW c \in Counters, NEW delta \in Deltas, NEW i \in Idems, AddAgain(d, c, delta, i)
      PROVE  RepeatEffect(d)
  <2> DEFINE a == Answer("add", c, delta, i, Plainly("unit"))
  <2>1. i # NoIdem
    BY <1>3 DEF StoreAssumption
  <2>2. Told(a)
    BY <1>0, <1>3 DEF Answer, Told, Targets, MaybeIdem
  <2>3. Binds(mem, a)
    BY <1>3 DEF AddAgain, Answer, Binds
  <2>4. told' = [told EXCEPT ![d] = @ \cup {a}]
    BY <1>3, <2>1 DEF AddAgain, Tell
  <2>5. QED
    BY <1>3, <2>2, <2>3, <2>4 DEF AddAgain, Repeating, Opened, RepeatEffect
<1>4. QED
  BY <1>1, <1>2, <1>3 DEF RepeatedStep

-----------------------------------------------------------------------------
(* The shape of the store                                                  *)

LEMMA RowsTyped ==
  ASSUME StoreAssumption, IInv, writes < MaxWrites, NEW d \in Dispatches, RowsStep(d),
         writes' = writes + 1
  PROVE  /\ mem'.rows \in [DOMAIN mem'.rows -> Row] /\ DOMAIN mem'.rows \subseteq RowKeys
         /\ Dated(mem)' /\ took' \in [Dispatches -> SUBSET (1..MaxWrites)]
<1>1. /\ mem.rows \in [DOMAIN mem.rows -> Row] /\ DOMAIN mem.rows \subseteq RowKeys
      /\ Dated(mem) /\ took \in [Dispatches -> SUBSET (1..MaxWrites)]
      /\ writes \in 0..MaxWrites /\ MaxWrites \in Nat
  BY DEF IInv, StoreShapes, TypeOK, Store, StoreAssumption
<1>2. CASE UNCHANGED <<mem.rows, took>>
  BY <1>1, <1>2 DEF Dated
<1>3. ASSUME NEW r \in RowKeys, NEW v \in Values, NEW forced \in BOOLEAN, Written(r, v, forced)
      PROVE  mem'.rows \in [DOMAIN mem'.rows -> Row] /\ DOMAIN mem'.rows \subseteq RowKeys /\ Dated(mem)'
  <2>1. RowOf(v, forced) \in Row /\ RowOf(v, forced).born = writes + 1
    BY <1>1, <1>3 DEF RowOf, Row
  <2>2. mem'.rows = With(mem.rows, r, RowOf(v, forced))
    BY <1>3 DEF Written
  <2>3. DOMAIN mem'.rows = DOMAIN mem.rows \cup {r} /\ mem'.rows[r] = RowOf(v, forced)
        /\ \A s \in DOMAIN mem.rows \ {r} : mem'.rows[s] = mem.rows[s]
    BY <2>2 DEF With
  <2>4. Dated(mem)'
    BY <1>1, <2>1, <2>3 DEF Dated
  <2>5. QED
    BY <1>1, <1>3, <2>1, <2>2, <2>3, <2>4, WithTyped
<1>4. ASSUME NEW r, mem'.rows = Drop(mem.rows, r)
      PROVE  mem'.rows \in [DOMAIN mem'.rows -> Row] /\ DOMAIN mem'.rows \subseteq RowKeys /\ Dated(mem)'
  <2>1. DOMAIN mem'.rows = DOMAIN mem.rows \ {r}
        /\ \A s \in DOMAIN mem.rows \ {r} : mem'.rows[s] = mem.rows[s]
    BY <1>4 DEF Drop
  <2>2. Dated(mem)'
    BY <1>1, <2>1 DEF Dated
  <2>3. QED
    BY <1>1, <1>4, <2>1, <2>2, DropTyped
<1>5. ASSUME NEW r \in DOMAIN mem.rows, took' = [took EXCEPT ![d] = @ \cup {mem.rows[r].born}]
      PROVE  took' \in [Dispatches -> SUBSET (1..MaxWrites)]
  <2>1. mem.rows[r].born \in 1..MaxWrites
    BY <1>1, <1>5 DEF Dated
  <2>2. QED
    BY <1>1, <1>5, <2>1
<1>6. QED
  BY <1>1, <1>2, <1>3, <1>4, <1>5 DEF RowsStep

(* One more answer in a dispatch.                                          *)
LEMMA TellTyped ==
  ASSUME IInv, NEW d \in Dispatches, NEW a, Told(a), told' = [told EXCEPT ![d] = @ \cup {a}]
  PROVE  DOMAIN told' = Dispatches /\ \A e \in Dispatches : \A b \in told'[e] : Told(b)
BY DEF IInv, StoreShapes, TypeOK

LEMMA AnswersTyped ==
  ASSUME IInv, NEW d \in Dispatches, AnswersStep(d)
  PROVE  /\ DOMAIN mem'.answers \subseteq RecordOps \X RowKeys \X Idems
         /\ mem'.answers \in [DOMAIN mem'.answers -> [value : Values \cup {NoValue}, outcome : Outcome]]
         /\ DOMAIN told' = Dispatches /\ \A e \in Dispatches : \A b \in told'[e] : Told(b)
<1>1. /\ DOMAIN mem.answers \subseteq RecordOps \X RowKeys \X Idems
      /\ mem.answers \in [DOMAIN mem.answers -> [value : Values \cup {NoValue}, outcome : Outcome]]
      /\ DOMAIN told = Dispatches /\ \A e \in Dispatches : \A b \in told[e] : Told(b)
  BY DEF IInv, StoreShapes, TypeOK, Store
<1>2. CASE mem'.answers = mem.answers /\ told' = told
  BY <1>1, <1>2
<1>3. ASSUME NEW op \in RecordOps, NEW r \in RowKeys, NEW i \in Idems,
             NEW v \in Values \cup {NoValue}, NEW out \in Outcome, Answered(d, op, r, i, v, out)
      PROVE  /\ DOMAIN mem'.answers \subseteq RecordOps \X RowKeys \X Idems
             /\ mem'.answers \in [DOMAIN mem'.answers -> [value : Values \cup {NoValue}, outcome : Outcome]]
             /\ DOMAIN told' = Dispatches /\ \A e \in Dispatches : \A b \in told'[e] : Told(b)
  <2>1. mem'.answers = With(mem.answers, <<op, r, i>>, [value |-> v, outcome |-> out])
    BY <1>3 DEF Answered
  <2>2. [value |-> v, outcome |-> out] \in [value : Values \cup {NoValue}, outcome : Outcome]
    BY <1>3
  <2>3. mem'.answers \in [DOMAIN mem'.answers -> [value : Values \cup {NoValue}, outcome : Outcome]]
    BY <1>1, <2>1, <2>2 DEF With
  <2>4. DOMAIN mem'.answers = DOMAIN mem.answers \cup {<<op, r, i>>}
    BY <2>1 DEF With
  <2>5. Told(Answer(op, r, v, i, out))
    BY <1>3 DEF Answer, Told, Targets, MaybeIdem
  <2>6. QED
    BY <1>1, <1>3, <2>3, <2>4, <2>5, TellTyped DEF Answered
<1>4. QED
  BY <1>2, <1>3 DEF AnswersStep

(* The shape of what every import leaves alone.                            *)
LEMMA RestTyped ==
  ASSUME StoreAssumption, IInv, writes < MaxWrites, NEW d \in Dispatches, Leaves(d)
  PROVE  /\ DOMAIN mem' = Fields /\ DOMAIN disk' = Fields /\ Store(disk') /\ Dated(disk)'
         /\ open' \subseteq Dispatches /\ writes' \in 0..MaxWrites
         /\ \A a \in kept' : Told(a)
         /\ taken' \subseteq 1..MaxWrites
BY DEF StoreAssumption, IInv, StoreShapes, TypeOK, Leaves, Dated

LEMMA RecordShapes ==
  ASSUME StoreAssumption, IInv, writes < MaxWrites, NEW d \in Dispatches, RecordEffect(d)
  PROVE  StoreShapes'
<1>1. RowsStep(d) /\ AnswersStep(d) /\ Leaves(d) /\ UNCHANGED <<mem.claims, mem.sums, mem.added>>
  BY DEF RecordEffect
<1>2. writes' = writes + 1
  BY <1>1 DEF Leaves
<1>3. Store(mem)
  BY DEF IInv, StoreShapes, TypeOK
<1>4. Store(mem')
  BY <1>1, <1>2, <1>3, RowsTyped, AnswersTyped DEF Store
<1>5. QED
  BY <1>1, <1>2, <1>4, RowsTyped, AnswersTyped, RestTyped DEF StoreShapes, TypeOK

LEMMA SaturatedInRange ==
  ASSUME StoreAssumption, NEW x \in Int PROVE Saturated(x) \in Low..High
BY DEF StoreAssumption, Saturated

LEMMA RowsDated ==
  ASSUME IInv, writes' = writes + 1, mem'.rows = mem.rows PROVE Dated(mem)'
BY DEF IInv, StoreShapes, TypeOK, Dated

LEMMA ClaimShapes ==
  ASSUME StoreAssumption, IInv, writes < MaxWrites, NEW d \in Dispatches,
         NEW n \in UniqueKeys, NEW o \in Owners, NEW i, ClaimEffect(d, n, o, i)
  PROVE  StoreShapes'
<1>1. Leaves(d) /\ i \in MaybeIdem /\ mem'.claims = With(mem.claims, n, [owner |-> o, idem |-> i])
      /\ UNCHANGED <<mem.rows, mem.answers, mem.sums, mem.added, took>>
  BY DEF ClaimEffect
<1>2. Store(mem) /\ took \in [Dispatches -> SUBSET (1..MaxWrites)]
  BY DEF IInv, StoreShapes, TypeOK
<1>3. Told(Answer("claim", n, o, i, Plainly("unit")))
  BY <1>1 DEF Answer, Told, Targets, Plainly, Outcome
<1>4. DOMAIN told' = Dispatches /\ \A e \in Dispatches : \A b \in told'[e] : Told(b)
  BY <1>3, TellTyped DEF ClaimEffect
<1>5. mem'.claims \in [DOMAIN mem'.claims -> [owner : Owners, idem : MaybeIdem]]
      /\ DOMAIN mem'.claims \subseteq UniqueKeys
  <2>1. [owner |-> o, idem |-> i] \in [owner : Owners, idem : MaybeIdem]
    BY <1>1
  <2>2. mem.claims \in [DOMAIN mem.claims -> [owner : Owners, idem : MaybeIdem]]
        /\ DOMAIN mem.claims \subseteq UniqueKeys
    BY <1>2 DEF Store
  <2>3. QED
    BY <1>1, <2>1, <2>2 DEF With
<1>6. Store(mem')
  BY <1>1, <1>2, <1>5 DEF Store
<1>7. Dated(mem)'
  BY <1>1, RowsDated DEF Leaves
<1>8. QED
  BY <1>1, <1>2, <1>4, <1>6, <1>7, RestTyped DEF StoreShapes, TypeOK

LEMMA AddShapes ==
  ASSUME StoreAssumption, IInv, writes < MaxWrites, NEW d \in Dispatches,
         NEW c \in Counters, NEW delta \in Deltas, NEW i, AddEffect(d, c, delta, i)
  PROVE  StoreShapes'
<1>1. Leaves(d) /\ mem'.sums = [mem.sums EXCEPT ![c] = Saturated(mem.sums[c] + delta)]
      /\ UNCHANGED <<mem.rows, mem.answers, mem.claims, took>>
  BY DEF AddEffect
<1>2. Store(mem) /\ took \in [Dispatches -> SUBSET (1..MaxWrites)]
      /\ DOMAIN told = Dispatches /\ \A e \in Dispatches : \A b \in told[e] : Told(b)
  BY DEF IInv, StoreShapes, TypeOK
<1>3. mem'.sums \in [Counters -> Low..High]
  <2>1. mem.sums \in [Counters -> Low..High] /\ Low \in Int /\ High \in Int /\ delta \in Int
    BY <1>2 DEF Store, StoreAssumption
  <2>2. mem.sums[c] + delta \in Int
    BY <2>1
  <2>3. Saturated(mem.sums[c] + delta) \in Low..High
    BY <2>2, SaturatedInRange
  <2>4. QED
    BY <1>1, <2>1, <2>3
<1>4. /\ DOMAIN mem'.added \subseteq Counters \X Idems /\ mem'.added \in [DOMAIN mem'.added -> Deltas]
      /\ DOMAIN told' = Dispatches /\ \A e \in Dispatches : \A b \in told'[e] : Told(b)
  <2>1. CASE UNCHANGED <<mem.added, told>>
    BY <1>2, <2>1 DEF Store
  <2>2. CASE /\ i \in Idems /\ <<c, i>> \notin DOMAIN mem.added
             /\ mem'.added = With(mem.added, <<c, i>>, delta)
             /\ told' = [told EXCEPT ![d] = @ \cup {Answer("add", c, delta, i, Plainly("unit"))}]
    <3>1. Told(Answer("add", c, delta, i, Plainly("unit")))
      BY <2>2 DEF Answer, Told, Targets, Plainly, Outcome, MaybeIdem
    <3>2. DOMAIN told' = Dispatches /\ \A e \in Dispatches : \A b \in told'[e] : Told(b)
      BY <2>2, <3>1, TellTyped
    <3>3. DOMAIN mem'.added \subseteq Counters \X Idems /\ mem'.added \in [DOMAIN mem'.added -> Deltas]
      BY <1>2, <2>2 DEF Store, With
    <3>4. QED
      BY <3>2, <3>3
  <2>3. QED
    BY <2>1, <2>2 DEF AddEffect
<1>5. Store(mem')
  BY <1>1, <1>2, <1>3, <1>4 DEF Store
<1>6. Dated(mem)'
  BY <1>1, RowsDated DEF Leaves
<1>7. QED
  BY <1>1, <1>2, <1>4, <1>5, <1>6, RestTyped DEF StoreShapes, TypeOK

LEMMA ReleaseShapes ==
  ASSUME StoreAssumption, IInv, writes < MaxWrites, NEW d \in Dispatches,
         NEW n, NEW o, Release(d, n, o)
  PROVE  StoreShapes'
<1>1. /\ writes' = writes + 1 /\ open' = open \cup {d} /\ UNCHANGED <<disk, taken, took>>
      /\ DOMAIN mem' = Fields /\ UNCHANGED <<mem.rows, mem.answers, mem.sums, mem.added>>
      /\ mem'.claims = Drop(mem.claims, n)
      /\ DOMAIN told' = Dispatches /\ kept' = {a \in kept : NotOf(a, n, o)}
      /\ \A e \in Dispatches : told'[e] = {a \in told[e] : NotOf(a, n, o)}
  BY ReleaseEffect
<1>2. Store(mem) /\ writes \in 0..MaxWrites /\ MaxWrites \in Nat
  BY DEF IInv, StoreShapes, TypeOK, StoreAssumption
<1>3. Store(mem')
  <2>1. mem'.claims \in [DOMAIN mem'.claims -> [owner : Owners, idem : MaybeIdem]]
        /\ DOMAIN mem'.claims \subseteq UniqueKeys
    BY <1>1, <1>2 DEF Store, Drop
  <2>2. QED
    BY <1>1, <1>2, <2>1 DEF Store
<1>4. Dated(mem)' /\ Dated(disk)'
  BY <1>1, <1>2 DEF IInv, StoreShapes, Dated
<1>5. writes' \in 0..MaxWrites
  BY <1>1, <1>2
<1>6. (\A a \in kept' : Told(a)) /\ \A e \in Dispatches : \A a \in told'[e] : Told(a)
  BY <1>1 DEF IInv, StoreShapes, TypeOK
<1>7. QED
  BY <1>1, <1>3, <1>4, <1>5, <1>6 DEF IInv, StoreShapes, TypeOK

LEMMA RepeatShapes ==
  ASSUME IInv, NEW d \in Dispatches, RepeatEffect(d) PROVE StoreShapes'
<1>1. DOMAIN told' = Dispatches /\ \A e \in Dispatches : \A b \in told'[e] : Told(b)
  <2>1. CASE UNCHANGED told
    BY <2>1 DEF IInv, StoreShapes, TypeOK
  <2>2. ASSUME NEW a, Told(a), told' = [told EXCEPT ![d] = @ \cup {a}]
        PROVE  DOMAIN told' = Dispatches /\ \A e \in Dispatches : \A b \in told'[e] : Told(b)
    BY <2>2, TellTyped
  <2>3. QED
    BY <2>1, <2>2 DEF RepeatEffect
<1>2. QED
  BY <1>1 DEF IInv, StoreShapes, TypeOK, RepeatEffect, Dated

(* A dispatch that ends, answered or not; what was answered is kept.       *)
CloseEffect(d) ==
  /\ disk' = mem \/ (DiskMayFail /\ disk' = disk)
  /\ kept' \subseteq kept \cup told[d] /\ taken' \subseteq taken \cup took[d]
  /\ open' = open \ {d} /\ UNCHANGED <<mem, writes>>
  /\ told' = [told EXCEPT ![d] = {}] /\ took' = [took EXCEPT ![d] = {}]

LEMMA CloseEffects ==
  ASSUME NEW d, FinishDispatch(d) \/ Trap(d) PROVE CloseEffect(d)
BY DEF FinishDispatch, Trap, Persist, Close, CloseEffect

LEMMA CloseShapes ==
  ASSUME IInv, NEW d \in Dispatches, CloseEffect(d) PROVE StoreShapes'
<1>1. DOMAIN told' = Dispatches /\ \A e \in Dispatches : \A b \in told'[e] : Told(b)
  BY DEF IInv, StoreShapes, TypeOK, CloseEffect
<1>2. took' \in [Dispatches -> SUBSET (1..MaxWrites)]
  BY DEF IInv, StoreShapes, TypeOK, CloseEffect
<1>3. (\A a \in kept' : Told(a)) /\ taken' \subseteq 1..MaxWrites
  BY DEF IInv, StoreShapes, TypeOK, CloseEffect
<1>4. DOMAIN mem' = Fields /\ DOMAIN disk' = Fields /\ Store(mem') /\ Store(disk')
  BY DEF IInv, StoreShapes, TypeOK, CloseEffect
<1>5. Dated(mem)' /\ Dated(disk)'
  BY DEF IInv, StoreShapes, CloseEffect, Dated
<1>6. QED
  BY <1>1, <1>2, <1>3, <1>4, <1>5 DEF IInv, StoreShapes, TypeOK, CloseEffect

LEMMA CrashShapes == ASSUME IInv, Crash PROVE StoreShapes'
<1>1. DOMAIN told' = Dispatches /\ \A e \in Dispatches : told'[e] = {}
  BY DEF Crash
<1>2. took' \in [Dispatches -> SUBSET (1..MaxWrites)]
  BY DEF Crash
<1>3. Dated(mem)' /\ Dated(disk)'
  BY DEF IInv, StoreShapes, Crash, Dated
<1>4. QED
  BY <1>1, <1>2, <1>3 DEF IInv, StoreShapes, TypeOK, Crash

-----------------------------------------------------------------------------
(* Unique contents                                                         *)

Distinct(m) ==
  \A r, s \in DOMAIN m.rows \ Plain :
    (r # s /\ MarkOf[m.rows[r].value] = MarkOf[m.rows[s].value]
           /\ MarkOf[m.rows[r].value] # Blank)
      => m.rows[r].forced \/ m.rows[s].forced

LEMMA UniqueIsDistinct == UniqueHeld <=> Distinct(mem) /\ Distinct(disk)
BY DEF UniqueHeld, Distinct

LEMMA DistinctSame == ASSUME NEW m, NEW n, Distinct(m), n.rows = m.rows PROVE Distinct(n)
BY DEF Distinct

LEMMA DistinctWritten ==
  ASSUME Distinct(mem), NEW r, NEW v, NEW forced, forced \/ ~Conflict(r, v),
         NEW m, m.rows = With(mem.rows, r, RowOf(v, forced))
  PROVE  Distinct(m)
<1> SUFFICES ASSUME NEW s \in DOMAIN m.rows \ Plain, NEW t \in DOMAIN m.rows \ Plain, s # t,
                    MarkOf[m.rows[s].value] = MarkOf[m.rows[t].value],
                    MarkOf[m.rows[s].value] # Blank
             PROVE  m.rows[s].forced \/ m.rows[t].forced
  BY DEF Distinct
<1>1. /\ DOMAIN m.rows = DOMAIN mem.rows \cup {r}
      /\ m.rows[r].value = v /\ m.rows[r].forced = forced
      /\ \A x \in DOMAIN mem.rows \ {r} : m.rows[x] = mem.rows[x]
  BY DEF With, RowOf
<1>2. ASSUME NEW x \in DOMAIN m.rows \ Plain, x # r, r \notin Plain,
             MarkOf[m.rows[x].value] = MarkOf[v], MarkOf[v] # Blank
      PROVE  forced
  <2>1. x \in DOMAIN mem.rows \ (Plain \cup {r}) /\ m.rows[x] = mem.rows[x]
    BY <1>1, <1>2
  <2>2. Conflict(r, v)
    BY <1>2, <2>1 DEF Conflict
  <2>3. QED
    BY <2>2
<1>3. CASE s = r
  BY <1>1, <1>2, <1>3
<1>4. CASE t = r
  BY <1>1, <1>2, <1>4
<1>5. CASE s # r /\ t # r
  <2>1. s \in DOMAIN mem.rows \ Plain /\ t \in DOMAIN mem.rows \ Plain
        /\ m.rows[s] = mem.rows[s] /\ m.rows[t] = mem.rows[t]
    BY <1>1, <1>5
  <2>2. QED
    BY <2>1 DEF Distinct
<1>6. QED
  BY <1>3, <1>4, <1>5

LEMMA DistinctDropped ==
  ASSUME NEW m, Distinct(m), NEW r, NEW n, n.rows = Drop(m.rows, r) PROVE Distinct(n)
BY DEF Distinct, Drop

LEMMA RowsDistinct ==
  ASSUME Distinct(mem), NEW d, RowsStep(d) PROVE Distinct(mem')
<1>1. CASE UNCHANGED <<mem.rows, took>>
  BY <1>1, DistinctSame
<1>2. ASSUME NEW r \in RowKeys, NEW v \in Values, NEW forced \in BOOLEAN, Written(r, v, forced)
      PROVE  Distinct(mem')
  BY <1>2, DistinctWritten DEF Written
<1>3. ASSUME NEW r, mem'.rows = Drop(mem.rows, r) PROVE Distinct(mem')
  BY <1>3, DistinctDropped
<1>4. QED
  BY <1>1, <1>2, <1>3 DEF RowsStep

-----------------------------------------------------------------------------
(* Who consumed what                                                       *)

(* What the rows of the store owe the consumers, for the writes in count.  *)
Unspent(rows) ==
  /\ \A r, s \in DOMAIN rows : rows[r].born = rows[s].born => r = s
  /\ \A r \in DOMAIN rows : rows[r].born \notin taken /\ \A e \in Dispatches : rows[r].born \notin took[e]

LEMMA ConsumedRows ==
  Consumed <=> /\ Unspent(mem.rows) /\ BornOnce(disk)
               /\ taken \cap Born(disk) = {}
               /\ \A d \in Dispatches : took[d] \cap taken = {}
               /\ \A d, e \in Dispatches : d # e => took[d] \cap took[e] = {}
               /\ \A d \in Dispatches : \A b \in took[d] : b <= writes
               /\ \A b \in taken : b <= writes
BY DEF Consumed, Unspent, BornOnce, Born

LEMMA UnspentWritten ==
  ASSUME IInv, Consumed, NEW r, NEW v, NEW forced, mem'.rows = With(mem.rows, r, RowOf(v, forced)),
         UNCHANGED <<took, taken>>
  PROVE  Unspent(mem.rows)'
<1>1. /\ DOMAIN mem'.rows = DOMAIN mem.rows \cup {r}
      /\ mem'.rows[r].born = writes + 1
      /\ \A s \in DOMAIN mem.rows \ {r} : mem'.rows[s] = mem.rows[s]
  BY DEF With, RowOf
<1>2. Unspent(mem.rows) /\ (\A e \in Dispatches : \A b \in took[e] : b <= writes)
      /\ \A b \in taken : b <= writes
  BY ConsumedRows
<1>3. writes \in Nat /\ \A s \in DOMAIN mem.rows : mem.rows[s].born \in 1..writes
  BY DEF IInv, StoreShapes, TypeOK, Dated
<1>4. ~(writes + 1 <= writes)
  BY <1>3
<1>5. \A s \in DOMAIN mem.rows : mem.rows[s].born # writes + 1
  BY <1>3
<1>6. QED
  BY <1>1, <1>2, <1>4, <1>5 DEF Unspent

LEMMA RowsConsumed ==
  ASSUME IInv, Consumed, NEW d \in Dispatches, RowsStep(d),
         writes' = writes + 1, UNCHANGED <<disk, taken>>
  PROVE  Consumed'
<1>0. /\ Unspent(mem.rows) /\ BornOnce(disk)
      /\ taken \cap Born(disk) = {}
      /\ \A e \in Dispatches : took[e] \cap taken = {}
      /\ \A e, f \in Dispatches : e # f => took[e] \cap took[f] = {}
      /\ \A e \in Dispatches : \A b \in took[e] : b <= writes
      /\ \A b \in taken : b <= writes
  BY ConsumedRows
<1>n. writes \in Nat /\ took \in [Dispatches -> SUBSET (1..MaxWrites)] /\ taken \subseteq 1..MaxWrites
      /\ \A s \in DOMAIN mem.rows : mem.rows[s].born \in 1..writes
  BY DEF IInv, StoreShapes, TypeOK, Dated
<1>u. /\ BornOnce(disk)' /\ (taken \cap Born(disk) = {})'
      /\ \A b \in taken' : b <= writes'
  BY <1>0, <1>n DEF BornOnce, Born
<1>1. CASE UNCHANGED took
  <2>1. Unspent(mem.rows)'
    <3>1. CASE UNCHANGED <<mem.rows, took>>
      BY <1>0, <3>1 DEF Unspent
    <3>2. ASSUME NEW r \in RowKeys, NEW v \in Values, NEW forced \in BOOLEAN, Written(r, v, forced)
          PROVE  Unspent(mem.rows)'
      BY <1>1, <3>2, UnspentWritten DEF Written
    <3>3. ASSUME NEW r, mem'.rows = Drop(mem.rows, r) PROVE Unspent(mem.rows)'
      BY <1>0, <1>1, <3>3 DEF Unspent, Drop
    <3>4. QED
      BY <3>1, <3>2, <3>3 DEF RowsStep
  <2>2. \A e \in Dispatches : \A b \in took'[e] : b <= writes'
    BY <1>0, <1>1, <1>n
  <2>3. QED
    BY <1>0, <1>1, <1>u, <2>1, <2>2 DEF Consumed, Unspent, BornOnce, Born
<1>2. ASSUME NEW r \in DOMAIN mem.rows, mem'.rows = Drop(mem.rows, r),
             took' = [took EXCEPT ![d] = @ \cup {mem.rows[r].born}]
      PROVE  Consumed'
  <2> DEFINE b == mem.rows[r].born
  <2>1. /\ took'[d] = took[d] \cup {b}
        /\ \A e \in Dispatches \ {d} : took'[e] = took[e]
    BY <1>n, <1>2
  <2>2. b \in 1..writes /\ b \notin taken /\ \A e \in Dispatches : b \notin took[e]
    BY <1>0, <1>n, <1>2 DEF Unspent
  <2>3. /\ DOMAIN mem'.rows = DOMAIN mem.rows \ {r}
        /\ \A s \in DOMAIN mem.rows \ {r} : mem'.rows[s] = mem.rows[s]
    BY <1>2 DEF Drop
  <2>4. \A s \in DOMAIN mem.rows \ {r} : mem.rows[s].born # b
    BY <1>0, <1>2 DEF Unspent
  <2> HIDE DEF b
  <2>5. Unspent(mem.rows)'
    BY <1>0, <2>1, <2>2, <2>3, <2>4 DEF Unspent
  <2>6. \A e \in Dispatches : took'[e] \cap taken' = {}
    BY <1>0, <2>1, <2>2
  <2>7. \A e, f \in Dispatches : e # f => took'[e] \cap took'[f] = {}
    BY <1>0, <2>1, <2>2
  <2>8. \A e \in Dispatches : \A c \in took'[e] : c <= writes'
    <3>1. SUFFICES ASSUME NEW e \in Dispatches, NEW c \in took'[e] PROVE c <= writes'
      OBVIOUS
    <3>2. CASE c = b
      BY <1>n, <2>2, <3>2
    <3>3. CASE c # b
      <4>1. c \in took[e]
        BY <2>1, <3>1, <3>3
      <4>2. c \in 1..MaxWrites /\ c <= writes
        BY <1>0, <1>n, <4>1
      <4>3. QED
        BY <1>n, <4>2
    <3>4. QED
      BY <3>2, <3>3
  <2>9. QED
    BY <1>u, <2>5, <2>6, <2>7, <2>8 DEF Consumed, Unspent, BornOnce, Born
<1>3. QED
  BY <1>1, <1>2 DEF RowsStep

LEMMA SameRowsConsumed ==
  ASSUME IInv, Consumed, writes' \in {writes, writes + 1}, mem'.rows = mem.rows,
         UNCHANGED <<disk, took, taken>>
  PROVE  Consumed'
<1>1. writes \in Nat /\ took \in [Dispatches -> SUBSET (1..MaxWrites)] /\ taken \subseteq 1..MaxWrites
  BY DEF IInv, StoreShapes, TypeOK
<1>2. (\A d \in Dispatches : \A b \in took[d] : b <= writes') /\ \A b \in taken : b <= writes'
  <2>1. ASSUME NEW b \in 1..MaxWrites, b <= writes PROVE b <= writes'
    BY <1>1, <2>1
  <2>2. (\A d \in Dispatches : \A b \in took[d] : b <= writes) /\ \A b \in taken : b <= writes
    BY DEF Consumed
  <2>3. \A d \in Dispatches : \A b \in took[d] : b \in 1..MaxWrites
    BY <1>1
  <2>4. QED
    BY <1>1, <2>1, <2>2, <2>3
<1>3. QED
  BY <1>2 DEF Consumed, BornOnce, Born

LEMMA CloseConsumed ==
  ASSUME StoreAssumption, ~DiskMayFail, IInv, Consumed, NEW d \in Dispatches, CloseEffect(d)
  PROVE  Consumed'
<1>1. /\ disk' = mem /\ mem' = mem /\ writes' = writes /\ taken' \subseteq taken \cup took[d]
      /\ \A e \in Dispatches : took'[e] = IF e = d THEN {} ELSE took[e]
  BY DEF CloseEffect, IInv, StoreShapes, TypeOK
<1>2. QED
  BY <1>1 DEF Consumed, BornOnce, Born

LEMMA CrashConsumed == ASSUME Consumed, Crash PROVE Consumed'
<1>1. /\ mem' = disk /\ disk' = disk /\ writes' = writes /\ taken' = taken
      /\ \A e \in Dispatches : took'[e] = {}
  BY DEF Crash
<1>2. QED
  BY <1>1 DEF Consumed, BornOnce, Born

-----------------------------------------------------------------------------
(* What was answered                                                       *)

(* A table that keeps its entries.                                         *)
Retains(f, g) == \A k \in DOMAIN f : k \in DOMAIN g /\ g[k] = f[k]

LEMMA WithKeeps == ASSUME NEW f, NEW k, NEW v, k \notin DOMAIN f PROVE Retains(f, With(f, k, v))
BY DEF Retains, With

LEMMA BindsKept ==
  ASSUME NEW m, NEW n, NEW a, Binds(m, a),
         Retains(m.answers, n.answers), Retains(m.claims, n.claims), Retains(m.added, n.added)
  PROVE  Binds(n, a)
<1>1. CASE a.op = "claim"
  BY <1>1 DEF Binds, Retains
<1>2. CASE a.op = "add"
  BY <1>2 DEF Binds, Retains
<1>3. CASE a.op # "claim" /\ a.op # "add"
  BY <1>3 DEF Binds, Retains
<1>4. QED
  BY <1>1, <1>2, <1>3

(* An import that keeps the tables and tells its dispatch what binds.      *)
LEMMA TellPromised ==
  ASSUME IInv, Promised, NEW d \in Dispatches, UNCHANGED <<disk, kept>>,
         Retains(mem.answers, mem'.answers), Retains(mem.claims, mem'.claims),
         Retains(mem.added, mem'.added),
         UNCHANGED told \/ \E a : Binds(mem', a) /\ told' = [told EXCEPT ![d] = @ \cup {a}]
  PROVE  Promised'
<1>1. \A a : Binds(mem, a) => Binds(mem', a)
  BY BindsKept
<1>2. \A a \in kept' : Binds(mem', a) /\ Binds(disk', a)
  BY <1>1 DEF Promised
<1>3. \A e \in Dispatches : \A a \in told[e] : Binds(mem', a)
  BY <1>1 DEF Promised
<1>4. CASE UNCHANGED told
  BY <1>2, <1>3, <1>4 DEF Promised
<1>5. ASSUME NEW a, Binds(mem', a), told' = [told EXCEPT ![d] = @ \cup {a}] PROVE Promised'
  <2>1. DOMAIN told = Dispatches
    BY DEF IInv, StoreShapes, TypeOK
  <2>2. \A e \in Dispatches : \A b \in told'[e] : Binds(mem', b)
    BY <1>3, <1>5, <2>1
  <2>3. QED
    BY <1>2, <2>2 DEF Promised
<1>6. QED
  BY <1>4, <1>5

LEMMA KeepsSelf == \A f : Retains(f, f)
BY DEF Retains

LEMMA RecordPromised ==
  ASSUME IInv, Promised, NEW d \in Dispatches, RecordEffect(d) PROVE Promised'
<1>1. AnswersStep(d) /\ UNCHANGED <<mem.claims, mem.added, disk, kept>>
  BY DEF RecordEffect, Leaves
<1>2. CASE mem'.answers = mem.answers /\ told' = told
  BY <1>1, <1>2, KeepsSelf, TellPromised
<1>3. ASSUME NEW op \in RecordOps, NEW r \in RowKeys, NEW i \in Idems,
             NEW v \in Values \cup {NoValue}, NEW out \in Outcome, Answered(d, op, r, i, v, out)
      PROVE  Promised'
  <2>1. Retains(mem.answers, mem'.answers)
    BY <1>3, WithKeeps DEF Answered
  <2>2. Binds(mem', Answer(op, r, v, i, out))
    BY <1>3 DEF Answered, With, Answer, Binds, RecordOps
  <2>3. told' = [told EXCEPT ![d] = @ \cup {Answer(op, r, v, i, out)}]
    BY <1>3 DEF Answered
  <2>4. QED
    BY <1>1, <2>1, <2>2, <2>3, KeepsSelf, TellPromised
<1>4. QED
  BY <1>1, <1>2, <1>3 DEF AnswersStep

LEMMA ClaimPromised ==
  ASSUME IInv, Promised, NEW d \in Dispatches, NEW n, NEW o, NEW i, ClaimEffect(d, n, o, i)
  PROVE  Promised'
<1>1. Retains(mem.claims, mem'.claims)
  BY WithKeeps DEF ClaimEffect
<1>2. Binds(mem', Answer("claim", n, o, i, Plainly("unit")))
  BY DEF ClaimEffect, With, Answer, Binds
<1>3. QED
  BY <1>1, <1>2, KeepsSelf, TellPromised DEF ClaimEffect, Leaves

LEMMA AddPromised ==
  ASSUME IInv, Promised, NEW d \in Dispatches, NEW c, NEW delta, NEW i, AddEffect(d, c, delta, i)
  PROVE  Promised'
<1>1. UNCHANGED <<mem.answers, mem.claims, disk, kept>>
  BY DEF AddEffect, Leaves
<1>2. CASE UNCHANGED <<mem.added, told>>
  BY <1>1, <1>2, KeepsSelf, TellPromised
<1>3. CASE /\ i \in Idems /\ <<c, i>> \notin DOMAIN mem.added
           /\ mem'.added = With(mem.added, <<c, i>>, delta)
           /\ told' = [told EXCEPT ![d] = @ \cup {Answer("add", c, delta, i, Plainly("unit"))}]
  <2>1. Retains(mem.added, mem'.added)
    BY <1>3, WithKeeps
  <2>2. Binds(mem', Answer("add", c, delta, i, Plainly("unit")))
    BY <1>3 DEF With, Answer, Binds
  <2>3. QED
    BY <1>1, <1>3, <2>1, <2>2, KeepsSelf, TellPromised
<1>4. QED
  BY <1>2, <1>3 DEF AddEffect

(* The claim that is released binds no answer that is left.                *)
LEMMA ReleasePromised ==
  ASSUME StoreAssumption, IInv, Promised, NEW d \in Dispatches, NEW n, NEW o, Release(d, n, o)
  PROVE  Promised'
<1>1. /\ UNCHANGED <<disk, mem.answers, mem.added>>
      /\ mem.claims[n].owner = o /\ mem'.claims = Drop(mem.claims, n)
      /\ kept' = {a \in kept : NotOf(a, n, o)}
      /\ \A e \in Dispatches : told'[e] = {a \in told[e] : NotOf(a, n, o)}
  BY ReleaseEffect
<1>2. ASSUME NEW a, Binds(mem, a), NotOf(a, n, o) PROVE Binds(mem', a)
  <2>1. CASE a.op = "claim"
    <3>1. a.target \in DOMAIN mem.claims /\ mem.claims[a.target].owner = a.value
      BY <1>2, <2>1 DEF Binds
    <3>2. a.target # n
      BY <1>1, <1>2, <2>1, <3>1 DEF NotOf
    <3>3. a.target \in DOMAIN mem'.claims /\ mem'.claims[a.target].owner = a.value
      BY <1>1, <3>1, <3>2 DEF Drop
    <3>4. QED
      BY <2>1, <3>3 DEF Binds
  <2>2. CASE a.op # "claim"
    BY <1>1, <1>2, <2>2 DEF Binds
  <2>3. QED
    BY <2>1, <2>2
<1>3. QED
  BY <1>1, <1>2 DEF Promised

LEMMA RepeatPromised ==
  ASSUME IInv, Promised, NEW d \in Dispatches, RepeatEffect(d) PROVE Promised'
<1>1. mem' = mem /\ UNCHANGED <<disk, kept>>
  BY DEF RepeatEffect
<1>2. UNCHANGED told \/ \E a : Binds(mem', a) /\ told' = [told EXCEPT ![d] = @ \cup {a}]
  BY <1>1 DEF RepeatEffect
<1>3. QED
  BY <1>1, <1>2, KeepsSelf, TellPromised

LEMMA ClosePromised ==
  ASSUME ~DiskMayFail, IInv, Promised, NEW d \in Dispatches, CloseEffect(d) PROVE Promised'
<1>1. /\ disk' = mem /\ mem' = mem /\ kept' \subseteq kept \cup told[d]
      /\ \A e \in Dispatches : told'[e] = IF e = d THEN {} ELSE told[e]
  BY DEF CloseEffect, IInv, StoreShapes, TypeOK
<1>2. QED
  BY <1>1 DEF Promised

LEMMA CrashPromised == ASSUME Promised, Crash PROVE Promised'
<1>1. /\ mem' = disk /\ disk' = disk /\ kept' = kept /\ \A e \in Dispatches : told'[e] = {}
  BY DEF Crash
<1>2. QED
  BY <1>1 DEF Promised

-----------------------------------------------------------------------------
(* Every step keeps the invariant                                          *)

(* An import changes memory only; the last snapshot is as it was.          *)
LEMMA ImportKeeps ==
  ASSUME StoreAssumption, IInv, writes < MaxWrites, NEW d \in Dispatches,
         RecordStep(d) \/ SharedStep(d)
  PROVE  IInv'
<1>0. Distinct(mem) /\ Distinct(disk)
  BY UniqueIsDistinct DEF IInv
<1>1. CASE RecordStep(d)
  <2>1. RecordEffect(d)
    BY <1>1, RecordEffects
  <2>2. StoreShapes'
    BY <2>1, RecordShapes
  <2>3. UniqueHeld'
    <3>1. RowsStep(d) /\ disk' = disk
      BY <2>1 DEF RecordEffect, Leaves
    <3>2. Distinct(mem') /\ Distinct(disk')
      BY <1>0, <3>1, RowsDistinct
    <3>3. QED
      BY <3>2 DEF UniqueHeld, Distinct
  <2>4. ASSUME ~DiskMayFail PROVE Consumed' /\ Promised'
    <3>1. Consumed /\ Promised
      BY <2>4 DEF IInv
    <3>2. Consumed'
      BY <2>1, <3>1, RowsConsumed DEF RecordEffect, Leaves
    <3>3. Promised'
      BY <2>1, <3>1, RecordPromised
    <3>4. QED
      BY <3>2, <3>3
  <2>5. QED
    BY <2>2, <2>3, <2>4 DEF IInv
<1>2. ASSUME NEW n \in UniqueKeys, NEW o \in Owners, NEW i \in KeysOf["claim"], Claim(d, n, o, i)
      PROVE  IInv'
  <2>1. ClaimEffect(d, n, o, i)
    BY <1>2, SharedEffects
  <2>2. StoreShapes'
    BY <1>2, <2>1, ClaimShapes
  <2>3. /\ mem'.rows = mem.rows /\ writes' = writes + 1 /\ UNCHANGED <<disk, took, taken>>
    BY <2>1 DEF ClaimEffect, Leaves
  <2>4. UniqueHeld'
    BY <1>0, <2>3 DEF UniqueHeld, Distinct
  <2>5. ASSUME ~DiskMayFail PROVE Consumed' /\ Promised'
    BY <2>1, <2>3, <2>5, SameRowsConsumed, ClaimPromised DEF IInv
  <2>6. QED
    BY <2>2, <2>4, <2>5 DEF IInv
<1>3. ASSUME NEW n \in UniqueKeys, NEW o \in Owners, Release(d, n, o) PROVE IInv'
  <2>1. StoreShapes'
    BY <1>3, ReleaseShapes
  <2>2. /\ mem'.rows = mem.rows /\ writes' = writes + 1 /\ UNCHANGED <<disk, took, taken>>
    BY <1>3, ReleaseEffect
  <2>3. UniqueHeld'
    BY <1>0, <2>2 DEF UniqueHeld, Distinct
  <2>4. ASSUME ~DiskMayFail PROVE Consumed' /\ Promised'
    BY <1>3, <2>2, <2>4, SameRowsConsumed, ReleasePromised DEF IInv
  <2>5. QED
    BY <2>1, <2>3, <2>4 DEF IInv
<1>4. ASSUME NEW c \in Counters, NEW delta \in Deltas, NEW i \in KeysOf["add"], Add(d, c, delta, i)
      PROVE  IInv'
  <2>1. AddEffect(d, c, delta, i)
    BY <1>4, SharedEffects
  <2>2. StoreShapes'
    BY <1>4, <2>1, AddShapes
  <2>3. /\ mem'.rows = mem.rows /\ writes' = writes + 1 /\ UNCHANGED <<disk, took, taken>>
    BY <2>1 DEF AddEffect, Leaves
  <2>4. UniqueHeld'
    BY <1>0, <2>3 DEF UniqueHeld, Distinct
  <2>5. ASSUME ~DiskMayFail PROVE Consumed' /\ Promised'
    BY <2>1, <2>3, <2>5, SameRowsConsumed, AddPromised DEF IInv
  <2>6. QED
    BY <2>2, <2>4, <2>5 DEF IInv
<1>5. QED
  BY <1>1, <1>2, <1>3, <1>4 DEF SharedStep

LEMMA RepeatKeeps ==
  ASSUME StoreAssumption, IInv, NEW d \in Dispatches, RepeatedStep(d) PROVE IInv'
<1>1. RepeatEffect(d)
  BY RepeatEffects
<1>2. StoreShapes'
  BY <1>1, RepeatShapes
<1>3. mem' = mem /\ UNCHANGED <<disk, writes, took, taken>>
  BY <1>1 DEF RepeatEffect
<1>4. UniqueHeld'
  BY <1>3 DEF IInv, UniqueHeld
<1>5. ASSUME ~DiskMayFail PROVE Consumed' /\ Promised'
  BY <1>1, <1>3, <1>5, SameRowsConsumed, RepeatPromised DEF IInv
<1>6. QED
  BY <1>2, <1>4, <1>5 DEF IInv

(* At its end a dispatch leaves on disk what memory holds, or what was     *)
(* there.                                                                  *)
LEMMA CloseKeeps ==
  ASSUME StoreAssumption, IInv, NEW d \in Dispatches, FinishDispatch(d) \/ Trap(d) PROVE IInv'
<1>1. CloseEffect(d)
  BY CloseEffects
<1>2. StoreShapes'
  BY <1>1, CloseShapes
<1>3. UniqueHeld'
  BY <1>1 DEF IInv, UniqueHeld, CloseEffect
<1>4. ASSUME ~DiskMayFail PROVE Consumed' /\ Promised'
  BY <1>1, <1>4, CloseConsumed, ClosePromised DEF IInv
<1>5. QED
  BY <1>2, <1>3, <1>4 DEF IInv

(* After a crash memory is what the disk holds.                            *)
LEMMA CrashKeeps == ASSUME IInv, Crash PROVE IInv'
<1>1. StoreShapes'
  BY CrashShapes
<1>2. UniqueHeld'
  BY DEF Crash, IInv, UniqueHeld
<1>3. ASSUME ~DiskMayFail PROVE Consumed' /\ Promised'
  BY <1>3, CrashConsumed, CrashPromised DEF IInv
<1>4. QED
  BY <1>1, <1>2, <1>3 DEF IInv

LEMMA StutterKeeps == ASSUME IInv, UNCHANGED vars PROVE IInv'
<1>1. StoreShapes'
  BY DEF IInv, StoreShapes, TypeOK, Dated, vars
<1>2. UniqueHeld'
  BY DEF IInv, UniqueHeld, vars
<1>3. Consumed <=> Consumed'
  BY DEF Consumed, BornOnce, Born, vars
<1>4. Promised <=> Promised'
  BY DEF Promised, vars
<1>5. QED
  BY <1>1, <1>2, <1>3, <1>4 DEF IInv

LEMMA Inductive == StoreAssumption /\ IInv /\ [Next]_vars => IInv'
<1> SUFFICES ASSUME StoreAssumption, IInv, [Next]_vars PROVE IInv'
  OBVIOUS
<1>1. CASE Next
  BY <1>1, ImportKeeps, RepeatKeeps, CloseKeeps, CrashKeeps DEF Next
<1>2. CASE UNCHANGED vars
  BY <1>2, StutterKeeps
<1>3. QED
  BY <1>1, <1>2

LEMMA Invariance == ASSUME StoreAssumption PROVE Spec => []IInv
<1>1. Init => IInv
  BY Initially, StoreAssumption
<1>2. IInv /\ [Next]_vars => IInv'
  BY Inductive, StoreAssumption
<1>3. QED
  BY <1>1, <1>2, PTL DEF Spec

-----------------------------------------------------------------------------
(* The store in memory and on disk keeps its shape, and counters saturate  *)
(* instead of wrapping.                                                    *)
THEOREM TypeCorrect == ASSUME StoreAssumption PROVE Spec => []TypeOK
<1>1. IInv => TypeOK
  BY DEF IInv, StoreShapes
<1>2. QED
  BY <1>1, Invariance, PTL

(* Two records of a collection share a @unique content only when enqueue   *)
(* put one of them there, in memory and on disk, whatever is lost.         *)
THEOREM ContentsUnique == ASSUME StoreAssumption PROVE Spec => []UniqueHeld
<1>1. IInv => UniqueHeld
  BY DEF IInv
<1>2. QED
  BY <1>1, Invariance, PTL

(* What a client was answered stays so across crashes, when every snapshot *)
(* is written.                                                             *)
THEOREM AnswersPermanent == ASSUME StoreAssumption, ~DiskMayFail PROVE Spec => []AnswersStand
<1>1. IInv => AnswersStand
  BY DEF IInv, StoreShapes, TypeOK, Promised, AnswersStand
<1>2. QED
  BY <1>1, Invariance, PTL

(* A value is consumed by one answered caller, when every snapshot is      *)
(* written.                                                                *)
THEOREM ConsumedByOne == ASSUME StoreAssumption, ~DiskMayFail PROVE Spec => []ConsumedOnce
<1>1. IInv => ConsumedOnce
  BY DEF IInv, StoreShapes, TypeOK, Consumed, Born, ConsumedOnce
<1>2. QED
  BY <1>1, Invariance, PTL

-----------------------------------------------------------------------------
(* Blobs: the inductive invariant                                          *)

MaybeCall == BlobCalls \cup {Absent}

Inside  == {"placing", "describing", "committing", "undoing", "unlinking", "clearing"}
Past    == {"clearing", "answered", "lost"}
Waits   == {"receiving", "waiting", "reading"}

UploadSteps ==
  {"receiving", "waiting", "placing", "describing", "committing", "undoing", "refused"} \cup Past
DeleteSteps   == {"waiting", "unlinking"} \cup Past
DownloadSteps == {"reading", "opening", "answered", "lost"}

Call == [op : {"none", "upload", "delete", "download"}, key : BlobKeys \cup {Absent},
         step : {"new", "unlinking", "reading", "opening"} \cup UploadSteps, saw : MaybeCall]

Shapes ==
  /\ manifests \in [BlobKeys -> MaybeCall] /\ line \in [BlobKeys -> Seq(BlobCalls)]
  /\ bodies \subseteq BlobCalls /\ temporaries \subseteq BlobCalls /\ drafts \subseteq BlobCalls
  /\ blobCall \in [BlobCalls -> Call]

(* A call takes the steps of its operation, and has seen nothing when it   *)
(* waits.                                                                  *)
CallFits(r) ==
  \/ r = Unmade
  \/ /\ r.key \in BlobKeys
     /\ \/ r.op = "upload" /\ r.step \in UploadSteps
        \/ r.op = "delete" /\ r.step \in DeleteSteps
        \/ r.op = "download" /\ r.step \in DownloadSteps
     /\ r.step \in Waits => r.saw = Absent

CallsFit == \A c \in BlobCalls : CallFits(blobCall[c])

Locked == \A c \in BlobCalls : blobCall[c].step \in Inside => HoldsLock(c)

(* Which upload may have which file.                                       *)
Owned ==
  /\ \A c \in bodies : blobCall[c].op = "upload"
       /\ blobCall[c].step \in {"describing", "committing", "undoing", "refused"} \cup Past
  /\ \A c \in BlobCalls : blobCall[c].step \in {"describing", "committing"} => c \in bodies
  /\ \A c \in temporaries : c \in strays \/ (blobCall[c].op = "upload"
       /\ blobCall[c].step \in {"receiving", "waiting", "placing", "undoing"})
  /\ \A c \in drafts : c \in strays \/ (blobCall[c].op = "upload"
       /\ blobCall[c].step \in {"committing", "undoing"})

(* A body that was committed for the key.                                  *)
Committed(d, k) ==
  d \in BlobCalls /\ blobCall[d].op = "upload" /\ blobCall[d].key = k /\ blobCall[d].step \in Past

Whole == \A k \in BlobKeys : manifests[k] # Absent => manifests[k] \in bodies /\ Committed(manifests[k], k)

(* Under the lock the manifest is the one that was read, then one's own.   *)
Seen(c) ==
  LET r == blobCall[c]
  IN /\ r.step \in Inside \ {"clearing"} => manifests[r.key] = r.saw
     /\ r.step = "clearing" => manifests[r.key] = (IF r.op = "upload" THEN c ELSE Absent)
     /\ r.op \in {"upload", "delete"} /\ r.saw # Absent =>
          r.saw # c /\ Committed(r.saw, r.key)

AllSeen == \A c \in BlobCalls : Seen(c)

BlobInv == Shapes /\ CallsFit /\ Locked /\ Owned /\ Whole /\ AllSeen /\ NothingLeft

(* What a step of a call leaves of the others.                             *)
Turn(c, r) ==
  /\ r \in Call /\ CallFits(r) /\ blobCall' = [blobCall EXCEPT ![c] = r]
  /\ blobCall'[c] = r /\ \A d \in BlobCalls \ {c} : blobCall'[d] = blobCall[d]

LEMMA BlobInitially == BlobAssumption /\ BlobInit => BlobInv
<1> SUFFICES ASSUME BlobAssumption, BlobInit PROVE BlobInv
  OBVIOUS
<1>1. Unmade \in Call
  BY DEF Unmade, Call, MaybeCall
<1>2. \A c \in BlobCalls : blobCall[c] = Unmade
  BY DEF BlobInit
<1>3. Shapes
  BY <1>1 DEF BlobInit, Shapes, MaybeCall
<1>4. CallsFit /\ Locked /\ Owned /\ Whole /\ AllSeen
  BY <1>2 DEF BlobInit, CallsFit, CallFits, Locked, Inside, Owned, Whole, AllSeen, Seen, Unmade
<1>5. NothingLeft
  BY DEF BlobInit, NothingLeft
<1>6. QED
  BY <1>3, <1>4, <1>5 DEF BlobInv

(* The same call, at another step, having seen something.                  *)
Now(c, to, saw) == [op |-> blobCall[c].op, key |-> blobCall[c].key, step |-> to, saw |-> saw]

LEMMA CallRecord ==
  ASSUME Shapes, NEW c \in BlobCalls
  PROVE  /\ blobCall[c] = Now(c, blobCall[c].step, blobCall[c].saw)
         /\ blobCall[c].key \in BlobKeys \cup {Absent} /\ blobCall[c].saw \in MaybeCall
BY DEF Shapes, Call, Now

LEMMA Turned ==
  ASSUME Shapes, NEW c \in BlobCalls, NEW r \in Call, CallFits(r),
         blobCall' = [blobCall EXCEPT ![c] = r]
  PROVE  Turn(c, r)
BY DEF Shapes, Turn

LEMMA Stepped ==
  ASSUME Shapes, NEW c \in BlobCalls, NEW to, blobCall' = [blobCall EXCEPT ![c].step = to]
  PROVE  blobCall' = [blobCall EXCEPT ![c] = Now(c, to, blobCall[c].saw)]
<1>1. blobCall[c] = [op |-> blobCall[c].op, key |-> blobCall[c].key, step |-> blobCall[c].step,
                     saw |-> blobCall[c].saw]
  BY DEF Shapes, Call
<1>2. [blobCall[c] EXCEPT !.step = to] = Now(c, to, blobCall[c].saw)
  BY <1>1 DEF Now
<1>3. blobCall' = [blobCall EXCEPT ![c] = [blobCall[c] EXCEPT !.step = to]]
  OBVIOUS
<1>4. QED
  BY <1>2, <1>3

Sees(c, to, saw) == blobCall' = [blobCall EXCEPT ![c].step = to, ![c].saw = saw]

LEMMA SteppedSeeing ==
  ASSUME Shapes, NEW c \in BlobCalls, NEW to, NEW saw, Sees(c, to, saw)
  PROVE  blobCall' = [blobCall EXCEPT ![c] = Now(c, to, saw)]
<1>1. PICK o, k, s, w : blobCall[c] = [op |-> o, key |-> k, step |-> s, saw |-> w]
  BY DEF Shapes, Call
<1>2. [blobCall[c] EXCEPT !.step = to, !.saw = saw] = [op |-> o, key |-> k, step |-> to, saw |-> saw]
  <2> DEFINE b == [blobCall[c] EXCEPT !.step = to]
  <2>1. b = [op |-> o, key |-> k, step |-> to, saw |-> w]
    BY <1>1
  <2> HIDE DEF b
  <2>2. [b EXCEPT !.saw = saw] = [op |-> o, key |-> k, step |-> to, saw |-> saw]
    BY <2>1
  <2>3. QED
    BY <2>2 DEF b
<1>3. Now(c, to, saw) = [op |-> o, key |-> k, step |-> to, saw |-> saw]
  BY <1>1 DEF Now
<1>4. blobCall' = [blobCall EXCEPT ![c] = [blobCall[c] EXCEPT !.step = to, !.saw = saw]]
  BY DEF Shapes, Sees
<1>5. QED
  BY <1>2, <1>3, <1>4

(* An upload or a deletion goes on.                                        *)
LEMMA Proceeds ==
  ASSUME BlobInv, NEW c \in BlobCalls, NEW from, NEW to, Steps(c, from, to),
         from \notin {"new", "refused", "reading", "opening", "answered", "lost"},
         to \in {"waiting", "refused", "undoing", "describing", "committing", "clearing", "answered"},
         blobCall[c].op = "delete" => to \in DeleteSteps,
         to = "waiting" => from = "receiving"
  PROVE  /\ Turn(c, Now(c, to, blobCall[c].saw)) /\ blobCall[c].step = from
         /\ blobCall[c].op \in {"upload", "delete"} /\ blobCall[c].key \in BlobKeys
<1>1. blobCall[c] \in Call /\ CallFits(blobCall[c]) /\ blobCall[c].step = from
  BY DEF BlobInv, Shapes, CallsFit, Steps
<1>2. blobCall[c].op \in {"upload", "delete"} /\ blobCall[c].key \in BlobKeys
  BY <1>1 DEF CallFits, Unmade, DownloadSteps
<1>3. from = "receiving" => blobCall[c].saw = Absent
  BY <1>1 DEF CallFits, Unmade, Waits
<1>4. Now(c, to, blobCall[c].saw) \in Call
  BY <1>1 DEF Now, Call, UploadSteps, Past
<1>5. CallFits(Now(c, to, blobCall[c].saw))
  BY <1>2, <1>3 DEF Now, CallFits, Waits, UploadSteps, Past
<1>6. QED
  BY <1>1, <1>2, <1>4, <1>5, Stepped, Turned DEF Steps, BlobInv

LEMMA OthersFit ==
  ASSUME BlobInv, NEW c \in BlobCalls, NEW r, Turn(c, r) PROVE CallsFit' /\ blobCall' \in [BlobCalls -> Call]
BY DEF BlobInv, CallsFit, Turn, Shapes

(* The holder of a lock is alone with its object.                          *)
LEMMA KeyOfCall ==
  ASSUME BlobInv, NEW c \in BlobCalls, blobCall[c].step \in Inside
  PROVE  /\ blobCall[c].key \in BlobKeys /\ blobCall[c].op \in {"upload", "delete"}
         /\ line[blobCall[c].key] # <<>> /\ Head(line[blobCall[c].key]) = c
<1>1. CallFits(blobCall[c]) /\ HoldsLock(c)
  BY DEF BlobInv, CallsFit, Locked
<1>2. QED
  BY <1>1 DEF CallFits, Unmade, Inside, DownloadSteps, HoldsLock

LEMMA Alone ==
  ASSUME BlobInv, NEW c \in BlobCalls, NEW d \in BlobCalls, blobCall[c].step \in Inside,
         blobCall[d].step \in Inside, blobCall[c].key = blobCall[d].key
  PROVE  c = d
BY KeyOfCall

(* Who joins a line changes nothing for its head; who leaves it was alone. *)
LEMMA LockedSame ==
  ASSUME BlobInv, NEW c \in BlobCalls, NEW r, Turn(c, r), line' = line,
         r.step \in Inside => HoldsLock(c) /\ r.key = blobCall[c].key
  PROVE  Locked'
BY DEF BlobInv, Locked, HoldsLock, Turn

LEMMA LockedQueued ==
  ASSUME BlobInv, NEW c \in BlobCalls, NEW r, Turn(c, r), NEW k \in BlobKeys, Queued(c, k),
         r.step \notin Inside
  PROVE  Locked' /\ line' \in [BlobKeys -> Seq(BlobCalls)]
<1>0. line \in [BlobKeys -> Seq(BlobCalls)]
  BY DEF BlobInv, Shapes
<1>1. /\ line' \in [BlobKeys -> Seq(BlobCalls)]
      /\ line'[k] = Append(line[k], c) /\ \A l \in BlobKeys \ {k} : line'[l] = line[l]
  BY <1>0, AppendProperties DEF Queued
<1>2. ASSUME NEW d \in BlobCalls, blobCall'[d].step \in Inside PROVE HoldsLock(d)'
  <2>1. d # c /\ blobCall'[d] = blobCall[d]
    BY <1>2 DEF Turn
  <2>2. /\ blobCall[d].key \in BlobKeys /\ line[blobCall[d].key] # <<>>
        /\ Head(line[blobCall[d].key]) = d
    BY <1>2, <2>1, KeyOfCall
  <2>3. line'[blobCall[d].key] # <<>> /\ Head(line'[blobCall[d].key]) = d
    <3>1. CASE blobCall[d].key = k
      <4>1. line[k] \in Seq(BlobCalls) /\ line[k] # <<>> /\ Head(line[k]) = d
        BY <1>0, <2>2, <3>1
      <4>2. Append(line[k], c) # <<>>
        BY <4>1, AppendProperties
      <4>3. Head(Append(line[k], c)) = Head(line[k])
        BY <4>1, HeadTailAppend
      <4>4. QED
        BY <1>1, <3>1, <4>1, <4>2, <4>3
    <3>2. CASE blobCall[d].key # k
      BY <1>1, <2>2, <3>2
    <3>3. QED
      BY <3>1, <3>2
  <2>4. QED
    BY <2>1, <2>3 DEF HoldsLock
<1>3. QED
  BY <1>1, <1>2 DEF Locked

LEMMA LockedReleased ==
  ASSUME BlobInv, NEW c \in BlobCalls, NEW r, Turn(c, r), Released(c),
         blobCall[c].step \in Inside, r.step \notin Inside
  PROVE  Locked' /\ line' \in [BlobKeys -> Seq(BlobCalls)]
<1>0. /\ line \in [BlobKeys -> Seq(BlobCalls)] /\ blobCall[c].key \in BlobKeys
      /\ line[blobCall[c].key] # <<>>
  BY KeyOfCall DEF BlobInv, Shapes
<1>1. /\ line' \in [BlobKeys -> Seq(BlobCalls)]
      /\ \A l \in BlobKeys \ {blobCall[c].key} : line'[l] = line[l]
  BY <1>0, HeadTailProperties DEF Released
<1>2. ASSUME NEW d \in BlobCalls, blobCall'[d].step \in Inside PROVE HoldsLock(d)'
  <2>1. d # c /\ blobCall'[d] = blobCall[d]
    BY <1>2 DEF Turn
  <2>2. /\ blobCall[d].key \in BlobKeys /\ line[blobCall[d].key] # <<>>
        /\ Head(line[blobCall[d].key]) = d
    BY <1>2, <2>1, KeyOfCall
  <2>3. blobCall[d].key # blobCall[c].key
    BY <1>2, <2>1, Alone
  <2>4. QED
    BY <1>1, <2>1, <2>2, <2>3 DEF HoldsLock
<1>3. QED
  BY <1>1, <1>2 DEF Locked

LEMMA StartUploadKeeps ==
  ASSUME BlobAssumption, BlobInv, NEW c \in BlobCalls, NEW k \in BlobKeys, StartUpload(c, k)
  PROVE  BlobInv'
<1>1. PICK s \in {"refused", "receiving"} :
        /\ blobCall' = [blobCall EXCEPT ![c] = [op |-> "upload", key |-> k, step |-> s, saw |-> Absent]]
        /\ temporaries' = IF s = "refused" THEN temporaries ELSE temporaries \cup {c}
  BY DEF StartUpload
<1>2. /\ blobCall[c] = Unmade /\ UNCHANGED <<manifests, bodies, drafts, line, strays, blobFaults>>
      /\ blobCall[c].op = "none" /\ blobCall[c].step = "new" /\ blobCall[c].saw = Absent
  BY DEF StartUpload, Unmade
<1> DEFINE r == [op |-> "upload", key |-> k, step |-> s, saw |-> Absent]
<1>3. /\ Turn(c, r) /\ r.op = "upload" /\ r.key = k /\ r.step = s /\ r.saw = Absent
  BY <1>1, Turned DEF BlobInv, Call, MaybeCall, CallFits, UploadSteps
<1> HIDE DEF r
<1>4. Shapes' /\ CallsFit'
  BY <1>1, <1>2, <1>3, OthersFit DEF BlobInv, Shapes
<1>5. Locked'
  BY <1>2, <1>3, LockedSame DEF Inside
<1>6. Owned'
  BY <1>1, <1>2, <1>3 DEF BlobInv, Owned, Turn, Past
<1>7. Whole'
  BY <1>2, <1>3 DEF BlobInv, Whole, Committed, Turn, Past
<1>8. AllSeen'
  BY <1>2, <1>3 DEF BlobInv, AllSeen, Seen, Committed, Turn, Past, Inside
<1>9. NothingLeft'
  BY <1>1, <1>2, <1>3 DEF BlobInv, Shapes, NothingLeft, InHand, Named, InFlight, Turn
<1>10. QED
  BY <1>4, <1>5, <1>6, <1>7, <1>8, <1>9 DEF BlobInv

LEMMA StartDeleteKeeps ==
  ASSUME BlobAssumption, BlobInv, NEW c \in BlobCalls, NEW k \in BlobKeys, StartDelete(c, k)
  PROVE  BlobInv'
<1>2. /\ blobCall[c] = Unmade /\ UNCHANGED <<manifests, bodies, temporaries, drafts, strays, blobFaults>>
      /\ blobCall[c].op = "none" /\ blobCall[c].step = "new" /\ blobCall[c].saw = Absent
  BY DEF StartDelete, Unmade
<1> DEFINE r == [op |-> "delete", key |-> k, step |-> "waiting", saw |-> Absent]
<1>3. /\ Turn(c, r) /\ r.op = "delete" /\ r.key = k /\ r.step = "waiting" /\ r.saw = Absent
  BY Turned DEF StartDelete, BlobInv, Call, MaybeCall, CallFits, UploadSteps, DeleteSteps
<1> HIDE DEF r
<1>4. Locked' /\ line' \in [BlobKeys -> Seq(BlobCalls)]
  BY <1>3, LockedQueued DEF StartDelete, Inside
<1>5. Shapes' /\ CallsFit'
  BY <1>2, <1>3, <1>4, OthersFit DEF BlobInv, Shapes
<1>6. Owned'
  BY <1>2, <1>3 DEF BlobInv, Owned, Turn, Past
<1>7. Whole'
  BY <1>2, <1>3 DEF BlobInv, Whole, Committed, Turn, Past
<1>8. AllSeen'
  BY <1>2, <1>3 DEF BlobInv, AllSeen, Seen, Committed, Turn, Past, Inside
<1>9. NothingLeft'
  BY <1>2, <1>3 DEF BlobInv, Shapes, NothingLeft, InHand, Named, InFlight, Turn
<1>10. QED
  BY <1>4, <1>5, <1>6, <1>7, <1>8, <1>9 DEF BlobInv

LEMMA ReceivedKeeps ==
  ASSUME BlobAssumption, BlobInv, NEW c \in BlobCalls, Received(c) PROVE BlobInv'
<1> DEFINE r == Now(c, "waiting", blobCall[c].saw)
<1>1. blobCall[c].op = "upload" /\ blobCall[c].saw = Absent /\ blobCall[c].step = "receiving"
  BY DEF BlobInv, CallsFit, CallFits, Received, Steps, Unmade, DeleteSteps, DownloadSteps, Past, Waits
<1>2. UNCHANGED <<manifests, bodies, temporaries, drafts, strays, blobFaults>>
  BY DEF Received
<1>3. /\ Turn(c, r) /\ blobCall[c].key \in BlobKeys
      /\ r.op = "upload" /\ r.key = blobCall[c].key /\ r.step = "waiting" /\ r.saw = Absent
  BY <1>1, Proceeds DEF Received, Now
<1> HIDE DEF r
<1>4. Locked' /\ line' \in [BlobKeys -> Seq(BlobCalls)]
  BY <1>3, LockedQueued DEF Received, Inside
<1>5. Shapes' /\ CallsFit'
  BY <1>2, <1>3, <1>4, OthersFit DEF BlobInv, Shapes
<1>6. Owned'
  BY <1>1, <1>2, <1>3 DEF BlobInv, Owned, Turn, Past
<1>7. Whole'
  BY <1>1, <1>2, <1>3 DEF BlobInv, Whole, Committed, Turn, Past
<1>8. AllSeen'
  BY <1>1, <1>2, <1>3 DEF BlobInv, AllSeen, Seen, Committed, Turn, Past, Inside
<1>9. NothingLeft'
  BY <1>1, <1>2, <1>3 DEF BlobInv, Shapes, NothingLeft, InHand, Named, InFlight, Turn
<1>10. QED
  BY <1>4, <1>5, <1>6, <1>7, <1>8, <1>9 DEF BlobInv

LEMMA InterruptedKeeps ==
  ASSUME BlobAssumption, BlobInv, NEW c \in BlobCalls, Interrupted(c) PROVE BlobInv'
<1> DEFINE r == Now(c, "refused", blobCall[c].saw)
<1>1. blobCall[c].op = "upload" /\ blobCall[c].saw = Absent /\ blobCall[c].step = "receiving"
  BY DEF BlobInv, CallsFit, CallFits, Interrupted, Steps, Unmade, DeleteSteps, DownloadSteps, Past, Waits
<1>2. UNCHANGED <<manifests, bodies, drafts, line, strays, blobFaults>> /\ temporaries' = temporaries \ {c}
  BY DEF Interrupted
<1>3. /\ Turn(c, r) /\ blobCall[c].key \in BlobKeys
      /\ r.op = "upload" /\ r.key = blobCall[c].key /\ r.step = "refused" /\ r.saw = Absent
  BY <1>1, Proceeds DEF Interrupted, Now
<1> HIDE DEF r
<1>4. Locked'
  BY <1>2, <1>3, LockedSame DEF Inside
<1>5. Shapes' /\ CallsFit'
  BY <1>2, <1>3, <1>4, OthersFit DEF BlobInv, Shapes
<1>6. Owned'
  BY <1>1, <1>2, <1>3 DEF BlobInv, Owned, Turn, Past
<1>7. Whole'
  BY <1>1, <1>2, <1>3 DEF BlobInv, Whole, Committed, Turn, Past
<1>8. AllSeen'
  BY <1>1, <1>2, <1>3 DEF BlobInv, AllSeen, Seen, Committed, Turn, Past, Inside
<1>9. NothingLeft'
  BY <1>1, <1>2, <1>3 DEF BlobAssumption, BlobInv, Shapes, Owned, Past, NothingLeft, InHand, Named, InFlight, Turn
<1>10. QED
  BY <1>4, <1>5, <1>6, <1>7, <1>8, <1>9 DEF BlobInv

(* A download changes nothing but what it saw.                             *)
LEMMA LookedKeeps ==
  ASSUME BlobAssumption, BlobInv, NEW c \in BlobCalls, NEW r, Turn(c, r), r.op = "download",
         blobCall[c].op \in {"none", "download"},
         UNCHANGED <<manifests, bodies, temporaries, drafts, line, strays>>
  PROVE  BlobInv'
<1>1. r.step \notin Inside
  BY DEF Turn, CallFits, Unmade, DownloadSteps, Inside
<1>2. Shapes' /\ CallsFit'
  BY OthersFit DEF BlobInv, Shapes
<1>3. Locked'
  BY <1>1, LockedSame
<1>4. Owned'
  BY <1>1 DEF BlobInv, Owned, Turn, Inside
<1>5. Whole'
  BY DEF BlobInv, Whole, Committed, Turn
<1>6. AllSeen'
  <2>1. Seen(c)'
    BY <1>1 DEF Turn, Seen, Inside, CallFits, Unmade
  <2>2. ASSUME NEW d \in BlobCalls \ {c} PROVE Seen(d)'
    BY <2>2 DEF BlobInv, AllSeen, Seen, Turn, Committed
  <2>3. QED
    BY <2>1, <2>2 DEF AllSeen
<1>7. NothingLeft'
  <2>1. InHand \ {Absent} \subseteq InHand'
    <3> SUFFICES ASSUME NEW d \in BlobCalls, InFlight(d), blobCall[d].op # "download",
                        d = c
                 PROVE  FALSE
      BY DEF InHand, InFlight, Turn
    <3>1. blobCall[c] = Unmade
      BY DEF BlobInv, CallsFit, CallFits
    <3>2. QED
      BY <3>1 DEF InFlight, Unmade
  <2>2. Absent \notin bodies /\ Absent \notin temporaries /\ Absent \notin drafts
    BY DEF BlobAssumption, BlobInv, Shapes
  <2>3. QED
    BY <2>1, <2>2 DEF BlobInv, NothingLeft, Named
<1>8. QED
  BY <1>2, <1>3, <1>4, <1>5, <1>6, <1>7 DEF BlobInv

Downloads(c) == (\E k \in BlobKeys : StartDownload(c, k)) \/ ReadManifest(c) \/ Open(c)

LEMMA DownloadKeeps ==
  ASSUME BlobAssumption, BlobInv, NEW c \in BlobCalls, Downloads(c) PROVE BlobInv'
<1>1. UNCHANGED <<manifests, bodies, temporaries, drafts, line, strays>>
  BY DEF Downloads, StartDownload, ReadManifest, Open
<1>2. blobCall[c] \in Call /\ CallFits(blobCall[c]) /\ manifests \in [BlobKeys -> MaybeCall]
  BY DEF BlobInv, Shapes, CallsFit
<1>3. ASSUME NEW k \in BlobKeys, StartDownload(c, k) PROVE BlobInv'
  <2> DEFINE r == [op |-> "download", key |-> k, step |-> "reading", saw |-> Absent]
  <2>1. blobCall[c] = Unmade /\ blobCall' = [blobCall EXCEPT ![c] = r]
    BY <1>3 DEF StartDownload
  <2>2. r \in Call /\ CallFits(r) /\ r.op = "download"
    BY DEF Call, MaybeCall, CallFits, DownloadSteps
  <2>3. Turn(c, r) /\ blobCall[c].op = "none"
    <3>1. Turn(c, r)
      BY <2>1, <2>2, Turned DEF BlobInv
    <3>2. QED
      BY <2>1, <3>1 DEF Unmade
  <2> HIDE DEF r
  <2>4. QED
    BY <1>1, <2>2, <2>3, LookedKeeps
<1>4. ASSUME NEW to \in {"answered", "opening"}, NEW saw \in MaybeCall,
             blobCall[c].step \in {"reading", "opening"},
             blobCall' = [blobCall EXCEPT ![c].step = to, ![c].saw = saw]
      PROVE  BlobInv'
  <2> DEFINE r == Now(c, to, saw)
  <2>1. blobCall[c].op = "download" /\ blobCall[c].key \in BlobKeys
    BY <1>2, <1>4 DEF CallFits, Unmade, UploadSteps, DeleteSteps, Past
  <2>2. blobCall' = [blobCall EXCEPT ![c] = r]
    BY <1>4, SteppedSeeing DEF BlobInv, Sees
  <2>3. Turn(c, r) /\ r.op = "download"
    <3>1. r \in Call /\ CallFits(r)
      BY <1>4, <2>1 DEF Now, Call, CallFits, DownloadSteps, UploadSteps, Past, Waits
    <3>2. QED
      BY <2>1, <2>2, <3>1, Turned DEF BlobInv, Now
  <2> HIDE DEF r
  <2>4. QED
    BY <1>1, <2>1, <2>3, LookedKeeps
<1>5. CASE ReadManifest(c)
  <2>1. blobCall[c].step = "reading"
    BY <1>5 DEF ReadManifest
  <2>2. blobCall[c].key \in BlobKeys
    BY <1>2, <2>1 DEF CallFits, Unmade
  <2>3. manifests[blobCall[c].key] \in MaybeCall
    BY <1>2, <2>2
  <2>4. QED
    BY <1>4, <1>5, <2>1, <2>3 DEF ReadManifest
<1>6. CASE Open(c)
  <2>1. PICK saw \in MaybeCall : blobCall' = [blobCall EXCEPT ![c].step = "answered", ![c].saw = saw]
    BY <1>2, <1>6 DEF Open, Call, MaybeCall
  <2>2. QED
    BY <1>4, <1>6, <2>1 DEF Open
<1>7. QED
  BY <1>3, <1>5, <1>6 DEF Downloads

LEMMA ReadOldKeeps ==
  ASSUME BlobAssumption, BlobInv, NEW c \in BlobCalls, ReadOld(c) PROVE BlobInv'
<1> DEFINE next == IF blobCall[c].op = "upload" THEN "placing" ELSE "unlinking"
           old  == manifests[blobCall[c].key]
           r    == Now(c, next, old)
<1>1. /\ blobCall[c] \in Call /\ CallFits(blobCall[c]) /\ blobCall[c].step = "waiting" /\ HoldsLock(c)
      /\ UNCHANGED <<manifests, bodies, temporaries, drafts, line, strays, blobFaults>>
  BY DEF ReadOld, BlobInv, Shapes, CallsFit
<1>0. blobCall' = [blobCall EXCEPT ![c].step = next, ![c].saw = old]
  BY DEF ReadOld
<1>2. blobCall[c].op \in {"upload", "delete"} /\ blobCall[c].key \in BlobKeys /\ blobCall[c].saw = Absent
  BY <1>1 DEF CallFits, Unmade, DownloadSteps, Waits
<1>n. next \in {"placing", "unlinking"} /\ (blobCall[c].op = "upload" <=> next = "placing")
  OBVIOUS
<1> HIDE DEF next
<1>3. old \in MaybeCall
  BY <1>2 DEF BlobInv, Shapes
<1> HIDE DEF old
<1>4. blobCall' = [blobCall EXCEPT ![c] = r]
  BY <1>0, SteppedSeeing DEF BlobInv, Sees
<1>5. Turn(c, r)
  <2>1. r \in Call /\ CallFits(r)
    BY <1>2, <1>3, <1>n DEF Now, Call, CallFits, UploadSteps, DeleteSteps, Past, Waits
  <2>2. QED
    BY <1>4, <2>1, Turned DEF BlobInv
<1>6. /\ r.op = blobCall[c].op /\ r.key = blobCall[c].key /\ r.step = next /\ r.saw = old
      /\ r.step \in {"placing", "unlinking"} /\ (r.op = "upload" <=> r.step = "placing")
  BY <1>n DEF Now
<1>7. old # Absent => old # c /\ Committed(old, blobCall[c].key) /\ old \in bodies
  BY <1>1, <1>2 DEF BlobInv, Whole, Committed, Past, old
<1> HIDE DEF r
<1>8. Shapes' /\ CallsFit'
  BY <1>1, <1>5, OthersFit DEF BlobInv, Shapes
<1>9. Locked'
  BY <1>1, <1>5, <1>6, LockedSame
<1>10. Owned'
  BY <1>1, <1>2, <1>5, <1>6 DEF BlobInv, Owned, Turn, Past
<1>11. Whole'
  BY <1>1, <1>5 DEF BlobInv, Whole, Committed, Turn, Past
<1>12. AllSeen'
  <2>1. Seen(c)'
    BY <1>1, <1>2, <1>5, <1>6, <1>7 DEF Turn, Seen, Inside, Committed, Past, old
  <2>2. ASSUME NEW d \in BlobCalls \ {c} PROVE Seen(d)'
    BY <1>1, <1>5, <2>2 DEF BlobInv, AllSeen, Seen, Turn, Committed, Past
  <2>3. QED
    BY <2>1, <2>2 DEF AllSeen
<1>13. NothingLeft'
  <2>1. InHand \ {Absent} \subseteq InHand'
    BY <1>1, <1>2, <1>5, <1>6 DEF InHand, InFlight, Turn
  <2>2. Absent \notin bodies /\ Absent \notin temporaries /\ Absent \notin drafts
    BY DEF BlobAssumption, BlobInv, Shapes
  <2>3. QED
    BY <1>1, <2>1, <2>2 DEF BlobInv, NothingLeft, Named
<1>14. QED
  BY <1>8, <1>9, <1>10, <1>11, <1>12, <1>13 DEF BlobInv

(* The steps of an upload that holds the lock, before the commit.          *)
LEMMA PlaceKeeps ==
  ASSUME BlobAssumption, BlobInv, NEW c \in BlobCalls, Place(c) PROVE BlobInv'
<1> DEFINE r == Now(c, "describing", blobCall[c].saw)
<1>1. blobCall[c].op = "upload" /\ blobCall[c].step = "placing"
  BY DEF BlobInv, CallsFit, CallFits, Place, Steps, Unmade, DeleteSteps, DownloadSteps, Past
<1>2. UNCHANGED <<manifests, drafts, line, strays, blobFaults>>
      /\ temporaries' = temporaries \ {c} /\ bodies' = bodies \cup {c}
  BY DEF Place
<1>3. /\ Turn(c, r) /\ blobCall[c].key \in BlobKeys /\ r.op = "upload" /\ r.key = blobCall[c].key
      /\ r.step = "describing" /\ r.saw = blobCall[c].saw
  BY <1>1, Proceeds DEF Place, Now
<1> HIDE DEF r
<1>4. Locked'
  BY <1>1, <1>2, <1>3, LockedSame DEF BlobInv, Locked, Inside
<1>5. Shapes' /\ CallsFit'
  BY <1>2, <1>3, OthersFit DEF BlobInv, Shapes
<1>6. Owned'
  BY <1>1, <1>2, <1>3 DEF BlobInv, Owned, Turn, Past
<1>7. Whole'
  BY <1>1, <1>2, <1>3 DEF BlobInv, Whole, Committed, Turn, Past
<1>8. AllSeen'
  BY <1>1, <1>2, <1>3 DEF BlobInv, AllSeen, Seen, Committed, Turn, Past, Inside
<1>9. NothingLeft'
  BY <1>1, <1>2, <1>3 DEF BlobInv, NothingLeft, InHand, Named, InFlight, Turn
<1>10. QED
  BY <1>4, <1>5, <1>6, <1>7, <1>8, <1>9 DEF BlobInv

LEMMA DescribeKeeps ==
  ASSUME BlobAssumption, BlobInv, NEW c \in BlobCalls, Describe(c) PROVE BlobInv'
<1> DEFINE r == Now(c, "committing", blobCall[c].saw)
<1>1. blobCall[c].op = "upload" /\ blobCall[c].step = "describing"
  BY DEF BlobInv, CallsFit, CallFits, Describe, Steps, Unmade, DeleteSteps, DownloadSteps, Past
<1>2. UNCHANGED <<manifests, bodies, temporaries, line, strays, blobFaults>> /\ drafts' = drafts \cup {c}
  BY DEF Describe
<1>3. /\ Turn(c, r) /\ blobCall[c].key \in BlobKeys /\ r.op = "upload" /\ r.key = blobCall[c].key
      /\ r.step = "committing" /\ r.saw = blobCall[c].saw
  BY <1>1, Proceeds DEF Describe, Now
<1> HIDE DEF r
<1>4. Locked'
  BY <1>1, <1>2, <1>3, LockedSame DEF BlobInv, Locked, Inside
<1>5. Shapes' /\ CallsFit'
  BY <1>2, <1>3, OthersFit DEF BlobInv, Shapes
<1>6. Owned'
  BY <1>1, <1>2, <1>3 DEF BlobInv, Owned, Turn, Past
<1>7. Whole'
  BY <1>1, <1>2, <1>3 DEF BlobInv, Whole, Committed, Turn, Past
<1>8. AllSeen'
  BY <1>1, <1>2, <1>3 DEF BlobInv, AllSeen, Seen, Committed, Turn, Past, Inside
<1>9. NothingLeft'
  BY <1>1, <1>2, <1>3 DEF BlobInv, NothingLeft, InHand, Named, InFlight, Turn
<1>10. QED
  BY <1>4, <1>5, <1>6, <1>7, <1>8, <1>9 DEF BlobInv

LEMMA FailKeeps ==
  ASSUME BlobAssumption, BlobInv, NEW c \in BlobCalls, FailIO(c) PROVE BlobInv'
<1> DEFINE r == Now(c, "undoing", blobCall[c].saw)
<1>0. PICK at \in {"placing", "describing", "committing"} : Steps(c, at, "undoing")
  BY DEF FailIO
<1>1. blobCall[c].op = "upload" /\ blobCall[c].step = at
  BY <1>0 DEF BlobInv, CallsFit, CallFits, Steps, Unmade, DeleteSteps, DownloadSteps, Past
<1>2. UNCHANGED <<manifests, bodies, temporaries, drafts, line, strays>>
  BY DEF FailIO
<1>3. /\ Turn(c, r) /\ blobCall[c].key \in BlobKeys /\ r.op = "upload" /\ r.key = blobCall[c].key
      /\ r.step = "undoing" /\ r.saw = blobCall[c].saw
  BY <1>0, <1>1, Proceeds DEF Now
<1> HIDE DEF r
<1>4. Locked'
  BY <1>1, <1>2, <1>3, LockedSame DEF BlobInv, Locked, Inside
<1>5. Shapes' /\ CallsFit'
  BY <1>2, <1>3, OthersFit DEF BlobInv, Shapes
<1>6. Owned'
  BY <1>1, <1>2, <1>3 DEF BlobInv, Owned, Turn, Past
<1>7. Whole'
  BY <1>1, <1>2, <1>3 DEF BlobInv, Whole, Committed, Turn, Past
<1>8. AllSeen'
  BY <1>1, <1>2, <1>3 DEF BlobInv, AllSeen, Seen, Committed, Turn, Past, Inside
<1>9. NothingLeft'
  BY <1>1, <1>2, <1>3 DEF BlobInv, NothingLeft, InHand, Named, InFlight, Turn
<1>10. QED
  BY <1>4, <1>5, <1>6, <1>7, <1>8, <1>9 DEF BlobInv

(* The manifest is renamed: the call that holds the lock made the body, and *)
(* the body it replaces stays in its hands.                                *)
LEMMA CommitKeeps ==
  ASSUME BlobAssumption, BlobInv, NEW c \in BlobCalls, Commit(c) PROVE BlobInv'
<1> DEFINE r == Now(c, "clearing", blobCall[c].saw)
           k == blobCall[c].key
<1>1. blobCall[c].op = "upload" /\ blobCall[c].step = "committing"
  BY DEF BlobInv, CallsFit, CallFits, Commit, Steps, Unmade, DeleteSteps, DownloadSteps, Past
<1>3. /\ Turn(c, r) /\ k \in BlobKeys /\ r.op = "upload" /\ r.key = k
      /\ r.step = "clearing" /\ r.saw = blobCall[c].saw
  BY <1>1, Proceeds DEF Commit, Now
<1>2. /\ UNCHANGED <<bodies, temporaries, line, strays, blobFaults>> /\ drafts' = drafts \ {c}
      /\ manifests' \in [BlobKeys -> MaybeCall] /\ manifests'[k] = c
      /\ \A l \in BlobKeys \ {k} : manifests'[l] = manifests[l]
  BY <1>3 DEF Commit, BlobInv, Shapes, MaybeCall
<1> HIDE DEF r, k
<1>n. k = blobCall[c].key
  BY DEF k
<1>m. manifests[k] = blobCall[c].saw
  BY <1>1, <1>3, <1>n DEF BlobInv, AllSeen, Seen, Inside
<1>4. Locked'
  BY <1>1, <1>2, <1>3, <1>n, LockedSame DEF BlobInv, Locked, Inside
<1>5. Shapes' /\ CallsFit'
  BY <1>2, <1>3, OthersFit DEF BlobInv, Shapes
<1>6. Owned'
  BY <1>1, <1>2, <1>3 DEF BlobInv, Owned, Turn, Past
<1>b. c \in bodies
  BY <1>1 DEF BlobInv, Owned
<1>7. Whole'
  BY <1>1, <1>2, <1>3, <1>b DEF BlobInv, Whole, Committed, Turn, Past
<1>8. AllSeen'
  <2>1. Seen(c)'
    BY <1>1, <1>2, <1>3, <1>n DEF BlobInv, AllSeen, Seen, Committed, Turn, Past, Inside
  <2>2. ASSUME NEW d \in BlobCalls \ {c} PROVE Seen(d)'
    <3>1. blobCall[d].step \in Inside => blobCall[d].key # k /\ blobCall[d].key \in BlobKeys
      BY <1>1, <1>n, <2>2, Alone, KeyOfCall DEF Inside
    <3>2. Seen(d) /\ blobCall'[d] = blobCall[d]
      BY <1>3, <2>2 DEF BlobInv, AllSeen, Turn
    <3>3. blobCall[d].step \in Inside => manifests'[blobCall[d].key] = manifests[blobCall[d].key]
      BY <1>2, <3>1
    <3>4. \A b, l : Committed(b, l) => Committed(b, l)'
      BY <1>1, <1>3 DEF Committed, Turn, Past
    <3>5. QED
      BY <3>2, <3>3, <3>4 DEF Seen, Inside
  <2>3. QED
    BY <2>1, <2>2 DEF AllSeen
<1>9. NothingLeft'
  <2>1. InHand' = InHand /\ blobCall[c].saw \in InHand
    BY <1>1, <1>3 DEF InHand, InFlight, Turn
  <2>2. Named \subseteq Named' \cup {blobCall[c].saw}
    BY <1>2, <1>m DEF Named
  <2>3. QED
    BY <1>2, <2>1, <2>2 DEF BlobInv, NothingLeft
<1>10. QED
  BY <1>4, <1>5, <1>6, <1>7, <1>8, <1>9 DEF BlobInv

LEMMA UndoKeeps ==
  ASSUME BlobAssumption, BlobInv, NEW c \in BlobCalls, Undo(c) PROVE BlobInv'
<1> DEFINE r == Now(c, "refused", blobCall[c].saw)
<1>1. blobCall[c].op = "upload" /\ blobCall[c].step = "undoing"
  BY DEF BlobInv, CallsFit, CallFits, Undo, Steps, Unmade, DeleteSteps, DownloadSteps, Past
<1>2. /\ temporaries' = temporaries \ {c} /\ UNCHANGED <<manifests, blobFaults>>
      /\ bodies' \subseteq bodies /\ bodies \ {c} \subseteq bodies' /\ drafts' \subseteq drafts
      /\ strays \subseteq strays' /\ strays' \subseteq strays \cup {c}
      /\ c \in bodies' \cup drafts' => c \in strays'
  BY DEF Undo
<1>3. /\ Turn(c, r) /\ blobCall[c].key \in BlobKeys /\ r.op = "upload" /\ r.key = blobCall[c].key
      /\ r.step = "refused" /\ r.saw = blobCall[c].saw
  BY <1>1, Proceeds DEF Undo, Now
<1> HIDE DEF r
<1>4. Locked' /\ line' \in [BlobKeys -> Seq(BlobCalls)]
  BY <1>1, <1>3, LockedReleased DEF Undo, Inside
<1>5. Shapes' /\ CallsFit'
  BY <1>2, <1>3, <1>4, OthersFit DEF BlobInv, Shapes
<1>6. Owned'
  BY <1>1, <1>2, <1>3 DEF BlobInv, Owned, Turn, Past
<1>7. Whole'
  BY <1>1, <1>2, <1>3 DEF BlobInv, Whole, Committed, Turn, Past
<1>8. AllSeen'
  BY <1>1, <1>2, <1>3 DEF BlobInv, AllSeen, Seen, Committed, Turn, Past, Inside
<1>9. NothingLeft'
  <2>1. blobCall[c].saw \in Named
    BY <1>1, <1>3 DEF BlobInv, AllSeen, Seen, Inside, Named
  <2>2. InHand \subseteq InHand' \cup {c, blobCall[c].saw}
    BY <1>3 DEF InHand, InFlight, Turn
  <2>3. \A d \in temporaries \cup drafts : d \in strays \/ (InFlight(d) /\ blobCall[d].op = "upload")
    BY DEF BlobInv, Owned, InFlight
  <2>4. \A d \in temporaries \cup drafts : d = c \/ d \in strays \/ d \in InHand'
    BY <1>3, <2>3 DEF InHand, InFlight, Turn, BlobInv, Shapes
  <2>5. QED
    BY <1>2, <2>1, <2>2, <2>4 DEF BlobInv, NothingLeft, Named
<1>10. QED
  BY <1>4, <1>5, <1>6, <1>7, <1>8, <1>9 DEF BlobInv

(* The manifest is unlinked, and its body is the deletion's to remove.     *)
LEMMA UnlinkKeeps ==
  ASSUME BlobAssumption, BlobInv, NEW c \in BlobCalls, UnlinkManifest(c) PROVE BlobInv'
<1> DEFINE r == Now(c, "clearing", blobCall[c].saw)
           k == blobCall[c].key
<1>1. blobCall[c].op = "delete" /\ blobCall[c].step = "unlinking"
  BY DEF BlobInv, CallsFit, CallFits, UnlinkManifest, Steps, Unmade, UploadSteps, DownloadSteps, Past
<1>3. /\ Turn(c, r) /\ k \in BlobKeys /\ r.op = "delete" /\ r.key = k
      /\ r.step = "clearing" /\ r.saw = blobCall[c].saw
  BY <1>1, Proceeds DEF UnlinkManifest, Now, DeleteSteps, Past
<1>2. /\ UNCHANGED <<bodies, temporaries, drafts, line, strays, blobFaults>>
      /\ manifests' \in [BlobKeys -> MaybeCall] /\ manifests'[k] = Absent
      /\ \A l \in BlobKeys \ {k} : manifests'[l] = manifests[l]
  BY <1>3 DEF UnlinkManifest, BlobInv, Shapes, MaybeCall
<1> HIDE DEF r, k
<1>n. k = blobCall[c].key
  BY DEF k
<1>m. manifests[k] = blobCall[c].saw
  BY <1>1, <1>3, <1>n DEF BlobInv, AllSeen, Seen, Inside
<1>4. Locked'
  BY <1>1, <1>2, <1>3, <1>n, LockedSame DEF BlobInv, Locked, Inside
<1>5. Shapes' /\ CallsFit'
  BY <1>2, <1>3, OthersFit DEF BlobInv, Shapes
<1>6. Owned'
  BY <1>1, <1>2, <1>3 DEF BlobInv, Owned, Turn, Past
<1>7. Whole'
  BY <1>1, <1>2, <1>3 DEF BlobInv, Whole, Committed, Turn, Past
<1>8. AllSeen'
  <2>1. Seen(c)'
    BY <1>1, <1>2, <1>3, <1>n DEF BlobInv, AllSeen, Seen, Committed, Turn, Past, Inside
  <2>2. ASSUME NEW d \in BlobCalls \ {c} PROVE Seen(d)'
    <3>1. blobCall[d].step \in Inside => blobCall[d].key # k /\ blobCall[d].key \in BlobKeys
      BY <1>1, <1>n, <2>2, Alone, KeyOfCall DEF Inside
    <3>2. Seen(d) /\ blobCall'[d] = blobCall[d]
      BY <1>3, <2>2 DEF BlobInv, AllSeen, Turn
    <3>3. blobCall[d].step \in Inside => manifests'[blobCall[d].key] = manifests[blobCall[d].key]
      BY <1>2, <3>1
    <3>4. \A b, l : Committed(b, l) => Committed(b, l)'
      BY <1>1, <1>3 DEF Committed, Turn, Past
    <3>5. QED
      BY <3>2, <3>3, <3>4 DEF Seen, Inside
  <2>3. QED
    BY <2>1, <2>2 DEF AllSeen
<1>9. NothingLeft'
  <2>1. InHand' = InHand /\ blobCall[c].saw \in InHand
    BY <1>1, <1>3 DEF InHand, InFlight, Turn
  <2>2. Named \subseteq Named' \cup {blobCall[c].saw}
    BY <1>2, <1>m DEF Named
  <2>3. QED
    BY <1>2, <2>1, <2>2 DEF BlobInv, NothingLeft
<1>10. QED
  BY <1>4, <1>5, <1>6, <1>7, <1>8, <1>9 DEF BlobInv

(* The old body goes, which no manifest names any more, or is left for     *)
(* good.                                                                   *)
LEMMA ClearKeeps ==
  ASSUME BlobAssumption, BlobInv, NEW c \in BlobCalls, Clear(c) PROVE BlobInv'
<1> DEFINE r == Now(c, "answered", blobCall[c].saw)
           old == blobCall[c].saw
<1>1. blobCall[c].step = "clearing" /\ blobCall[c].op \in {"upload", "delete"}
      /\ blobCall[c].key \in BlobKeys
  BY KeyOfCall DEF Clear, Steps, Inside
<1>2. /\ UNCHANGED <<manifests, temporaries, drafts>> /\ strays \subseteq strays'
      /\ bodies' \subseteq bodies /\ bodies \ {old} \subseteq bodies'
      /\ old \in bodies' => old \in strays'
  BY DEF BlobAssumption, Clear, BlobInv, Shapes
<1>3. /\ Turn(c, r) /\ r.op = blobCall[c].op /\ r.key = blobCall[c].key
      /\ r.step = "answered" /\ r.saw = old
  BY <1>1, Proceeds DEF Clear, Now, DeleteSteps, Past
<1> HIDE DEF r
<1>4. Locked' /\ line' \in [BlobKeys -> Seq(BlobCalls)]
  BY <1>1, <1>3, LockedReleased DEF Clear, Inside
<1>5. Shapes' /\ CallsFit'
  BY <1>2, <1>3, <1>4, OthersFit DEF BlobInv, Shapes
<1>s. Seen(c)
  BY DEF BlobInv, AllSeen
<1>6. Owned'
  <2>1. \A d \in BlobCalls : blobCall[d].step \in {"describing", "committing"} => d # old
    BY <1>1, <1>s DEF Seen, Committed, Past
  <2>2. QED
    BY <1>1, <1>2, <1>3, <2>1 DEF BlobInv, Owned, Turn, Past
<1>7. Whole'
  <2> SUFFICES ASSUME NEW k \in BlobKeys, manifests[k] # Absent
               PROVE  manifests[k] \in bodies' /\ Committed(manifests[k], k)'
    BY <1>2 DEF Whole
  <2>1. manifests[k] \in bodies /\ Committed(manifests[k], k)
    BY DEF BlobInv, Whole
  <2>2. manifests[k] # old
    <3>1. CASE k = blobCall[c].key
      BY <1>1, <1>s, <3>1 DEF Seen
    <3>2. CASE k # blobCall[c].key
      BY <1>1, <1>s, <2>1, <3>2 DEF Seen, Committed
    <3>3. QED
      BY <3>1, <3>2
  <2>3. QED
    BY <1>1, <1>2, <1>3, <2>1, <2>2 DEF Committed, Turn, Past
<1>8. AllSeen'
  <2>1. \A b, l : Committed(b, l) => Committed(b, l)'
    BY <1>1, <1>3 DEF Committed, Turn, Past
  <2>2. ASSUME NEW d \in BlobCalls PROVE Seen(d)'
    <3>1. Seen(d) /\ (d # c => blobCall'[d] = blobCall[d])
      BY <1>3, <2>2 DEF BlobInv, AllSeen, Turn
    <3>2. QED
      BY <1>1, <1>2, <1>3, <2>1, <3>1 DEF Seen, Inside, Turn
  <2>3. QED
    BY <2>2 DEF AllSeen
<1>9. NothingLeft'
  <2>1. InHand \subseteq InHand' \cup {c, old}
    BY <1>3 DEF InHand, InFlight, Turn
  <2>2. c \in bodies => c \in Named
    BY <1>1, <1>s DEF BlobInv, Owned, Seen, Named
  <2>3. \A d \in temporaries \cup drafts : d \in strays \/ (InFlight(d) /\ d # c /\ blobCall[d].op = "upload")
    BY <1>1 DEF BlobInv, Owned, InFlight
  <2>4. \A d \in temporaries \cup drafts : d \in strays \/ d \in InHand'
    BY <1>3, <2>3 DEF InHand, InFlight, Turn, BlobInv, Shapes
  <2>5. QED
    BY <1>2, <2>1, <2>2, <2>4 DEF BlobInv, NothingLeft, Named
<1>10. QED
  BY <1>4, <1>5, <1>6, <1>7, <1>8, <1>9 DEF BlobInv

(* After a crash every call is over, and every file is named or a stray.   *)
LEMMA RestartKeeps == ASSUME BlobAssumption, BlobInv, Restart PROVE BlobInv'
<1>1. /\ UNCHANGED <<manifests, bodies, temporaries, drafts>>
      /\ strays' = strays \cup temporaries \cup drafts \cup (bodies \ Named)
      /\ line' = [k \in BlobKeys |-> <<>>]
  BY DEF Restart
<1>2. \A c \in BlobCalls : IF InFlight(c) THEN blobCall'[c] = Now(c, "lost", blobCall[c].saw)
                                          ELSE blobCall'[c] = blobCall[c]
  <2> SUFFICES ASSUME NEW c \in BlobCalls
               PROVE  IF InFlight(c) THEN blobCall'[c] = Now(c, "lost", blobCall[c].saw)
                                     ELSE blobCall'[c] = blobCall[c]
    OBVIOUS
  <2>1. PICK o, k, s, w : blobCall[c] = [op |-> o, key |-> k, step |-> s, saw |-> w]
    BY DEF BlobInv, Shapes, Call
  <2>2. blobCall'[c] = IF InFlight(c) THEN [blobCall[c] EXCEPT !.step = "lost"] ELSE blobCall[c]
    BY DEF Restart
  <2>3. [blobCall[c] EXCEPT !.step = "lost"] = [op |-> o, key |-> k, step |-> "lost", saw |-> w]
    BY <2>1
  <2>4. Now(c, "lost", blobCall[c].saw) = [op |-> o, key |-> k, step |-> "lost", saw |-> w]
    BY <2>1 DEF Now
  <2>5. QED
    BY <2>2, <2>3, <2>4
<1>3. \A c \in BlobCalls : blobCall'[c] \in Call /\ CallFits(blobCall[c])'
                           /\ blobCall'[c].step \notin Inside /\ ~InFlight(c)'
  <2> SUFFICES ASSUME NEW c \in BlobCalls
               PROVE  blobCall'[c] \in Call /\ CallFits(blobCall'[c])
                      /\ blobCall'[c].step \notin Inside /\ ~InFlight(c)'
    OBVIOUS
  <2>1. blobCall[c] \in Call /\ CallFits(blobCall[c])
    BY DEF BlobInv, Shapes, CallsFit
  <2>2. CASE InFlight(c)
    <3> DEFINE r == Now(c, "lost", blobCall[c].saw)
    <3>1. blobCall'[c] = r
      BY <1>2, <2>2
    <3>2. r \in Call /\ r.step = "lost"
      BY <2>1 DEF Now, Call, UploadSteps, Past
    <3>3. blobCall[c].op # "none"
      BY <2>1, <2>2 DEF CallFits, Unmade, InFlight
    <3>4. CallFits(r)
      BY <2>1, <3>3 DEF Now, CallFits, Unmade, UploadSteps, DeleteSteps, DownloadSteps, Past, Waits
    <3> HIDE DEF r
    <3>5. QED
      BY <3>1, <3>2, <3>4 DEF Inside, InFlight
  <2>3. CASE ~InFlight(c)
    <3>1. blobCall'[c] = blobCall[c]
      BY <1>2, <2>3
    <3>2. QED
      BY <2>1, <2>3, <3>1 DEF InFlight, Inside
  <2>4. QED
    BY <2>2, <2>3
<1>f. \A c \in BlobCalls :
        /\ blobCall'[c].op = blobCall[c].op /\ blobCall'[c].key = blobCall[c].key
        /\ blobCall'[c].saw = blobCall[c].saw
        /\ blobCall'[c].step = IF InFlight(c) THEN "lost" ELSE blobCall[c].step
  <2> SUFFICES ASSUME NEW c \in BlobCalls
               PROVE  /\ blobCall'[c].op = blobCall[c].op /\ blobCall'[c].key = blobCall[c].key
                      /\ blobCall'[c].saw = blobCall[c].saw
                      /\ blobCall'[c].step = IF InFlight(c) THEN "lost" ELSE blobCall[c].step
    OBVIOUS
  <2>1. CASE InFlight(c)
    <3>1. blobCall'[c] = Now(c, "lost", blobCall[c].saw)
      BY <1>2, <2>1
    <3>2. QED
      BY <2>1, <3>1 DEF Now
  <2>2. CASE ~InFlight(c)
    BY <1>2, <2>2
  <2>3. QED
    BY <2>1, <2>2
<1>4. Shapes'
  <2>1. blobCall' \in [BlobCalls -> Call]
    BY <1>3 DEF Restart
  <2>2. line' \in [BlobKeys -> Seq(BlobCalls)]
    BY <1>1
  <2>3. QED
    BY <1>1, <2>1, <2>2 DEF BlobInv, Shapes
<1>5. CallsFit' /\ Locked'
  BY <1>3 DEF CallsFit, Locked
<1>6. \A b, l : Committed(b, l) => Committed(b, l)'
  BY <1>f DEF Committed, InFlight, Past
<1>7. Owned'
  <2>1. \A c \in bodies : blobCall'[c].op = "upload" /\ blobCall'[c].step \in Past \cup {"refused"}
    BY <1>f DEF BlobInv, Shapes, Owned, InFlight, Past
  <2>2. QED
    BY <1>1, <1>3, <2>1 DEF Owned, Inside
<1>8. Whole'
  BY <1>1, <1>6 DEF BlobInv, Whole
<1>9. AllSeen'
  <2> SUFFICES ASSUME NEW c \in BlobCalls PROVE Seen(c)'
    BY DEF AllSeen
  <2>1. Seen(c) /\ blobCall'[c].op = blobCall[c].op /\ blobCall'[c].saw = blobCall[c].saw
        /\ blobCall'[c].key = blobCall[c].key
    BY <1>f DEF BlobInv, AllSeen
  <2>2. QED
    BY <1>3, <1>6, <2>1 DEF Seen, Inside
<1>10. NothingLeft'
  BY <1>1 DEF NothingLeft, Named
<1>11. QED
  BY <1>4, <1>5, <1>7, <1>8, <1>9, <1>10 DEF BlobInv

LEMMA BlobInductive == BlobAssumption /\ BlobInv /\ [BlobNext]_blobVars => BlobInv'
<1> SUFFICES ASSUME BlobAssumption, BlobInv, [BlobNext]_blobVars PROVE BlobInv'
  OBVIOUS
<1>1. CASE Restart
  BY <1>1, RestartKeeps
<1>2. ASSUME NEW c \in BlobCalls, NEW k \in BlobKeys,
             StartUpload(c, k) \/ StartDelete(c, k) \/ StartDownload(c, k)
      PROVE  BlobInv'
  BY <1>2, StartUploadKeeps, StartDeleteKeeps, DownloadKeeps DEF Downloads
<1>3. ASSUME NEW c \in BlobCalls,
             \/ Received(c) \/ Interrupted(c) \/ ReadOld(c) \/ Place(c) \/ Describe(c) \/ Commit(c)
             \/ FailIO(c) \/ Undo(c) \/ UnlinkManifest(c) \/ Clear(c) \/ ReadManifest(c) \/ Open(c)
      PROVE  BlobInv'
  BY <1>3, ReceivedKeeps, InterruptedKeeps, ReadOldKeeps, PlaceKeeps, DescribeKeeps, CommitKeeps,
     FailKeeps, UndoKeeps, UnlinkKeeps, ClearKeeps, DownloadKeeps DEF Downloads
<1>4. CASE UNCHANGED blobVars
  BY <1>4 DEF blobVars, BlobInv, Shapes, CallsFit, Locked, HoldsLock, Owned, Whole, Committed,
     AllSeen, Seen, NothingLeft, InHand, InFlight, Named
<1>5. QED
  BY <1>1, <1>2, <1>3, <1>4 DEF BlobNext

LEMMA BlobInvariance == ASSUME BlobAssumption PROVE BlobSpec => []BlobInv
<1>1. BlobInit => BlobInv
  BY BlobInitially, BlobAssumption
<1>2. BlobInv /\ [BlobNext]_blobVars => BlobInv'
  BY BlobInductive, BlobAssumption
<1>3. QED
  BY <1>1, <1>2, PTL DEF BlobSpec

-----------------------------------------------------------------------------
(* Blobs: the abstract store                                               *)

Becomes(c, r) == blobCall' = [blobCall EXCEPT ![c] = r]

LEMMA Imaged ==
  ASSUME Shapes, NEW c \in BlobCalls, NEW r, Becomes(c, r)
  PROVE  Asked' = [Asked EXCEPT ![c] = Image(r)] /\ Asked[c] = Image(blobCall[c])
<1>1. \A d \in BlobCalls : blobCall'[d] = IF d = c THEN r ELSE blobCall[d]
  BY DEF Shapes, Becomes
<1>2. \A d \in BlobCalls : Asked'[d] = IF d = c THEN Image(r) ELSE Asked[d]
  BY <1>1 DEF Asked, Image
<1>3. QED
  BY <1>2 DEF Asked

(* A call that goes on, for the abstract store or not.                     *)
LEMMA ImageRests ==
  ASSUME Shapes, NEW c \in BlobCalls, NEW r, Becomes(c, r),
         r.op = blobCall[c].op, r.key = blobCall[c].key,
         r.op # "download", Progress(r.step) = Progress(blobCall[c].step)
  PROVE  UNCHANGED Asked
<1>1. Image(r) = Image(blobCall[c])
  BY DEF Image
<1>2. QED
  BY <1>1, Imaged DEF Asked

LEMMA ImageBecomes ==
  ASSUME Shapes, NEW c \in BlobCalls, NEW r, Becomes(c, r),
         r.op = blobCall[c].op, r.key = blobCall[c].key,
         r.op = "download" => r.saw = blobCall[c].saw,
         NEW from, NEW to, Progress(blobCall[c].step) = from, Progress(r.step) = to
  PROVE  Abstract!Becomes(c, from, to)
<1>1. Image(r) = [Image(blobCall[c]) EXCEPT !.at = to]
  BY DEF Image
<1>2. Asked' = [Asked EXCEPT ![c] = Image(r)] /\ Asked[c] = Image(blobCall[c])
  BY Imaged
<1>3. Asked[c].at = from
  BY <1>2 DEF Image
<1>4. Asked' = [Asked EXCEPT ![c].at = to]
  BY <1>1, <1>2
<1>5. QED
  BY <1>3, <1>4 DEF Abstract!Becomes

LEMMA SameCall ==
  ASSUME NEW c, NEW to, NEW saw
  PROVE  /\ Now(c, to, saw).op = blobCall[c].op /\ Now(c, to, saw).key = blobCall[c].key
         /\ Now(c, to, saw).step = to /\ Now(c, to, saw).saw = saw
BY DEF Now

LEMMA ProgressFacts ==
  /\ Progress("clearing") = "done" /\ Progress("opening") = "done" /\ Progress("new") = "new"
  /\ Progress("answered") = "answered" /\ Progress("refused") = "refused" /\ Progress("lost") = "lost"
  /\ \A s \in {"receiving", "waiting", "placing", "describing", "committing", "undoing", "unlinking", "reading"} :
       Progress(s) = "open"
BY DEF Progress

Stores(c) == Abstract!Ask(c) \/ Abstract!Replace(c) \/ Abstract!Inspect(c) \/ Abstract!Reply(c)

LEMMA AskStores ==
  ASSUME BlobInv, NEW c \in BlobCalls, NEW op \in {"upload", "delete", "download"}, NEW k \in BlobKeys,
         NEW s \in {"receiving", "waiting", "reading", "refused"}, blobCall[c] = Unmade,
         Becomes(c, [op |-> op, key |-> k, step |-> s, saw |-> Absent]), UNCHANGED manifests
  PROVE  Stores(c)
<1> DEFINE r == [op |-> op, key |-> k, step |-> s, saw |-> Absent]
<1>1. PICK at \in {"open", "refused"} : Progress(s) = at
  BY ProgressFacts
<1>2. Image(r) = [op |-> op, key |-> k, at |-> at, got |-> Absent]
  BY <1>1 DEF Image
<1>3. Image(Unmade) = Abstract!Unasked
  BY ProgressFacts DEF Image, Unmade, Abstract!Unasked
<1>4. Asked' = [Asked EXCEPT ![c] = Image(r)] /\ Asked[c] = Image(blobCall[c])
  BY Imaged DEF BlobInv
<1> HIDE DEF r
<1>5. Abstract!Ask(c)
  BY <1>2, <1>3, <1>4 DEF Abstract!Ask
<1>6. QED
  BY <1>5 DEF Stores

(* An upload or a deletion takes place with its manifest; its other steps  *)
(* are its own, or its answer.                                             *)
LEMMA ReplaceStores ==
  ASSUME BlobInv, NEW c \in BlobCalls, NEW from \in {"committing", "unlinking"},
         Steps(c, from, "clearing"), blobCall[c].op \in {"upload", "delete"},
         manifests' = [manifests EXCEPT ![blobCall[c].key] =
                         IF blobCall[c].op = "upload" THEN c ELSE Absent]
  PROVE  Stores(c)
<1> DEFINE r == Now(c, "clearing", blobCall[c].saw)
<1>1. Shapes /\ Becomes(c, r) /\ blobCall[c].step = from
  BY Stepped DEF BlobInv, Steps, Becomes
<1>2. Abstract!Becomes(c, "open", "done")
  BY <1>1, ImageBecomes, SameCall, ProgressFacts
<1>3. Asked[c].op = blobCall[c].op /\ Asked[c].key = blobCall[c].key
  BY DEF Asked, Image
<1>4. QED
  BY <1>2, <1>3 DEF Stores, Abstract!Replace

LEMMA OwnStepStores ==
  ASSUME BlobInv, NEW c \in BlobCalls, NEW from, NEW to, Steps(c, from, to),
         blobCall[c].op \in {"upload", "delete"}, Progress(from) = Progress(to)
  PROVE  UNCHANGED Asked
<1> DEFINE r == Now(c, to, blobCall[c].saw)
<1>1. Shapes /\ Becomes(c, r) /\ blobCall[c].step = from
  BY Stepped DEF BlobInv, Steps, Becomes
<1>2. QED
  BY <1>1, ImageRests, SameCall

LEMMA ReplyStores ==
  ASSUME BlobInv, NEW c \in BlobCalls, NEW from, NEW to, Steps(c, from, to), UNCHANGED manifests,
         \/ Progress(from) = "open" /\ Progress(to) = "refused"
         \/ Progress(from) = "done" /\ Progress(to) = "answered"
  PROVE  Stores(c)
<1> DEFINE r == Now(c, to, blobCall[c].saw)
<1>1. Shapes /\ Becomes(c, r) /\ blobCall[c].step = from
  BY Stepped DEF BlobInv, Steps, Becomes
<1>2. Abstract!Becomes(c, "open", "refused") \/ Abstract!Becomes(c, "done", "answered")
  BY <1>1, ImageBecomes, SameCall
<1>3. QED
  BY <1>2 DEF Stores, Abstract!Reply

(* A download is of the manifest it read, or finds that object replaced.   *)
LEMMA InspectStores == ASSUME BlobInv, NEW c \in BlobCalls, ReadManifest(c) PROVE Stores(c)
<1>1. CallFits(blobCall[c]) /\ blobCall[c].step = "reading" /\ UNCHANGED manifests
  BY DEF BlobInv, CallsFit, ReadManifest
<1>2. blobCall[c].op = "download" /\ blobCall[c].key \in BlobKeys
  BY <1>1 DEF CallFits, Unmade, UploadSteps, DeleteSteps, Past
<1>f. PICK found \in MaybeCall : found = manifests[blobCall[c].key]
  BY <1>2 DEF BlobInv, Shapes
<1>a. PICK at \in {"answered", "done"}, to \in {"answered", "opening"} :
        /\ at = IF found = Absent THEN "answered" ELSE "done"
        /\ to = IF found = Absent THEN "answered" ELSE "opening"
  OBVIOUS
<1> DEFINE r == Now(c, to, found)
<1>3. blobCall' = [blobCall EXCEPT ![c].step = to, ![c].saw = found]
  BY <1>a, <1>f DEF ReadManifest
<1>4. Progress(to) = at
  BY <1>a, ProgressFacts
<1>b. blobCall' = [blobCall EXCEPT ![c] = r]
  <2>1. Sees(c, to, found)
    BY <1>3 DEF Sees
  <2>2. QED
    BY <2>1, SteppedSeeing DEF BlobInv
<1>5. Becomes(c, r)
  BY <1>b DEF Becomes
<1>6. Asked' = [Asked EXCEPT ![c] = Image(r)] /\ Asked[c] = Image(blobCall[c])
  BY <1>5, Imaged DEF BlobInv
<1>7. Image(r) = [op |-> "download", key |-> blobCall[c].key, at |-> at, got |-> found]
  BY <1>2, <1>4, SameCall DEF Image
<1>8. Image(blobCall[c]) = [op |-> "download", key |-> blobCall[c].key, at |-> "open",
                            got |-> blobCall[c].saw]
  BY <1>1, <1>2, ProgressFacts DEF Image
<1>9. Asked[c].op = "download" /\ Asked[c].key = blobCall[c].key /\ Asked[c].at = "open"
  BY <1>6, <1>8
<1>10. Asked' = [Asked EXCEPT ![c].at = at, ![c].got = found]
  <2> DEFINE b == [Asked[c] EXCEPT !.at = at]
  <2>1. b = [op |-> "download", key |-> blobCall[c].key, at |-> at, got |-> blobCall[c].saw]
    BY <1>6, <1>8
  <2> HIDE DEF b
  <2>2. [b EXCEPT !.got = found] = Image(r)
    BY <1>7, <2>1
  <2>3. [Asked EXCEPT ![c].at = at, ![c].got = found]
          = [Asked EXCEPT ![c] = [Asked[c] EXCEPT !.at = at, !.got = found]]
    BY DEF Asked
  <2>4. QED
    BY <1>6, <2>2, <2>3 DEF b
<1>11. Abstract!Inspect(c)
  BY <1>1, <1>9, <1>10, <1>a, <1>f DEF Abstract!Inspect
<1>12. QED
  BY <1>11 DEF Stores

LEMMA OpenStores ==
  ASSUME BlobAssumption, BlobInv, NEW c \in BlobCalls, Open(c) PROVE Stores(c)
<1> DEFINE saw == blobCall[c].saw
<1>1. CallFits(blobCall[c]) /\ blobCall[c].step = "opening" /\ UNCHANGED manifests
  BY DEF BlobInv, CallsFit, Open
<1>2. blobCall[c].op = "download" /\ blobCall[c].key \in BlobKeys
  BY <1>1 DEF CallFits, Unmade, UploadSteps, DeleteSteps, Past
<1>3. PICK got : /\ blobCall' = [blobCall EXCEPT ![c].step = "answered", ![c].saw = got]
                 /\ got = IF saw \in bodies THEN saw ELSE Absent
  BY DEF Open, BlobInv, Shapes
<1> DEFINE r == Now(c, "answered", got)
<1>b. blobCall' = [blobCall EXCEPT ![c] = r]
  <2>1. Shapes
    BY DEF BlobInv
  <2>2. Sees(c, "answered", got)
    BY <1>3 DEF Sees
  <2>3. QED
    BY <2>1, <2>2, SteppedSeeing
<1>4. Becomes(c, r)
  BY <1>b DEF Becomes
<1>5. CASE got = saw
  <2>1. Abstract!Becomes(c, "done", "answered")
    BY <1>1, <1>4, <1>5, ImageBecomes, SameCall, ProgressFacts DEF BlobInv
  <2>2. QED
    BY <1>1, <2>1 DEF Stores, Abstract!Reply
<1>6. CASE got # saw
  <2>1. saw \notin bodies /\ got = Absent /\ saw # Absent
    BY <1>3, <1>6
  <2>2. manifests[blobCall[c].key] # saw
    BY <1>2, <2>1 DEF BlobInv, Whole
  <2>3. Asked' = [Asked EXCEPT ![c] = Image(r)] /\ Asked[c] = Image(blobCall[c])
    BY <1>4, Imaged DEF BlobInv
  <2>4. Image(r) = [op |-> "download", key |-> blobCall[c].key, at |-> "answered", got |-> Absent]
    BY <1>2, <2>1, SameCall, ProgressFacts DEF Image
  <2>5. Image(blobCall[c]) = [op |-> "download", key |-> blobCall[c].key, at |-> "done", got |-> saw]
    BY <1>1, <1>2, ProgressFacts DEF Image
  <2>6. Asked' = [Asked EXCEPT ![c].at = "answered", ![c].got = Absent]
    <3> DEFINE b == [Asked[c] EXCEPT !.at = "answered"]
    <3>1. b = [op |-> "download", key |-> blobCall[c].key, at |-> "answered", got |-> saw]
      BY <2>3, <2>5
    <3> HIDE DEF b
    <3>2. [b EXCEPT !.got = Absent] = Image(r)
      BY <2>4, <3>1
    <3>3. [Asked EXCEPT ![c].at = "answered", ![c].got = Absent]
            = [Asked EXCEPT ![c] = [Asked[c] EXCEPT !.at = "answered", !.got = Absent]]
      BY DEF Asked
    <3>4. QED
      BY <2>3, <3>2, <3>3 DEF b
  <2>7. Abstract!Reply(c)
    <3>1. Asked[c].op = "download" /\ Asked[c].at = "done"
          /\ Asked[c].key = blobCall[c].key /\ Asked[c].got = saw
      BY <2>3, <2>5
    <3>2. manifests[Asked[c].key] # Asked[c].got
      BY <2>2, <3>1
    <3> HIDE DEF saw
    <3>3. QED
      BY <1>1, <2>6, <3>1, <3>2 DEF Abstract!Reply
  <2>8. QED
    BY <2>7 DEF Stores
<1>7. QED
  BY <1>5, <1>6

LEMMA ReadOldStores == ASSUME BlobInv, NEW c \in BlobCalls, ReadOld(c) PROVE UNCHANGED Asked
<1>0. PICK next \in {"placing", "unlinking"}, old \in MaybeCall :
        /\ next = IF blobCall[c].op = "upload" THEN "placing" ELSE "unlinking"
        /\ old = manifests[blobCall[c].key]
  <2>1. blobCall[c].key \in BlobKeys
    BY DEF ReadOld, BlobInv, CallsFit, CallFits, Unmade
  <2>2. QED
    BY <2>1 DEF BlobInv, Shapes
<1>1. /\ CallFits(blobCall[c]) /\ blobCall[c].step = "waiting"
      /\ blobCall' = [blobCall EXCEPT ![c].step = next, ![c].saw = old]
  BY <1>0 DEF BlobInv, CallsFit, ReadOld
<1>2. blobCall[c].op # "download"
  BY <1>1 DEF CallFits, Unmade, DownloadSteps
<1>3. next \in {"placing", "unlinking"}
  BY <1>0
<1>b. blobCall' = [blobCall EXCEPT ![c] = Now(c, next, old)]
  <2>1. Sees(c, next, old)
    BY <1>1 DEF Sees
  <2>2. QED
    BY <2>1, SteppedSeeing DEF BlobInv
<1>4. Becomes(c, Now(c, next, old))
  BY <1>b DEF Becomes
<1>5. QED
  BY <1>1, <1>2, <1>3, <1>4, ImageRests, SameCall, ProgressFacts DEF BlobInv

LEMMA RestartStores == ASSUME BlobInv, Restart PROVE Abstract!Perish
<1>1. UNCHANGED manifests
  BY DEF Restart
<1>2. ASSUME NEW c \in BlobCalls
      PROVE  Image(blobCall'[c]) = IF Asked[c].at \in {"open", "done"}
                                   THEN [Asked[c] EXCEPT !.at = "lost"] ELSE Asked[c]
  <2>1. PICK o, k, s, w : blobCall[c] = [op |-> o, key |-> k, step |-> s, saw |-> w]
    BY DEF BlobInv, Shapes, Call
  <2>2. blobCall'[c] = IF InFlight(c) THEN [blobCall[c] EXCEPT !.step = "lost"] ELSE blobCall[c]
    BY DEF Restart
  <2>3. Asked[c] = Image(blobCall[c]) /\ Asked[c].at = Progress(s)
    BY <2>1 DEF Asked, Image
  <2>4. CASE InFlight(c)
    <3>1. blobCall'[c] = [op |-> o, key |-> k, step |-> "lost", saw |-> w]
      BY <2>1, <2>2, <2>4
    <3>2. Progress(s) \in {"open", "done"}
      BY <2>1, <2>4 DEF InFlight, Progress
    <3>3. Image(blobCall'[c]) = [Image(blobCall[c]) EXCEPT !.at = "lost"]
      BY <2>1, <3>1, ProgressFacts DEF Image
    <3>4. QED
      BY <2>3, <3>2, <3>3
  <2>5. CASE ~InFlight(c)
    <3>1. Progress(s) \notin {"open", "done"}
      BY <2>1, <2>5, ProgressFacts DEF InFlight
    <3>2. QED
      BY <2>2, <2>3, <2>5, <3>1
  <2>6. QED
    BY <2>4, <2>5
<1>3. Asked' = [c \in BlobCalls |-> Image(blobCall'[c])]
  BY DEF Asked, Image
<1>4. QED
  BY <1>1, <1>2, <1>3 DEF Abstract!Perish

LEMMA OpOfStep ==
  ASSUME BlobInv, NEW c \in BlobCalls
  PROVE  blobCall[c].step \in Inside => blobCall[c].op \in {"upload", "delete"}
BY KeyOfCall

LEMMA StepStores ==
  ASSUME BlobAssumption, BlobInv, [BlobNext]_blobVars
  PROVE  [Abstract!StoreNext]_(Abstract!storeVars)
<1>1. CASE Restart
  BY <1>1, RestartStores DEF Abstract!StoreNext
<1>2. ASSUME NEW c \in BlobCalls, NEW k \in BlobKeys,
             StartUpload(c, k) \/ StartDelete(c, k) \/ StartDownload(c, k)
      PROVE  Stores(c)
  BY <1>2, AskStores DEF StartUpload, StartDelete, StartDownload, Becomes
<1>3. ASSUME NEW c \in BlobCalls, Received(c) \/ ReadOld(c) \/ Place(c) \/ Describe(c) \/ FailIO(c)
      PROVE  UNCHANGED <<Asked, manifests>>
  <2>1. CASE Received(c)
    <3>1. blobCall[c].op = "upload"
      BY <2>1 DEF Received, Steps, BlobInv, CallsFit, CallFits, Unmade, DeleteSteps, DownloadSteps, Past
    <3>2. QED
      BY <2>1, <3>1, OwnStepStores, ProgressFacts DEF Received
  <2>2. CASE ReadOld(c)
    BY <2>2, ReadOldStores DEF ReadOld
  <2>3. CASE Place(c)
    <3>1. blobCall[c].op \in {"upload", "delete"}
      BY <2>3, OpOfStep DEF Place, Steps, Inside
    <3>2. QED
      BY <2>3, <3>1, OwnStepStores, ProgressFacts DEF Place
  <2>4. CASE Describe(c)
    <3>1. blobCall[c].op \in {"upload", "delete"}
      BY <2>4, OpOfStep DEF Describe, Steps, Inside
    <3>2. QED
      BY <2>4, <3>1, OwnStepStores, ProgressFacts DEF Describe
  <2>5. CASE FailIO(c)
    <3>1. PICK at \in {"placing", "describing", "committing"} : Steps(c, at, "undoing")
      BY <2>5 DEF FailIO
    <3>2. blobCall[c].op \in {"upload", "delete"}
      BY <3>1, OpOfStep DEF Steps, Inside
    <3>3. Progress(at) = Progress("undoing")
      BY ProgressFacts
    <3>4. QED
      BY <2>5, <3>1, <3>2, <3>3, OwnStepStores DEF FailIO
  <2>6. QED
    BY <1>3, <2>1, <2>2, <2>3, <2>4, <2>5
<1>4. ASSUME NEW c \in BlobCalls,
             \/ Commit(c) \/ UnlinkManifest(c) \/ Interrupted(c) \/ Undo(c) \/ Clear(c)
             \/ ReadManifest(c) \/ Open(c)
      PROVE  Stores(c)
  <2>1. CASE Commit(c)
    <3>1. blobCall[c].op = "upload"
      BY <2>1 DEF Commit, Steps, BlobInv, CallsFit, CallFits, Unmade, DeleteSteps, DownloadSteps, Past
    <3>2. QED
      BY <2>1, <3>1, ReplaceStores DEF Commit
  <2>2. CASE UnlinkManifest(c)
    <3>1. blobCall[c].op = "delete"
      BY <2>2 DEF UnlinkManifest, Steps, BlobInv, CallsFit, CallFits, Unmade, UploadSteps, DownloadSteps, Past
    <3>2. QED
      BY <2>2, <3>1, ReplaceStores DEF UnlinkManifest
  <2>3. CASE Interrupted(c)
    BY <2>3, ReplyStores, ProgressFacts DEF Interrupted
  <2>4. CASE Undo(c)
    BY <2>4, ReplyStores, ProgressFacts DEF Undo
  <2>5. CASE Clear(c)
    BY <2>5, ReplyStores, ProgressFacts DEF Clear
  <2>6. CASE ReadManifest(c)
    BY <2>6, InspectStores
  <2>7. CASE Open(c)
    BY <2>7, OpenStores
  <2>8. QED
    BY <1>4, <2>1, <2>2, <2>3, <2>4, <2>5, <2>6, <2>7
<1>5. CASE UNCHANGED blobVars
  BY <1>5 DEF blobVars, Asked, Abstract!storeVars
<1>6. QED
  BY <1>1, <1>2, <1>3, <1>4, <1>5 DEF BlobNext, Stores, Abstract!StoreNext, Abstract!storeVars

-----------------------------------------------------------------------------
(* No file is left that nobody will remove, for any number of calls, keys, *)
(* uploads at a time, crashes and failures of the file system.             *)
THEOREM NothingLeftBehind == ASSUME BlobAssumption PROVE BlobSpec => []NothingLeft
<1>1. BlobInv => NothingLeft
  BY DEF BlobInv
<1>2. QED
  BY <1>1, BlobInvariance, PTL

(* The directory with its locks, drafts and crashes implements the store   *)
(* of whole objects: every call takes place at one moment or not at all.   *)
THEOREM DirectoryImplements == ASSUME BlobAssumption PROVE BlobSpec => ImplementsBlobStore
<1>1. BlobInit => Abstract!StoreInit
  <2> SUFFICES ASSUME BlobInit PROVE Abstract!StoreInit
    OBVIOUS
  <2>1. Image(Unmade) = Abstract!Unasked
    BY ProgressFacts DEF Image, Unmade, Abstract!Unasked
  <2>2. Asked = [c \in BlobCalls |-> Abstract!Unasked]
    BY <2>1 DEF BlobInit, Asked
  <2>3. QED
    BY <2>2 DEF BlobInit, Abstract!StoreInit
<1>2. BlobInv /\ [BlobNext]_blobVars => [Abstract!StoreNext]_(Abstract!storeVars)
  BY StepStores, BlobAssumption
<1>3. QED
  BY <1>1, <1>2, BlobInvariance, PTL DEF BlobSpec, ImplementsBlobStore, Abstract!StoreSpec

-----------------------------------------------------------------------------
(* The compiler lock                                                       *)

LockSteps ==
  {"idle", "open", "read", "probe", "claim", "check", "unlink", "unclaim", "wait", "leave", "ended"}
    \cup Holding

LockShapes ==
  /\ process \in [Processes -> {"up", "dead", "reused"}]
  /\ lock \in Calls \cup {NoCall, Unwritten} /\ reaper \in Calls \cup {NoCall}
  /\ step \in [Calls -> LockSteps] /\ stale \in [Calls -> Calls \cup {NoCall}]

(* One call at most reaps, and what it is about to remove is still the lock *)
(* of a call whose process is gone for ever.                               *)
Reaping ==
  \A c \in Calls : process[Home[c]] = "up" =>
    /\ step[c] \in {"check", "unlink", "unclaim"} => reaper = c
    /\ step[c] \in {"probe", "claim", "check", "unlink"} => stale[c] \in Calls
    /\ step[c] = "unlink" => lock = stale[c] /\ process[Home[stale[c]]] # "up"

LockInv == LockShapes /\ Reaping /\ OneBuilder

LEMMA LockInitially == CompilerLockAssumption /\ LockInit => LockInv
BY DEF CompilerLockAssumption, LockInit, LockInv, LockShapes, LockSteps, Reaping, OneBuilder,
       Holds, Holding

(* A call that works under the lock only moves on.                         *)
Works(c) ==
  /\ At(c, step[c]) /\ step[c] \in Holding \ {"write", "release", "remove"}
  /\ UNCHANGED <<process, lock, reaper, stale>>
  /\ \/ step' = step
     \/ \E s \in Holding \ {"write", "remove"} : Goto(c, s)

LEMMA WorkStepWorks == ASSUME NEW c \in Calls, WorkStep(c) PROVE Works(c)
<1> USE DEF Works, At, Goto, Holding, Elsewhere, Abandon
<1>1. CASE Plan(c)
  BY <1>1 DEF Plan
<1>2. CASE ReadInput(c)
  BY <1>2 DEF ReadInput
<1>3. CASE FinishPass(c)
  BY <1>3 DEF FinishPass
<1>4. CASE FailPass(c)
  BY <1>4 DEF FailPass
<1>5. CASE CheckAll(c)
  BY <1>5 DEF CheckAll
<1>6. CASE Publish(c)
  BY <1>6 DEF Publish
<1>7. CASE Finalize(c)
  BY <1>7 DEF Finalize
<1>8. CASE SaveManifest(c)
  BY <1>8 DEF SaveManifest
<1>9. CASE ServerOnly(c)
  BY <1>9 DEF ServerOnly
<1>10. CASE StartWatching(c)
  BY <1>10 DEF StartWatching
<1>11. CASE CompileClient(c)
  BY <1>11 DEF CompileClient
<1>12. CASE CancelClient(c)
  BY <1>12 DEF CancelClient
<1>13. CASE PublishFile(c)
  BY <1>13 DEF PublishFile
<1>14. CASE Prune(c)
  BY <1>14 DEF Prune
<1>15. QED
  BY <1>1, <1>2, <1>3, <1>4, <1>5, <1>6, <1>7, <1>8, <1>9, <1>10, <1>11, <1>12, <1>13, <1>14
     DEF WorkStep

LEMMA WorksKeepLock ==
  ASSUME CompilerLockAssumption, LockInv, NEW c \in Calls, Works(c) PROVE LockInv'
<1>1. LockShapes'
  BY DEF Works, Goto, LockInv, LockShapes, LockSteps
<1>2. Reaping'
  BY DEF Works, Goto, LockInv, LockShapes, Reaping, Holding
<1>3. OneBuilder'
  <2>1. Holds(c) /\ lock = c /\ \A d \in Calls \ {c} : ~Holds(d)
    BY DEF Works, At, LockInv, OneBuilder, Holds
  <2>2. \A d \in Calls \ {c} : step'[d] = step[d]
    BY DEF Works, Goto, LockInv, LockShapes
  <2>3. lock' = c /\ \A d \in Calls \ {c} : ~Holds(d)'
    BY <2>1, <2>2 DEF Works, Holds
  <2>4. QED
    BY <2>3 DEF OneBuilder
<1>4. QED
  BY <1>1, <1>2, <1>3 DEF LockInv

(* A call that neither holds the lock before nor after leaves it alone.    *)
Outside(c) ==
  /\ UNCHANGED <<process, lock>>
  /\ \E s \in LockSteps \ Holding : Goto(c, s)

LEMMA OutsideKeepsOneBuilder ==
  ASSUME LockInv, NEW c \in Calls, Outside(c) PROVE OneBuilder'
<1>1. ~Holds(c)' /\ \A d \in Calls \ {c} : step'[d] = step[d]
  BY DEF Outside, Goto, LockInv, LockShapes, Holds
<1>2. \A d \in Calls : Holds(d)' => Holds(d) /\ d # c
  BY <1>1 DEF Outside, Holds
<1>3. QED
  BY <1>1, <1>2 DEF Outside, LockInv, OneBuilder

LEMMA LockStepKeepsLock ==
  ASSUME CompilerLockAssumption, LockInv, NEW c \in Calls,
         LockStep(c) \/ GiveUp(c) \/ Enter(c)
  PROVE  LockInv'
<1> USE DEF At, Goto, Active
<1>0. LockShapes /\ Reaping /\ OneBuilder /\ \A d \in Calls : Home[d] \in Processes
  BY DEF LockInv, Processes
<1>1. CASE OpenLock(c)
  <2>1. LockShapes'
    BY <1>0, <1>1 DEF OpenLock, LockShapes, LockSteps, Holding
  <2>2. Reaping'
    BY <1>0, <1>1 DEF OpenLock, LockShapes, Reaping, CompilerLockAssumption
  <2>3. OneBuilder'
    <3>1. CASE lock = NoCall
      BY <1>0, <1>1, <3>1 DEF OpenLock, LockShapes, OneBuilder, Holds, Holding, CompilerLockAssumption
    <3>2. CASE lock # NoCall
      <4>1. Outside(c)
        BY <1>1, <3>2 DEF OpenLock, Outside, LockSteps, Holding
      <4>2. QED
        BY <4>1, OutsideKeepsOneBuilder
    <3>3. QED
      BY <3>1, <3>2
  <2>4. QED
    BY <2>1, <2>2, <2>3 DEF LockInv
<1>2. CASE WriteOwner(c)
  <2>1. LockShapes'
    BY <1>0, <1>2 DEF WriteOwner, LockShapes, LockSteps, Holding
  <2>2. Holds(c) /\ \A d \in Calls \ {c} : ~Holds(d)
    BY <1>0, <1>2 DEF WriteOwner, OneBuilder, Holds, Holding
  <2>3. Reaping'
    BY <1>0, <1>2 DEF WriteOwner, LockShapes, Reaping, OneBuilder, Holds, Holding, CompilerLockAssumption
  <2>4. OneBuilder'
    BY <1>0, <1>2, <2>2 DEF WriteOwner, LockShapes, OneBuilder, Holds, Holding
  <2>5. QED
    BY <2>1, <2>3, <2>4 DEF LockInv
<1>3. CASE ReadOwner(c)
  <2>1. LockShapes'
    BY <1>0, <1>3 DEF ReadOwner, Owner, LockShapes, LockSteps
  <2>2. Reaping'
    BY <1>0, <1>3 DEF ReadOwner, Owner, LockShapes, Reaping
  <2>3. Outside(c)
    BY <1>3 DEF ReadOwner, Outside, LockSteps, Holding
  <2>4. QED
    BY <2>1, <2>2, <2>3, OutsideKeepsOneBuilder DEF LockInv
<1>4. CASE ProbeOwner(c)
  <2>1. LockShapes' /\ Reaping'
    BY <1>0, <1>4 DEF ProbeOwner, LockShapes, LockSteps, Reaping
  <2>2. Outside(c)
    BY <1>4 DEF ProbeOwner, Outside, LockSteps, Holding
  <2>3. QED
    BY <2>1, <2>2, OutsideKeepsOneBuilder DEF LockInv
<1>5. CASE ClaimReaper(c)
  <2>1. LockShapes'
    BY <1>0, <1>5 DEF ClaimReaper, LockShapes, LockSteps
  <2>2. Reaping'
    BY <1>0, <1>5 DEF ClaimReaper, LockShapes, Reaping, CompilerLockAssumption
  <2>3. Outside(c)
    BY <1>5 DEF ClaimReaper, Outside, LockSteps, Holding
  <2>4. QED
    BY <2>1, <2>2, <2>3, OutsideKeepsOneBuilder DEF LockInv
<1>6. CASE CheckAgain(c)
  <2>1. LockShapes'
    BY <1>0, <1>6 DEF CheckAgain, LockShapes, LockSteps
  <2>2. Reaping'
    BY <1>0, <1>6 DEF CheckAgain, StillStale, Owner, Alive, LockShapes, Reaping, CompilerLockAssumption
  <2>3. Outside(c)
    BY <1>6 DEF CheckAgain, Outside, LockSteps, Holding
  <2>4. QED
    BY <2>1, <2>2, <2>3, OutsideKeepsOneBuilder DEF LockInv
<1>7. CASE Unlink(c)
  <2>1. LockShapes'
    BY <1>0, <1>7 DEF Unlink, LockShapes, LockSteps
  <2>2. Reaping'
    BY <1>0, <1>7 DEF Unlink, LockShapes, Reaping, CompilerLockAssumption
  <2>3. \A d \in Calls : ~Holds(d)
    BY <1>0, <1>7 DEF Unlink, Reaping, OneBuilder, Holds, Holding, CompilerLockAssumption
  <2>4. \A d \in Calls : ~Holds(d)'
    BY <1>0, <1>7, <2>3 DEF Unlink, LockShapes, Holds, Holding
  <2>5. QED
    BY <2>1, <2>2, <2>4 DEF LockInv, OneBuilder
<1>8. CASE RemoveReaper(c)
  <2>1. LockShapes'
    BY <1>0, <1>8 DEF RemoveReaper, LockShapes, LockSteps
  <2>2. Reaping'
    BY <1>0, <1>8 DEF RemoveReaper, LockShapes, Reaping
  <2>3. Outside(c)
    BY <1>8 DEF RemoveReaper, Outside, LockSteps, Holding
  <2>4. QED
    BY <2>1, <2>2, <2>3, OutsideKeepsOneBuilder DEF LockInv
<1>9. CASE TryAgain(c)
  <2>1. LockShapes' /\ Reaping'
    BY <1>0, <1>9 DEF TryAgain, LockShapes, LockSteps, Reaping
  <2>2. Outside(c)
    BY <1>9 DEF TryAgain, Outside, LockSteps, Holding
  <2>3. QED
    BY <2>1, <2>2, OutsideKeepsOneBuilder DEF LockInv
<1>10. CASE ReadOwn(c)
  <2>1. LockShapes' /\ Reaping'
    BY <1>0, <1>10 DEF ReadOwn, LockShapes, LockSteps, Holding, Reaping
  <2>2. /\ Holds(c) /\ lock \in {c, Unwritten} /\ \A d \in Calls \ {c} : ~Holds(d)
    BY <1>0, <1>10 DEF ReadOwn, OneBuilder, Holds, Holding
  <2>3. step' = [step EXCEPT ![c] = "remove"]
    BY <1>10, <2>2 DEF ReadOwn, Owner, CompilerLockAssumption
  <2>4. OneBuilder'
    BY <1>0, <1>10, <2>2, <2>3 DEF ReadOwn, LockShapes, OneBuilder, Holds, Holding
  <2>5. QED
    BY <2>1, <2>4 DEF LockInv
<1>11. CASE RemoveLock(c)
  <2>1. LockShapes'
    BY <1>0, <1>11 DEF RemoveLock, LockShapes, LockSteps
  <2>2. Holds(c) /\ lock \in {c, Unwritten} /\ \A d \in Calls \ {c} : ~Holds(d)
    BY <1>0, <1>11 DEF RemoveLock, OneBuilder, Holds, Holding
  <2>3. Reaping'
    BY <1>0, <1>11, <2>2 DEF RemoveLock, LockShapes, Reaping, CompilerLockAssumption
  <2>4. \A d \in Calls : ~Holds(d)'
    BY <1>0, <1>11, <2>2 DEF RemoveLock, LockShapes, Holds, Holding
  <2>5. QED
    BY <2>1, <2>3, <2>4 DEF LockInv, OneBuilder
<1>12. CASE EndCall(c) \/ GiveUp(c) \/ Enter(c)
  <2>1. LockShapes' /\ Reaping'
    BY <1>0, <1>12 DEF EndCall, GiveUp, Enter, LockShapes, LockSteps, Reaping
  <2>2. Outside(c)
    BY <1>12 DEF EndCall, GiveUp, Enter, Outside, LockSteps, Holding
  <2>3. QED
    BY <2>1, <2>2, OutsideKeepsOneBuilder DEF LockInv
<1>13. QED
  BY <1>1, <1>2, <1>3, <1>4, <1>5, <1>6, <1>7, <1>8, <1>9, <1>10, <1>11, <1>12 DEF LockStep

(* What is gone stays gone: a number that is reused is not its process.    *)
LEMMA DeathKeepsLock ==
  ASSUME CompilerLockAssumption, LockInv, NEW p \in Processes, Die(p) \/ ReuseNumber(p)
  PROVE  LockInv'
<1>1. /\ LockShapes /\ UNCHANGED <<lock, reaper, step, stale>>
      /\ \A q \in Processes : process'[q] = "up" => process[q] = "up"
      /\ process' \in [Processes -> {"up", "dead", "reused"}]
      /\ \A d \in Calls : Home[d] \in Processes
  BY DEF Die, ReuseNumber, LockInv, LockShapes, Processes
<1>2. LockShapes'
  BY <1>1 DEF LockShapes
<1>3. Reaping'
  BY <1>1 DEF LockInv, Reaping
<1>4. \A d \in Calls : Holds(d)' => Holds(d)
  BY <1>1 DEF Holds
<1>5. OneBuilder'
  BY <1>1, <1>4 DEF LockInv, OneBuilder
<1>6. QED
  BY <1>2, <1>3, <1>5 DEF LockInv

LEMMA LockStands ==
  ASSUME LockInv, UNCHANGED lockVars PROVE LockInv'
BY DEF lockVars, LockInv, LockShapes, Reaping, OneBuilder, Holds

LEMMA LockInvariance == ASSUME CompilerLockAssumption PROVE BuildSpec => []LockInv
<1>1. BuildInit /\ LockInit => LockInv
  BY LockInitially, CompilerLockAssumption
<1>2. LockInv /\ [BuildNext]_buildVars => LockInv'
  <2> SUFFICES ASSUME LockInv, [BuildNext]_buildVars PROVE LockInv'
    OBVIOUS
  <2>1. ASSUME NEW c \in Calls, StartCall(c) \/ LockMoves(c) \/ GiveUp(c) PROVE LockInv'
    BY <2>1, LockStepKeepsLock, CompilerLockAssumption DEF StartCall, LockMoves
  <2>2. ASSUME NEW c \in Calls, WorkStep(c) PROVE LockInv'
    BY <2>2, WorkStepWorks, WorksKeepLock, CompilerLockAssumption
  <2>3. ASSUME NEW p \in Processes, Die(p) \/ ReuseNumber(p) PROVE LockInv'
    BY <2>3, DeathKeepsLock, CompilerLockAssumption
  <2>4. CASE EnterDev
    BY <2>4, LockStepKeepsLock, CompilerLockAssumption DEF EnterDev
  <2>5. CASE UNCHANGED lockVars
    BY <2>5, LockStands
  <2>6. CASE Edit \/ HandChange \/ WatchEvent \/ UNCHANGED buildVars
    <3>1. UNCHANGED lockVars
      BY <2>6 DEF Edit, HandChange, WatchEvent, buildVars
    <3>2. QED
      BY <3>1, LockStands
  <2>7. CASE TimerFires \/ RebuildEnds
    <3>1. EnterDev \/ UNCHANGED lockVars
      BY <2>7 DEF TimerFires, RebuildEnds
    <3>2. QED
      BY <3>1, <2>4, <2>5
  <2>8. QED
    BY <2>1, <2>2, <2>3, <2>6, <2>7 DEF BuildNext
<1>3. QED
  BY <1>1, <1>2, PTL DEF BuildSpec

(* One build at a time, for any number of processes and calls, deaths      *)
(* between any two calls of the file system, and reused numbers.           *)
THEOREM OneBuildAtATime == ASSUME CompilerLockAssumption PROVE BuildSpec => []OneBuilder
<1>1. LockInv => OneBuilder
  BY DEF LockInv
<1>2. QED
  BY <1>1, LockInvariance, PTL

-----------------------------------------------------------------------------
(* `toiljs dev' watches                                                    *)

WatchInv ==
  /\ watch \in [on : BOOLEAN, event : SUBSET Files, timer : BOOLEAN, building : BOOLEAN,
                queued : BOOLEAN, planned : BOOLEAN]
  /\ unbuilt \in BOOLEAN /\ (unbuilt => watch.on)
  /\ watch.on => Dev \in Processes
  /\ NoEditForgotten

LEMMA WatchInitially == BuildInit => WatchInv
<1> SUFFICES ASSUME BuildInit PROVE WatchInv
  OBVIOUS
<1>1. watch = [on |-> FALSE, event |-> {}, timer |-> FALSE, building |-> FALSE, queued |-> FALSE,
               planned |-> FALSE] /\ unbuilt = FALSE
  BY DEF BuildInit
<1>2. ~watch.on /\ ~unbuilt
  BY <1>1
<1>3. QED
  BY <1>1, <1>2 DEF WatchInv, NoEditForgotten, Watching

LEMMA WatchStands ==
  ASSUME WatchInv, UNCHANGED <<watch, unbuilt>>, Dev \in Processes /\ process'[Dev] = "up" => process[Dev] = "up"
  PROVE  WatchInv'
BY DEF WatchInv, NoEditForgotten, Watching

LEMMA WatchSteps ==
  ASSUME LockInv, WatchInv, [BuildNext]_buildVars PROVE WatchInv'
<1>0. Dev \in Processes /\ process'[Dev] = "up" => process[Dev] = "up"
  <2>1. ASSUME NEW c \in Calls, StartCall(c) \/ LockMoves(c) \/ GiveUp(c) \/ EnterDev \/ WorkStep(c)
        PROVE  process' = process
    <3>1. CASE StartCall(c) \/ GiveUp(c) \/ EnterDev
      BY <3>1 DEF StartCall, GiveUp, EnterDev, Enter
    <3>2. CASE LockMoves(c)
      BY <3>2 DEF LockMoves, LockStep, OpenLock, WriteOwner, ReadOwner, ProbeOwner, ClaimReaper,
                  CheckAgain, Unlink, RemoveReaper, TryAgain, ReadOwn, RemoveLock, EndCall
    <3>3. CASE WorkStep(c)
      BY <3>3, WorkStepWorks DEF Works
    <3>4. QED
      BY <2>1, <3>1, <3>2, <3>3
  <2>2. ASSUME NEW p \in Processes, Die(p) \/ ReuseNumber(p), Dev \in Processes
        PROVE  process'[Dev] = "up" => process[Dev] = "up"
    BY <2>2 DEF Die, ReuseNumber, LockInv, LockShapes
  <2>3. CASE Edit \/ HandChange \/ WatchEvent \/ TimerFires \/ RebuildEnds \/ UNCHANGED buildVars
    <3>1. UNCHANGED lockVars \/ EnterDev
      BY <2>3 DEF Edit, HandChange, WatchEvent, TimerFires, RebuildEnds, buildVars
    <3>2. QED
      BY <3>1 DEF lockVars, EnterDev, Enter
  <2>4. QED
    BY <2>1, <2>2, <2>3 DEF BuildNext
<1> DEFINE Rest == UNCHANGED <<watch, unbuilt>>
<1>1. ASSUME NEW c \in Calls, StartCall(c) \/ LockMoves(c) \/ (GiveUp(c) /\ UNCHANGED workVars)
      PROVE  Rest
  BY <1>1 DEF StartCall, LockMoves, workVars
<1>2. ASSUME NEW p \in Processes, (Die(p) \/ ReuseNumber(p)) /\ UNCHANGED workVars PROVE Rest
  BY <1>2 DEF workVars
<1>3. ASSUME NEW c \in Calls, WorkStep(c), ~Plan(c), ~StartWatching(c) PROVE Rest
  BY <1>3 DEF WorkStep, ReadInput, FinishPass, FailPass, CheckAll, Publish, Finalize, SaveManifest,
              ServerOnly, CompileClient, CancelClient, PublishFile, Prune, tierVars
<1>4. CASE HandChange \/ UNCHANGED buildVars
  <2>1. Rest
    BY <1>4 DEF HandChange, buildVars, workVars
  <2>2. QED
    BY <1>0, <2>1, WatchStands
<1>5. ASSUME NEW c \in Calls, Plan(c) PROVE WatchInv'
  <2>1. process' = process
    BY <1>5 DEF Plan, Elsewhere
  <2>2. CASE Home[c] = Dev
    BY <1>5, <2>1, <2>2 DEF Plan, WatchInv, NoEditForgotten
  <2>3. CASE Home[c] # Dev
    <3>1. Rest
      BY <1>5, <2>3 DEF Plan
    <3>2. QED
      BY <1>0, <3>1, WatchStands
  <2>4. QED
    BY <2>2, <2>3
<1>6. ASSUME NEW c \in Calls, StartWatching(c) PROVE WatchInv'
  <2>1. ~unbuilt' /\ Dev \in Processes
    BY <1>6 DEF StartWatching, WatchInv, Processes
  <2>2. QED
    BY <1>6, <2>1 DEF StartWatching, WatchInv, NoEditForgotten
<1>7. CASE Edit
  <2>1. UNCHANGED <<process, lock>>
    BY <1>7 DEF Edit, lockVars
  <2>2. CASE Watching
    <3>1. PICK f \in Files : /\ unbuilt' = (unbuilt \/ f \in Watched)
                              /\ watch' = [watch EXCEPT !.event = @ \cup {f}]
      BY <1>7, <2>2 DEF Edit
    <3>2. /\ watch' \in [on : BOOLEAN, event : SUBSET Files, timer : BOOLEAN, building : BOOLEAN,
                          queued : BOOLEAN, planned : BOOLEAN]
          /\ watch'.on = watch.on /\ watch'.timer = watch.timer /\ watch'.queued = watch.queued
          /\ watch'.building = watch.building /\ watch'.planned = watch.planned
          /\ watch'.event = watch.event \cup {f}
      BY <3>1 DEF WatchInv
    <3>3. unbuilt' \in BOOLEAN /\ (unbuilt' => unbuilt \/ f \in Watched) /\ watch.on
      BY <2>2, <3>1, Zenon DEF WatchInv, Watching
    <3>4. QED
      BY <2>2, <3>2, <3>3 DEF WatchInv, NoEditForgotten, Watching
  <2>3. CASE ~Watching
    <3>1. Rest
      BY <1>7, <2>3 DEF Edit
    <3>2. QED
      BY <1>0, <3>1, WatchStands
  <2>4. QED
    BY <2>2, <2>3
<1>8. CASE WatchEvent
  <2>1. PICK f \in watch.event : watch' = [watch EXCEPT !.event = @ \ {f}, !.timer = @ \/ f \in Watched]
    BY <1>8 DEF WatchEvent
  <2>2. UNCHANGED <<process, unbuilt>>
    BY <1>8 DEF WatchEvent, lockVars
  <2>3. (watch.timer \/ f \in Watched) \in BOOLEAN
    BY DEF WatchInv
  <2>4. /\ watch' \in [on : BOOLEAN, event : SUBSET Files, timer : BOOLEAN, building : BOOLEAN,
                        queued : BOOLEAN, planned : BOOLEAN]
        /\ watch'.on = watch.on /\ watch'.queued = watch.queued
        /\ watch'.building = watch.building /\ watch'.planned = watch.planned
        /\ watch'.event = watch.event \ {f}
        /\ watch'.timer = (watch.timer \/ f \in Watched)
    BY <2>1 DEF WatchInv
  <2>5. QED
    BY <2>2, <2>4 DEF WatchInv, NoEditForgotten, Watching
<1>9. CASE TimerFires
  <2>1. watch' = [watch EXCEPT !.timer = FALSE, !.queued = TRUE]
          \/ watch' = [watch EXCEPT !.timer = FALSE, !.building = TRUE, !.planned = FALSE]
    BY <1>9 DEF TimerFires
  <2>2. unbuilt' = unbuilt
    BY <1>9 DEF TimerFires
  <2>3. QED
    BY <2>1, <2>2 DEF WatchInv, NoEditForgotten
<1>10. CASE RebuildEnds
  <2>1. CASE watch.queued
    <3>1. watch' = [watch EXCEPT !.queued = FALSE, !.planned = FALSE] /\ unbuilt' = unbuilt
          /\ watch.building
      BY <1>10, <2>1 DEF RebuildEnds
    <3>2. QED
      BY <3>1 DEF WatchInv, NoEditForgotten
  <2>2. CASE ~watch.queued
    <3>1. watch' = [watch EXCEPT !.building = FALSE] /\ unbuilt' = (unbuilt /\ watch.planned)
          /\ Watching
      BY <1>10, <2>2 DEF RebuildEnds
    <3>2. QED
      BY <2>2, <3>1 DEF WatchInv, NoEditForgotten
  <2>3. QED
    BY <2>1, <2>2
<1>11. ASSUME NEW c \in Calls, StartCall(c) \/ LockMoves(c) \/ WorkStep(c) \/ (GiveUp(c) /\ UNCHANGED workVars)
       PROVE  WatchInv'
  BY <1>0, <1>1, <1>3, <1>5, <1>6, <1>11, WatchStands
<1>12. ASSUME NEW p \in Processes, (Die(p) \/ ReuseNumber(p)) /\ UNCHANGED workVars PROVE WatchInv'
  BY <1>0, <1>2, <1>12, WatchStands
<1>13. QED
  BY <1>4, <1>7, <1>8, <1>9, <1>10, <1>11, <1>12 DEF BuildNext

(* No edit of a watched source is forgotten while dev watches, however      *)
(* events, timers, builds and deaths follow one another.                   *)
THEOREM EditsRemembered == ASSUME CompilerLockAssumption PROVE BuildSpec => []NoEditForgotten
<1>1. LockInit /\ BuildInit => WatchInv
  BY WatchInitially
<1>2. LockInv /\ WatchInv /\ [BuildNext]_buildVars => WatchInv'
  BY WatchSteps
<1>3. WatchInv => NoEditForgotten
  BY DEF WatchInv
<1>4. QED
  BY <1>1, <1>2, <1>3, LockInvariance, PTL DEF BuildSpec

-----------------------------------------------------------------------------
(* What a build leaves                                                     *)

Readings   == UNION {[S -> Contents] : S \in SUBSET Files}
ServerWork == [cached : SUBSET TierSet, read : [TierSet -> Readings], done : SUBSET TierSet,
               checked : [Files -> Contents] \cup {Nothing}]

ServerSteps == {"compile", "publish", "finalize", "save", "built"}

(* A manifest tells what its artifact was compiled of, when it was complete. *)
ManifestTrue(t) ==
  /\ t \in TierSet
  /\ \E in \in Readings : DOMAIN in = Reads[t]
                        /\ manifest[t] = [in |-> in, out |-> Compiled(in, TRUE)]

InPlace(w, t, final) == t \in DOMAIN output /\ output[t] = Compiled(Inputs(t, w.checked), final)

(* What a build has before and after its last check.                       *)
Reading(w) ==
  /\ w.cached \subseteq DOMAIN manifest
  /\ \A t \in TierSet \ w.cached :
       DOMAIN w.read[t] \subseteq Reads[t] /\ (t \in w.done => DOMAIN w.read[t] = Reads[t])

Publishing(w, s) ==
  /\ \A t \in TierSet \ w.cached : w.read[t] = Inputs(t, w.checked)
  /\ \A t \in w.cached : InPlace(w, t, TRUE)
  /\ s = "publish" => \A t \in w.done : InPlace(w, t, t # Rpc)
  /\ s = "finalize" => \A t \in TierSet \ w.cached : InPlace(w, t, t # Rpc)
  /\ s \in {"save", "built"} => \A t \in TierSet : InPlace(w, t, TRUE)

ServerFits(w, s) ==
  /\ w \in ServerWork /\ w.done \subseteq TierSet \ w.cached
  /\ IF s = "compile" THEN Reading(w) ELSE Publishing(w, s)

(* The files of the release that are not left to publish are in the site.  *)
ClientFits(w) ==
  /\ w = [release |-> w.release, left |-> w.left] /\ w.release \in Releases
  /\ \A x \in (Documents[w.release] \cup Assets[w.release]) \ w.left :
       x \in DOMAIN site /\ site[x] = w.release
  /\ w.left \subseteq Documents[w.release] \cup Assets[w.release]

Fits(c) ==
  process[Home[c]] = "up" =>
    /\ step[c] \in ServerSteps \cup {"client"} => c \in DOMAIN work
    /\ step[c] \in ServerSteps => ServerFits(work[c], step[c])
    /\ step[c] = "client" => ClientFits(work[c])

WholeInv ==
  /\ source \in [Files -> Contents]
  /\ \A t \in DOMAIN manifest : ManifestTrue(t)
  /\ \A c \in Calls : Fits(c)
  /\ DocumentsComplete

BuildAssumptions == CompilerLockAssumption /\ CompilerBuildAssumption

LEMMA NothingRead == Nothing \in Readings /\ DOMAIN Nothing = {}
<1>1. Nothing \in [{} -> Contents]
  BY DEF Nothing
<1>2. QED
  BY <1>1 DEF Readings, Nothing

LEMMA WholeInitially == BuildAssumptions /\ LockInit /\ BuildInit => WholeInv
<1> SUFFICES ASSUME BuildAssumptions, LockInit, BuildInit PROVE WholeInv
  OBVIOUS
<1>1. source \in [Files -> Contents]
  BY DEF BuildInit, BuildAssumptions, CompilerBuildAssumption
<1>2. DOMAIN manifest = {} /\ DOMAIN site = {}
  BY NothingRead DEF BuildInit
<1>3. \A c \in Calls : Fits(c)
  BY DEF LockInit, Fits, ServerSteps
<1>4. QED
  BY <1>1, <1>2, <1>3 DEF WholeInv, DocumentsComplete

(* The others hold nothing while one works, so nothing is said of them.    *)
LEMMA OthersRest ==
  ASSUME LockInv, NEW c \in Calls, Works(c) PROVE \A d \in Calls \ {c} : Fits(d)'
<1>1. \A d \in Calls \ {c} : ~Holds(d) /\ step'[d] = step[d]
  BY DEF Works, At, Goto, Holds, LockInv, LockShapes, OneBuilder
<1>2. QED
  BY <1>1 DEF Works, Holds, Holding, Fits, ServerSteps

(* What the checks say of the tiers.                                       *)
LEMMA TrulyRead ==
  ASSUME BuildAssumptions, WholeInv, NEW t \in TierSet, NEW in \in Readings,
         DOMAIN in = Reads[t], Current(in)
  PROVE  in = Inputs(t, source)
BY DEF Current, Inputs, Readings, WholeInv, BuildAssumptions, CompilerBuildAssumption

(* Steps that leave the artifacts and the site as they are.                *)
LEMMA WholeKept ==
  ASSUME WholeInv, UNCHANGED <<source, manifest, site, dropped>>, \A c \in Calls : Fits(c)'
  PROVE  WholeInv'
BY DEF WholeInv, ManifestTrue, DocumentsComplete

LEMMA FitsFrom ==
  ASSUME LockInv, NEW c \in Calls, Works(c), Fits(c)'
  PROVE  \A d \in Calls : Fits(d)'
BY OthersRest

LEMMA PlanWhole ==
  ASSUME BuildAssumptions, LockInv, WholeInv, NEW c \in Calls, Plan(c) PROVE WholeInv'
<1> DEFINE cached == IF c \in Uncached THEN {} ELSE {t \in TierSet : Reusable(t)}
<1> DEFINE w == [cached |-> cached, read |-> [t \in TierSet |-> Nothing], done |-> {},
                 checked |-> Nothing]
<1>1. work' = Extended(work, c, w) /\ UNCHANGED <<source, manifest, output, site, dropped>>
  BY DEF Plan
<1>3. cached \subseteq TierSet /\ cached \subseteq DOMAIN manifest
  BY DEF Reusable
<1> HIDE DEF cached
<1>4. w \in ServerWork /\ w.done = {} /\ w.cached = cached /\ \A t \in TierSet : w.read[t] = Nothing
  BY <1>3, NothingRead DEF ServerWork
<1> HIDE DEF w
<1>2. c \in DOMAIN work' /\ work'[c] = w
  BY <1>1 DEF Extended
<1>5. step'[c] = "compile"
  BY DEF Plan, Goto, At, LockInv, LockShapes
<1>6. Fits(c)'
  BY <1>1, <1>2, <1>3, <1>4, <1>5, NothingRead DEF Fits, ServerSteps, ServerFits, Reading
<1>7. Works(c)
  BY WorkStepWorks DEF WorkStep
<1>8. QED
  BY <1>1, <1>6, <1>7, FitsFrom, WholeKept

LEMMA ReadInputWhole ==
  ASSUME BuildAssumptions, LockInv, WholeInv, NEW c \in Calls, ReadInput(c) PROVE WholeInv'
<1>1. PICK t \in TierSet, f \in Files :
        /\ t \in Compiling(c) /\ f \in Reads[t] \ DOMAIN work[c].read[t]
        /\ work' = [work EXCEPT ![c].read[t] = Extended(@, f, source[f])]
  BY DEF ReadInput, Compiling, BuildAssumptions, CompilerBuildAssumption
<1>2. UNCHANGED <<source, manifest, output, site, dropped, step, process>>
  BY DEF ReadInput, Elsewhere, tierVars
<1>3. step[c] = "compile" /\ process[Home[c]] = "up"
  BY DEF ReadInput, At
<1>4. c \in DOMAIN work /\ work[c] \in ServerWork /\ Reading(work[c])
      /\ work[c].done \subseteq TierSet \ work[c].cached
  BY <1>3 DEF WholeInv, Fits, ServerSteps, ServerFits
<1>5. PICK a \in SUBSET TierSet, b \in [TierSet -> Readings], d \in SUBSET TierSet,
           e \in [Files -> Contents] \cup {Nothing} :
        work[c] = [cached |-> a, read |-> b, done |-> d, checked |-> e]
  BY <1>4 DEF ServerWork
<1>6. t \in TierSet \ a /\ f \in Reads[t] \ DOMAIN b[t] /\ f \in Files
  BY <1>1, <1>5 DEF Compiling
<1>7. PICK now \in Readings : now = Extended(b[t], f, source[f]) /\ DOMAIN now = DOMAIN b[t] \cup {f}
  <2>1. PICK S \in SUBSET Files : b[t] \in [S -> Contents]
    BY <1>6 DEF Readings
  <2>2. source[f] \in Contents
    BY DEF WholeInv
  <2>3. DOMAIN b[t] = S /\ \A x \in S : b[t][x] \in Contents
    BY <2>1
  <2>4. Extended(b[t], f, source[f]) \in [S \cup {f} -> Contents]
    BY <2>2, <2>3 DEF Extended
  <2>5. QED
    BY <2>3, <2>4 DEF Readings
<1>8. PICK more \in [TierSet -> Readings] : more = [b EXCEPT ![t] = now]
  BY <1>6, <1>7
<1>9. PICK w \in ServerWork : w = [cached |-> a, read |-> more, done |-> d, checked |-> e]
  BY <1>5, <1>8 DEF ServerWork
<1>10. work'[c] = w /\ c \in DOMAIN work'
  <2>1. work' = [work EXCEPT ![c] = [work[c] EXCEPT !.read = [work[c].read EXCEPT ![t] = Extended(work[c].read[t], f, source[f])]]]
    BY <1>1
  <2>2. [work[c].read EXCEPT ![t] = Extended(work[c].read[t], f, source[f])] = more
    BY <1>5, <1>7, <1>8
  <2>3. [work[c] EXCEPT !.read = more] = w
    BY <1>5, <1>9
  <2>4. QED
    BY <1>4, <2>1, <2>2, <2>3
<1>11. Reading(w)'
  <2>1. more[t] = now /\ \A u \in TierSet \ {t} : more[u] = b[u]
    BY <1>6, <1>8
  <2>2. w.cached = a /\ w.done = d /\ w.read = more
    BY <1>9
  <2>3. QED
    BY <1>2, <1>4, <1>5, <1>6, <1>7, <2>1, <2>2 DEF Reading
<1>12. Fits(c)'
  <2>1. w.done \subseteq TierSet \ w.cached
    BY <1>4, <1>5, <1>9
  <2>2. QED
    BY <1>2, <1>3, <1>10, <1>11, <2>1 DEF Fits, ServerSteps, ServerFits
<1>13. Works(c)
  BY WorkStepWorks DEF WorkStep
<1>14. QED
  BY <1>2, <1>12, <1>13, FitsFrom, WholeKept

(* A build whose work is over, or that only notes what is done.            *)
LEMMA OverWhole ==
  ASSUME LockInv, WholeInv, NEW c \in Calls, Works(c), step'[c] \notin ServerSteps \cup {"client"},
         UNCHANGED <<source, manifest, site, dropped>>
  PROVE  WholeInv'
<1>1. Fits(c)'
  BY DEF Fits, ServerSteps
<1>2. QED
  BY <1>1, FitsFrom, WholeKept

Notes(c, D) == work' = [work EXCEPT ![c].done = D]

LEMMA Noted ==
  ASSUME NEW c, c \in DOMAIN work, work[c] \in ServerWork, NEW D, D \subseteq TierSet, Notes(c, D)
  PROVE  /\ c \in DOMAIN work' /\ work'[c] \in ServerWork /\ work'[c].done = D
         /\ work'[c].cached = work[c].cached /\ work'[c].read = work[c].read
         /\ work'[c].checked = work[c].checked
BY DEF ServerWork, Notes

LEMMA ServerFacts ==
  ASSUME LockInv, WholeInv, NEW c \in Calls, At(c, step[c]), step[c] \in ServerSteps
  PROVE  /\ c \in DOMAIN work /\ work[c] \in ServerWork /\ ServerFits(work[c], step[c])
         /\ work[c].done \subseteq TierSet \ work[c].cached /\ work[c].cached \subseteq TierSet
BY DEF WholeInv, Fits, At, ServerFits, ServerWork

LEMMA FinishPassWhole ==
  ASSUME LockInv, WholeInv, NEW c \in Calls, FinishPass(c) PROVE WholeInv'
<1>1. step[c] = "compile" /\ At(c, step[c])
      /\ UNCHANGED <<source, manifest, output, site, dropped, step, process>>
  BY DEF FinishPass, At, Elsewhere, tierVars
<1>2. c \in DOMAIN work /\ work[c] \in ServerWork /\ Reading(work[c])
      /\ work[c].done \subseteq TierSet \ work[c].cached /\ work[c].cached \subseteq TierSet
  BY <1>1, ServerFacts DEF ServerSteps, ServerFits
<1>3. PICK t \in TierSet \ work[c].cached :
        Reads[t] = DOMAIN work[c].read[t] /\ work' = [work EXCEPT ![c].done = work[c].done \cup {t}]
  BY <1>2 DEF FinishPass, Compiling
<1>4. /\ c \in DOMAIN work' /\ work'[c] \in ServerWork /\ work'[c].done = work[c].done \cup {t}
      /\ work'[c].cached = work[c].cached /\ work'[c].read = work[c].read
  <2>1. work[c].done \cup {t} \subseteq TierSet /\ Notes(c, work[c].done \cup {t})
    BY <1>2, <1>3 DEF Notes
  <2>2. QED
    BY <1>2, <2>1, Noted
<1>5. Fits(c)'
  BY <1>1, <1>2, <1>3, <1>4 DEF Fits, ServerSteps, ServerFits, Reading
<1>6. Works(c)
  BY WorkStepWorks DEF WorkStep
<1>7. QED
  BY <1>1, <1>5, <1>6, FitsFrom, WholeKept

LEMMA CheckAllWhole ==
  ASSUME BuildAssumptions, LockInv, WholeInv, NEW c \in Calls, CheckAll(c) PROVE WholeInv'
<1>0. Works(c)
  BY WorkStepWorks DEF WorkStep
<1>1. step[c] = "compile" /\ At(c, step[c])
      /\ UNCHANGED <<source, manifest, output, site, dropped, process>>
  BY DEF CheckAll, At, Elsewhere, tierVars
<1>2. c \in DOMAIN work /\ work[c] \in ServerWork /\ Reading(work[c])
      /\ work[c].done \subseteq TierSet \ work[c].cached /\ work[c].cached \subseteq TierSet
  BY <1>1, ServerFacts DEF ServerSteps, ServerFits
<1>3. CASE Abandon(c)
  <2>1. step'[c] = "release"
    BY <1>1, <1>3 DEF Abandon, Goto, LockInv, LockShapes
  <2>2. QED
    BY <1>0, <1>1, <2>1, OverWhole DEF ServerSteps
<1>4. CASE StillTrue(c) /\ Goto(c, "publish")
           /\ work' = [work EXCEPT ![c].checked = source, ![c].done = {}]
  <2>1. PICK a \in SUBSET TierSet, b \in [TierSet -> Readings], d \in SUBSET TierSet,
             e \in [Files -> Contents] \cup {Nothing} :
          work[c] = [cached |-> a, read |-> b, done |-> d, checked |-> e]
    BY <1>2 DEF ServerWork
  <2>2. work'[c] = [cached |-> a, read |-> b, done |-> {}, checked |-> source] /\ c \in DOMAIN work'
    <3> DEFINE w == [work[c] EXCEPT !.checked = source]
    <3>1. w = [cached |-> a, read |-> b, done |-> d, checked |-> source]
      BY <2>1
    <3>2. work' = [work EXCEPT ![c] = [work[c] EXCEPT !.checked = source, !.done = {}]]
      BY <1>2, <1>4
    <3> HIDE DEF w
    <3>3. [w EXCEPT !.done = {}] = [cached |-> a, read |-> b, done |-> {}, checked |-> source]
      BY <3>1
    <3>4. QED
      BY <1>2, <3>2, <3>3 DEF w
  <2>3. step'[c] = "publish"
    BY <1>1, <1>4 DEF Goto, LockInv, LockShapes
  <2>4. \A t \in TierSet \ a : b[t] = Inputs(t, source)
    <3> SUFFICES ASSUME NEW t \in TierSet \ a PROVE b[t] = Inputs(t, source)
      OBVIOUS
    <3>1. DOMAIN b[t] = Reads[t]
      BY <1>2, <2>1 DEF Reading, CheckAll, Compiling
    <3>2. Current(b[t])
      BY <1>4, <2>1 DEF StillTrue, Input
    <3>3. QED
      BY <2>1, <3>1, <3>2, TrulyRead
  <2>5. \A t \in a : t \in DOMAIN output /\ output[t] = Compiled(Inputs(t, source), TRUE)
    <3> SUFFICES ASSUME NEW t \in a
                 PROVE  t \in DOMAIN output /\ output[t] = Compiled(Inputs(t, source), TRUE)
      OBVIOUS
    <3>1. work[c].cached = a
      BY <2>1
    <3>2. t \in DOMAIN manifest
      BY <1>2, <3>1 DEF Reading
    <3>3. ManifestTrue(t)
      BY <3>2 DEF WholeInv
    <3>4. PICK in \in Readings : /\ DOMAIN in = Reads[t] /\ t \in TierSet
                                  /\ manifest[t] = [in |-> in, out |-> Compiled(in, TRUE)]
      BY <3>3 DEF ManifestTrue
    <3>5. manifest[t].in = in /\ manifest[t].out = Compiled(in, TRUE)
      BY <3>4
    <3>6. t \in DOMAIN output /\ output[t] = manifest[t].out /\ Current(manifest[t].in)
      BY <1>4, <3>1, <3>4 DEF StillTrue, Input
    <3>7. QED
      BY <3>4, <3>5, <3>6, TrulyRead
  <2>6. work'[c] \in ServerWork
    BY <2>1, <2>2 DEF ServerWork, WholeInv
  <2>7. Publishing(work[c], "publish")'
    <3>1. /\ work'[c].cached = a /\ work'[c].read = b /\ work'[c].done = {}
          /\ work'[c].checked = source
      BY <2>2
    <3>2. QED
      BY <1>1, <2>4, <2>5, <3>1 DEF Publishing, InPlace
  <2>8. Fits(c)'
    BY <2>2, <2>3, <2>6, <2>7 DEF Fits, ServerSteps, ServerFits
  <2>9. QED
    BY <1>0, <1>1, <2>8, FitsFrom, WholeKept
<1>5. QED
  BY <1>3, <1>4 DEF CheckAll

LEMMA PublishWhole ==
  ASSUME BuildAssumptions, LockInv, WholeInv, NEW c \in Calls, Publish(c) PROVE WholeInv'
<1>0. Works(c)
  BY WorkStepWorks DEF WorkStep
<1>1. step[c] = "publish" /\ At(c, step[c])
      /\ UNCHANGED <<source, manifest, site, dropped, process>>
  BY DEF Publish, At, Elsewhere
<1>2. c \in DOMAIN work /\ work[c] \in ServerWork /\ Publishing(work[c], "publish")
      /\ work[c].done \subseteq TierSet \ work[c].cached /\ work[c].cached \subseteq TierSet
  BY <1>1, ServerFacts DEF ServerSteps, ServerFits
<1>3. CASE work[c].done = Compiling(c) /\ Goto(c, "finalize") /\ work' = [work EXCEPT ![c].done = {}]
           /\ output' = output
  <2>1. /\ c \in DOMAIN work' /\ work'[c] \in ServerWork /\ work'[c].done = {}
        /\ work'[c].cached = work[c].cached /\ work'[c].read = work[c].read
        /\ work'[c].checked = work[c].checked
    <3>1. {} \subseteq TierSet /\ Notes(c, {})
      BY <1>2, <1>3 DEF Notes
    <3>2. QED
      BY <1>2, <3>1, Noted
  <2>2. step'[c] = "finalize"
    <3>1. c \in DOMAIN step
      BY DEF LockInv, LockShapes
    <3>2. step' = [step EXCEPT ![c] = "finalize"]
      BY <1>3 DEF Goto
    <3>3. QED
      BY <3>1, <3>2
  <2>3. Publishing(work[c], "finalize")'
    <3>1. /\ \A t \in TierSet \ work[c].cached : work[c].read[t] = Inputs(t, work[c].checked)
          /\ \A t \in work[c].cached : InPlace(work[c], t, TRUE)
      BY <1>2 DEF Publishing
    <3>2. \A t \in TierSet \ work[c].cached : InPlace(work[c], t, t # Rpc)
      BY <1>2, <1>3 DEF Publishing, Compiling
    <3>3. output' = output
      BY <1>3
    <3>4. QED
      BY <2>1, <3>1, <3>2, <3>3 DEF Publishing, InPlace
  <2>4. Fits(c)'
    BY <2>1, <2>2, <2>3 DEF Fits, ServerSteps, ServerFits
  <2>5. QED
    BY <1>0, <1>1, <2>4, FitsFrom, WholeKept
<1>4. ASSUME NEW t \in TierSet, NextTier(c, t), step' = step,
             output' = Extended(output, t, Compiled(work[c].read[t], t # Rpc)),
             work' = [work EXCEPT ![c].done = work[c].done \cup {t}]
      PROVE  WholeInv'
  <2>1. t \in TierSet \ work[c].cached
    BY <1>4 DEF NextTier, Compiling
  <2>2. /\ c \in DOMAIN work' /\ work'[c] \in ServerWork /\ work'[c].done = work[c].done \cup {t}
        /\ work'[c].cached = work[c].cached /\ work'[c].read = work[c].read
        /\ work'[c].checked = work[c].checked
    <3>1. work[c].done \cup {t} \subseteq TierSet /\ Notes(c, work[c].done \cup {t})
      BY <1>2, <1>4 DEF Notes
    <3>2. QED
      BY <1>2, <3>1, Noted
  <2>3. /\ t \in DOMAIN output' /\ output'[t] = Compiled(Inputs(t, work[c].checked), t # Rpc)
        /\ \A u \in DOMAIN output \ {t} : u \in DOMAIN output' /\ output'[u] = output[u]
    BY <1>2, <1>4, <2>1 DEF Extended, Publishing
  <2>4. Publishing(work[c], "publish")'
    BY <1>2, <2>1, <2>2, <2>3 DEF Publishing, InPlace
  <2>5. Fits(c)'
    BY <1>1, <1>2, <1>4, <2>1, <2>2, <2>4 DEF Fits, ServerSteps, ServerFits
  <2>6. QED
    BY <1>0, <1>1, <2>5, FitsFrom, WholeKept
<1>5. QED
  BY <1>3, <1>4 DEF Publish

LEMMA FinalizeWhole ==
  ASSUME BuildAssumptions, LockInv, WholeInv, NEW c \in Calls, Finalize(c) PROVE WholeInv'
<1>0. Works(c)
  BY WorkStepWorks DEF WorkStep
<1>1. step[c] = "finalize" /\ At(c, step[c]) /\ output' = [output EXCEPT ![Rpc] = Compiled(@.of, TRUE)]
      /\ UNCHANGED <<source, manifest, work, site, dropped, process>>
  BY DEF Finalize, At, Elsewhere
<1>2. c \in DOMAIN work /\ work[c] \in ServerWork /\ Publishing(work[c], "finalize")
      /\ work[c].done \subseteq TierSet \ work[c].cached /\ work[c].cached \subseteq TierSet
  BY <1>1, ServerFacts DEF ServerSteps, ServerFits
<1>3. PICK s \in {"save", "built"} : step'[c] = s
  BY <1>1 DEF Finalize, Goto, LockInv, LockShapes
<1>4. Rpc \in DOMAIN output
      /\ \E final \in BOOLEAN : output[Rpc] = Compiled(Inputs(Rpc, work[c].checked), final)
  BY <1>2 DEF Publishing, InPlace, BuildAssumptions, CompilerBuildAssumption
<1>5. DOMAIN output' = DOMAIN output /\ output'[Rpc] = Compiled(Inputs(Rpc, work[c].checked), TRUE)
      /\ \A t \in DOMAIN output \ {Rpc} : output'[t] = output[t]
  <2>1. output[Rpc].of = Inputs(Rpc, work[c].checked)
    BY <1>4 DEF Compiled
  <2>2. QED
    BY <1>1, <1>4, <2>1
<1>6. \A t \in TierSet : t \in DOMAIN output' /\ output'[t] = Compiled(Inputs(t, work[c].checked), TRUE)
  BY <1>2, <1>4, <1>5 DEF Publishing, InPlace
<1>7. Publishing(work[c], s)'
  BY <1>1, <1>2, <1>3, <1>6 DEF Publishing, InPlace
<1>8. Fits(c)'
  BY <1>1, <1>2, <1>3, <1>7 DEF Fits, ServerSteps, ServerFits
<1>9. QED
  BY <1>0, <1>1, <1>8, FitsFrom, WholeKept

LEMMA SaveManifestWhole ==
  ASSUME BuildAssumptions, LockInv, WholeInv, NEW c \in Calls, SaveManifest(c) PROVE WholeInv'
<1>0. Works(c)
  BY WorkStepWorks DEF WorkStep
<1>1. step[c] = "save" /\ At(c, step[c])
      /\ UNCHANGED <<source, output, site, dropped, process>>
  BY DEF SaveManifest, At, Elsewhere
<1>2. c \in DOMAIN work /\ work[c] \in ServerWork /\ Publishing(work[c], "save")
      /\ work[c].done \subseteq TierSet \ work[c].cached /\ work[c].cached \subseteq TierSet
  BY <1>1, ServerFacts DEF ServerSteps, ServerFits
<1>3. CASE Goto(c, "built") /\ UNCHANGED <<manifest, work>>
  <2>1. step'[c] = "built"
    BY <1>1, <1>3 DEF Goto, LockInv, LockShapes
  <2>2. Publishing(work[c], "built")'
    BY <1>1, <1>2, <1>3 DEF Publishing, InPlace
  <2>3. Fits(c)'
    BY <1>1, <1>2, <1>3, <2>1, <2>2 DEF Fits, ServerSteps, ServerFits
  <2>4. QED
    BY <1>0, <1>1, <1>3, <2>3, FitsFrom, WholeKept
<1>4. ASSUME NEW t \in TierSet, NextTier(c, t), step' = step,
             manifest' = Extended(manifest, t, [in |-> work[c].read[t], out |-> output[t]]),
             work' = [work EXCEPT ![c].done = work[c].done \cup {t}]
      PROVE  WholeInv'
  <2>1. t \in TierSet \ work[c].cached
    BY <1>4 DEF NextTier, Compiling
  <2>2. /\ c \in DOMAIN work' /\ work'[c] \in ServerWork /\ work'[c].done = work[c].done \cup {t}
        /\ work'[c].cached = work[c].cached /\ work'[c].read = work[c].read
        /\ work'[c].checked = work[c].checked
    <3>1. work[c].done \cup {t} \subseteq TierSet /\ Notes(c, work[c].done \cup {t})
      BY <1>2, <1>4 DEF Notes
    <3>2. QED
      BY <1>2, <3>1, Noted
  <2>3. /\ work[c].read[t] = Inputs(t, work[c].checked)
        /\ work[c].read[t] \in Readings
        /\ output[t] = Compiled(work[c].read[t], TRUE)
    BY <1>2, <2>1 DEF Publishing, InPlace, ServerWork
  <2>4. DOMAIN work[c].read[t] = Reads[t]
    BY <2>3 DEF Inputs
  <2>5. /\ DOMAIN manifest' = DOMAIN manifest \cup {t}
        /\ manifest'[t] = [in |-> work[c].read[t], out |-> Compiled(work[c].read[t], TRUE)]
        /\ \A u \in DOMAIN manifest \ {t} : manifest'[u] = manifest[u]
    BY <1>4, <2>3 DEF Extended
  <2>6. \A u \in DOMAIN manifest' : ManifestTrue(u)'
    <3>1. ManifestTrue(t)'
      BY <2>3, <2>4, <2>5 DEF ManifestTrue
    <3>2. QED
      BY <2>5, <3>1 DEF WholeInv, ManifestTrue
  <2>7. Publishing(work[c], "save")'
    BY <1>1, <1>2, <2>2 DEF Publishing, InPlace
  <2>8. Fits(c)'
    BY <1>1, <1>2, <1>4, <2>1, <2>2, <2>7 DEF Fits, ServerSteps, ServerFits
  <2>9. \A d \in Calls : Fits(d)'
    BY <1>0, <2>8, FitsFrom
  <2>10. QED
    BY <1>1, <2>6, <2>9 DEF WholeInv, DocumentsComplete
<1>5. QED
  BY <1>3, <1>4 DEF SaveManifest

LEMMA EndsWhole ==
  ASSUME LockInv, WholeInv, NEW c \in Calls,
         FailPass(c) \/ ServerOnly(c) \/ StartWatching(c) \/ CancelClient(c)
  PROVE  WholeInv'
<1>1. Goto(c, "release") /\ UNCHANGED <<source, manifest, site, dropped>>
  BY DEF FailPass, ServerOnly, StartWatching, CancelClient, Abandon, tierVars
<1>2. step'[c] = "release"
  BY <1>1 DEF Goto, LockInv, LockShapes
<1>3. Works(c)
  BY WorkStepWorks DEF WorkStep
<1>4. QED
  BY <1>1, <1>2, <1>3, OverWhole DEF ServerSteps

LEMMA CompileClientWhole ==
  ASSUME LockInv, WholeInv, NEW c \in Calls, CompileClient(c) PROVE WholeInv'
<1>1. PICK r \in Releases :
        work' = Extended(work, c, [release |-> r, left |-> Documents[r] \cup Assets[r]])
  BY DEF CompileClient
<1>2. step'[c] = "client" /\ UNCHANGED <<source, manifest, site, dropped>>
  BY DEF CompileClient, Goto, tierVars, LockInv, LockShapes
<1>3. c \in DOMAIN work' /\ work'[c] = [release |-> r, left |-> Documents[r] \cup Assets[r]]
  BY <1>1 DEF Extended
<1>4. Fits(c)'
  BY <1>2, <1>3 DEF Fits, ServerSteps, ClientFits
<1>5. Works(c)
  BY WorkStepWorks DEF WorkStep
<1>6. QED
  BY <1>2, <1>4, <1>5, FitsFrom, WholeKept

LEMMA PublishFileWhole ==
  ASSUME BuildAssumptions, LockInv, WholeInv, NEW c \in Calls, PublishFile(c) PROVE WholeInv'
<1>0. step[c] = "client" /\ At(c, step[c])
      /\ UNCHANGED <<source, manifest, output, step, process>>
  BY DEF PublishFile, At, Elsewhere, tierVars
<1>1. c \in DOMAIN work /\ ClientFits(work[c])
  BY <1>0 DEF WholeInv, Fits, At
<1>2. PICK r, L : /\ r \in Releases /\ work[c] = [release |-> r, left |-> L]
                  /\ L \subseteq Documents[r] \cup Assets[r]
  BY <1>1 DEF ClientFits
<1>3. \A y \in (Documents[r] \cup Assets[r]) \ L : y \in DOMAIN site /\ site[y] = r
  BY <1>1, <1>2 DEF ClientFits
<1>4. PICK x \in Ready(c) :
        /\ site' = Extended(site, x, r) /\ dropped' = dropped \ {x}
        /\ work' = [work EXCEPT ![c].left = L \ {x}]
  <2>1. work[c].release = r /\ work[c].left = L
    BY <1>2
  <2>2. PICK x \in Ready(c) :
          /\ site' = Extended(site, x, work[c].release) /\ dropped' = dropped \ {x}
          /\ work' = [work EXCEPT ![c].left = work[c].left \ {x}]
    BY DEF PublishFile
  <2>3. QED
    BY <2>1, <2>2
<1>5. x \in L /\ (x \in Documents[r] => L \cap Assets[r] = {})
  BY <1>2 DEF PublishFile, Ready, BuildAssumptions, CompilerBuildAssumption
<1>6. /\ DOMAIN site' = DOMAIN site \cup {x} /\ site'[x] = r
      /\ \A y \in DOMAIN site \ {x} : site'[y] = site[y]
  BY <1>4 DEF Extended
<1>7. c \in DOMAIN work' /\ work'[c] = [release |-> r, left |-> L \ {x}]
  <2>1. [work[c] EXCEPT !.left = L \ {x}] = [release |-> r, left |-> L \ {x}]
    BY <1>2
  <2>2. QED
    BY <1>1, <1>4, <2>1
<1>8. Fits(c)'
  <2>1. work'[c].release = r /\ work'[c].left = L \ {x}
    BY <1>7
  <2>2. ClientFits(work[c])'
    BY <1>2, <1>3, <1>5, <1>6, <1>7, <2>1 DEF ClientFits
  <2>3. QED
    BY <1>0, <1>7, <2>2 DEF Fits, ServerSteps
<1>9. DocumentsComplete'
  <2> SUFFICES ASSUME NEW d \in (DOMAIN site' \cap AllDocuments) \ dropped'
               PROVE  Assets[site'[d]] \subseteq DOMAIN site'
    BY DEF DocumentsComplete, AllDocuments
  <2>1. CASE d = x
    <3>1. PICK q \in Releases : x \in Documents[q]
      BY <2>1 DEF AllDocuments
    <3>a. x \notin Assets[r]
      BY <1>2, <3>1 DEF BuildAssumptions, CompilerBuildAssumption
    <3>2. L \cap Assets[r] = {}
      BY <1>2, <1>5, <3>a
    <3>3. QED
      BY <1>3, <1>6, <2>1, <3>2
  <2>2. CASE d # x
    <3>1. d \in (DOMAIN site \cap AllDocuments) \ dropped
      BY <1>4, <1>6, <2>2
    <3>2. QED
      BY <1>6, <2>2, <3>1 DEF WholeInv, DocumentsComplete
  <2>3. QED
    BY <2>1, <2>2
<1>10. Works(c)
  BY WorkStepWorks DEF WorkStep
<1>11. \A d \in Calls : Fits(d)'
  BY <1>8, <1>10, FitsFrom
<1>12. QED
  BY <1>0, <1>9, <1>11 DEF WholeInv, ManifestTrue

LEMMA PruneWhole ==
  ASSUME BuildAssumptions, LockInv, WholeInv, NEW c \in Calls, Prune(c) PROVE WholeInv'
<1>0. Works(c)
  BY WorkStepWorks DEF WorkStep
<1>1. step[c] = "client" /\ At(c, step[c]) /\ UNCHANGED <<source, manifest, output, process>>
  BY DEF Prune, At, Elsewhere, tierVars
<1>2. CASE Abandon(c) /\ UNCHANGED <<site, dropped>>
  <2>1. step'[c] = "release"
    BY <1>2 DEF Abandon, Goto, LockInv, LockShapes
  <2>2. QED
    BY <1>0, <1>1, <1>2, <2>1, OverWhole DEF ServerSteps
<1>3. ASSUME NEW x \in Old(c), site' = Without(site, x),
             dropped' = (Old(c) \cap AllDocuments) \ {x}, UNCHANGED <<step, work>>
      PROVE  WholeInv'
  <2>1. c \in DOMAIN work /\ ClientFits(work[c])
    BY <1>1 DEF WholeInv, Fits, At
  <2>2. PICK r \in Releases : work[c] = [release |-> r, left |-> {}]
    BY <2>1 DEF ClientFits, Prune
  <2>3. \A y \in Documents[r] \cup Assets[r] : y \in DOMAIN site /\ site[y] = r
    BY <2>1, <2>2 DEF ClientFits
  <2>4. Old(c) = DOMAIN site \ (Documents[r] \cup Assets[r])
    BY <2>2 DEF Old
  <2>5. DOMAIN site' = DOMAIN site \ {x} /\ \A y \in DOMAIN site \ {x} : site'[y] = site[y]
    BY <1>3 DEF Without
  <2>6. ClientFits(work[c])'
    BY <1>3, <2>2, <2>3, <2>4, <2>5 DEF ClientFits
  <2>7. Fits(c)'
    BY <1>1, <1>3, <2>1, <2>6 DEF Fits, ServerSteps
  <2>8. DocumentsComplete'
    <3> SUFFICES ASSUME NEW d \in (DOMAIN site' \cap AllDocuments) \ dropped'
                 PROVE  Assets[site'[d]] \subseteq DOMAIN site'
      BY DEF DocumentsComplete, AllDocuments
    <3>1. d \in Documents[r] \cup Assets[r] /\ d # x
      BY <1>3, <2>4, <2>5
    <3>2. site'[d] = r
      BY <2>3, <2>5, <3>1
    <3>3. QED
      BY <1>3, <2>3, <2>4, <2>5, <3>2
  <2>9. \A d \in Calls : Fits(d)'
    BY <1>0, <2>7, FitsFrom
  <2>10. QED
    BY <1>1, <2>8, <2>9 DEF WholeInv, ManifestTrue
<1>4. QED
  BY <1>2, <1>3 DEF Prune

LEMMA WorkStepWhole ==
  ASSUME BuildAssumptions, LockInv, WholeInv, NEW c \in Calls, WorkStep(c) PROVE WholeInv'
BY PlanWhole, ReadInputWhole, FinishPassWhole, CheckAllWhole, PublishWhole, FinalizeWhole,
   SaveManifestWhole, EndsWhole, CompileClientWhole, PublishFileWhole, PruneWhole DEF WorkStep

(* Nobody else touches what a build works with.                            *)
LEMMA AsideWhole ==
  ASSUME WholeInv, UNCHANGED <<source, output, manifest, work, site, dropped>>,
         \A c \in Calls : process'[Home[c]] = "up" /\ step'[c] \in ServerSteps \cup {"client"}
                            => process[Home[c]] = "up" /\ step'[c] = step[c]
  PROVE  WholeInv'
<1>1. ASSUME NEW c \in Calls PROVE Fits(c)'
  <2>1. Fits(c)
    BY DEF WholeInv
  <2>2. ServerFits(work[c], step[c])' <=> ServerFits(work[c], step'[c])
    BY DEF ServerFits, Reading, Publishing, InPlace
  <2>3. ClientFits(work[c])' <=> ClientFits(work[c])
    BY DEF ClientFits
  <2>4. QED
    BY <2>1, <2>2, <2>3 DEF Fits
<1>2. QED
  BY <1>1, WholeKept

LEMMA EditWhole == ASSUME BuildAssumptions, WholeInv, Edit PROVE WholeInv'
<1>1. source' \in [Files -> Contents]
  BY DEF Edit, WholeInv
<1>2. UNCHANGED <<process, step, output, manifest, work, site, dropped>>
  BY DEF Edit, lockVars
<1>3. ASSUME NEW c \in Calls PROVE Fits(c)'
  <2>1. Fits(c)
    BY DEF WholeInv
  <2>2. ServerFits(work[c], step[c])' <=> ServerFits(work[c], step[c])
    BY <1>2 DEF ServerFits, Reading, Publishing, InPlace
  <2>3. ClientFits(work[c])' <=> ClientFits(work[c])
    BY <1>2 DEF ClientFits
  <2>4. QED
    BY <1>2, <2>1, <2>2, <2>3 DEF Fits
<1>4. QED
  BY <1>1, <1>2, <1>3 DEF WholeInv, ManifestTrue, DocumentsComplete

LEMMA HandChangeWhole == ASSUME WholeInv, HandChange PROVE WholeInv'
<1>1. UNCHANGED <<process, step, source, manifest, work, site, dropped>>
      /\ \A c \in Calls : process[Home[c]] = "up" => step[c] \notin ServerSteps \ {"compile"}
  BY DEF HandChange, lockVars, ServerSteps
<1>2. \A c \in Calls : Fits(c)'
  BY <1>1 DEF WholeInv, Fits, ServerFits, ServerSteps, Reading, ClientFits
<1>3. QED
  BY <1>1, <1>2, WholeKept

LEMMA WholeSteps ==
  ASSUME BuildAssumptions, LockInv, WholeInv, [BuildNext]_buildVars PROVE WholeInv'
<1> USE DEF ServerSteps
<1>0. step \in [Calls -> LockSteps] /\ process \in [Processes -> {"up", "dead", "reused"}]
      /\ \A c \in Calls : Home[c] \in Processes
  BY DEF LockInv, LockShapes, Processes
<1>1. ASSUME NEW c \in Calls, Enter(c), UNCHANGED <<source, output, manifest, work, site, dropped>>
      PROVE  WholeInv'
  BY <1>0, <1>1, AsideWhole DEF Enter, Goto
<1>2. ASSUME NEW c \in Calls, LockMoves(c) \/ (GiveUp(c) /\ UNCHANGED workVars) PROVE WholeInv'
  <2>1. process' = process /\ UNCHANGED <<source, output, manifest, work, site, dropped>>
        /\ \E s \in LockSteps \ (ServerSteps \cup {"client"}) : Goto(c, s)
    BY <1>2 DEF LockMoves, workVars, LockStep, OpenLock, WriteOwner, ReadOwner, ProbeOwner, ClaimReaper,
                CheckAgain, Unlink, RemoveReaper, TryAgain, ReadOwn, RemoveLock, EndCall, GiveUp,
                LockSteps, Holding
  <2>2. QED
    BY <1>0, <2>1, AsideWhole DEF Goto
<1>3. ASSUME NEW p \in Processes, (Die(p) \/ ReuseNumber(p)) /\ UNCHANGED workVars PROVE WholeInv'
  BY <1>0, <1>3, AsideWhole DEF Die, ReuseNumber, workVars
<1>4. CASE WatchEvent \/ UNCHANGED buildVars
  BY <1>4, AsideWhole DEF WatchEvent, besidesWatch, lockVars, buildVars, workVars
<1>5. CASE TimerFires \/ RebuildEnds
  <2>1. UNCHANGED <<source, output, manifest, work, site, dropped>>
    BY <1>5 DEF TimerFires, RebuildEnds, besidesWatch
  <2>2. EnterDev \/ UNCHANGED lockVars
    BY <1>5 DEF TimerFires, RebuildEnds
  <2>3. CASE EnterDev
    BY <1>1, <2>1, <2>3 DEF EnterDev
  <2>4. CASE UNCHANGED lockVars
    BY <2>1, <2>4, AsideWhole DEF lockVars
  <2>5. QED
    BY <2>2, <2>3, <2>4
<1>6. ASSUME NEW c \in Calls, StartCall(c) PROVE WholeInv'
  BY <1>1, <1>6 DEF StartCall, workVars
<1>7. QED
  BY <1>2, <1>3, <1>4, <1>5, <1>6, WorkStepWhole, EditWhole, HandChangeWhole DEF BuildNext

(* What a successful build leaves is of one source, and every document of  *)
(* the site finds its files, for any tiers, files, releases, edits, deaths *)
(* and changes by hand between builds.                                     *)
THEOREM BuildsWhole == ASSUME BuildAssumptions PROVE BuildSpec => []BuildWhole
<1>1. LockInit /\ BuildInit => WholeInv
  BY WholeInitially, BuildAssumptions
<1>2. LockInv /\ WholeInv /\ [BuildNext]_buildVars => WholeInv'
  BY WholeSteps, BuildAssumptions
<1>3. WholeInv => BuildWhole
  <2> SUFFICES ASSUME WholeInv PROVE OneGeneration /\ DocumentsComplete
    BY DEF BuildWhole
  <2>1. ASSUME NEW c \in Calls, At(c, "built"), NEW t \in TierSet
        PROVE  output[t] = Compiled(Inputs(t, work[c].checked), TRUE)
    BY <2>1 DEF WholeInv, Fits, At, ServerSteps, ServerFits, Publishing, InPlace
  <2>2. QED
    BY <2>1 DEF WholeInv, OneGeneration
<1>4. QED
  BY <1>1, <1>2, <1>3, LockInvariance, PTL DEF BuildSpec, BuildAssumptions
=============================================================================
