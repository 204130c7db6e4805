---------------------------- MODULE RecordStore ----------------------------
(***************************************************************************)
(* The record, unique and counter families of the development database    *)
(* (src/src/devserver/db/database.ts) under requests that carry            *)
(* idempotency keys, are retried, trap and crash.                          *)
(*                                                                         *)
(* A row belongs to a collection whose values have a @unique field, or is  *)
(* one of the Plain rows, of a collection without.  A value is opaque but  *)
(* for its mark, the content of that field.  The table `answers' is        *)
(* recordIdem: what an idempotency key was answered, per operation and     *)
(* row.  Dispatches interleave between imports, as in the race harness     *)
(* (dispatchAsync); each import is one action, and the store goes to disk  *)
(* as a whole when a dispatch finishes or traps.                           *)
(*                                                                         *)
(* Reads that change nothing (get, exists, unique_lookup, counter_get) and *)
(* the refusals of an import by family, kind or size are left out.  `born' *)
(* and `forced' in a row, `told', `kept' and `taken' are history.          *)
(***************************************************************************)
EXTENDS Integers, FiniteSets

CONSTANTS
  Dispatches,   (* executions that may be open at the same time          *)
  RowKeys,      (* records                                               *)
  Plain,        (* the rows of a collection without a @unique field      *)
  Values,       (* record values                                         *)
  MarkOf,       (* the content of the @unique field of a value           *)
  Blank,        (* the empty content, which may be shared                *)
  Idems,        (* idempotency keys                                      *)
  NoIdem,       (* no idempotency key given                              *)
  KeysOf,       (* bound: the idempotency keys, or none, tried with an op *)
  NoValue,      (* no value in a request or an outcome                   *)
  UniqueKeys,   (* keys of the unique family                             *)
  Owners,       (* who claims them                                       *)
  Counters, Deltas,
  Low, High,    (* I64_MIN and I64_MAX                                   *)
  MaxWrites,    (* bound: imports that change the store                  *)
  DiskMayFail   (* whether writing the snapshot may fail                 *)

ASSUME StoreAssumption ==
  /\ Plain \subseteq RowKeys
  /\ NoValue \notin Values /\ NoIdem \notin Idems
  /\ DOMAIN MarkOf = Values
  /\ KeysOf \in [{"create", "patch", "delete", "getDelete", "enqueue", "claim", "add"}
                 -> SUBSET (Idems \cup {NoIdem})]
  /\ Low \in Int /\ High \in Nat /\ Low <= 0 /\ Deltas \subseteq Int
  /\ MaxWrites \in Nat
  /\ DiskMayFail \in BOOLEAN

VARIABLES
  mem,      (* the maps of DevDatabase                                   *)
  disk,     (* the maps in the last snapshot                             *)
  open,     (* dispatches being served                                   *)
  writes,   (* changing imports so far                                   *)
  told,     (* history: what each open dispatch was answered             *)
  took,     (* history: the writes each open dispatch consumed           *)
  kept,     (* history: answers that reached a client and bind           *)
  taken     (* history: consumed writes whose consumer was answered      *)

vars == <<mem, disk, open, writes, told, took, kept, taken>>

MaybeIdem == Idems \cup {NoIdem}
RecordOps == {"create", "patch", "delete", "getDelete", "enqueue"}
Targets   == RowKeys \cup UniqueKeys \cup Counters

With(f, k, v) == [x \in DOMAIN f \cup {k} |-> IF x = k THEN v ELSE f[x]]
Drop(f, k)   == [x \in DOMAIN f \ {k} |-> f[x]]

Row     == [value : Values, born : Nat, forced : BOOLEAN]
Outcome == [kind : {"unit", "value", "absent", "exists", "missing"},
            value : Values \cup {NoValue}]
Plainly(kind) == [kind |-> kind, value |-> NoValue]
Valued(v)     == [kind |-> "value", value |-> v]

Empty == [rows |-> <<>>, answers |-> <<>>, claims |-> <<>>,
          sums |-> [c \in Counters |-> 0], added |-> <<>>]

-----------------------------------------------------------------------------
Init ==
  /\ mem = Empty /\ disk = Empty
  /\ open = {} /\ writes = 0
  /\ told = [d \in Dispatches |-> {}] /\ took = [d \in Dispatches |-> {}]
  /\ kept = {} /\ taken = {}

(* Mutant: only the rows that were created are looked at.                  *)
ConflictOnAbsent(r, v) ==
  /\ r \notin DOMAIN mem.rows
  /\ r \notin Plain /\ MarkOf[v] # Blank
  /\ \E o \in DOMAIN mem.rows \ (Plain \cup {r}) :
        MarkOf[mem.rows[o].value] = MarkOf[v]

(* uniqueConflict: another row of the collection holds the mark of v.      *)
Conflict(r, v) ==
  /\ r \notin Plain /\ MarkOf[v] # Blank
  /\ \E o \in DOMAIN mem.rows \ (Plain \cup {r}) :
        MarkOf[mem.rows[o].value] = MarkOf[v]

(* recordIdemStart: a request is executed when its key is new; a repeated  *)
(* one is answered from the table, one that differs is a conflict.         *)
Fresh(op, r, i) == i = NoIdem \/ <<op, r, i>> \notin DOMAIN mem.answers

(* Mutant: only a request that did something is remembered.                *)
SettledDone(m, op, r, v, i, out) ==
  IF i = NoIdem \/ out.kind \in {"exists", "missing", "absent"} THEN m
  ELSE [m EXCEPT !.answers = With(@, <<op, r, i>>, [value |-> v, outcome |-> out])]

(* recordIdemFinish: the outcome of this request, whatever it was.         *)
Settled(m, op, r, v, i, out) ==
  IF i = NoIdem THEN m
  ELSE [m EXCEPT !.answers = With(@, <<op, r, i>>, [value |-> v, outcome |-> out])]

Answer(op, t, v, i, out) ==
  [op |-> op, target |-> t, value |-> v, idem |-> i, outcome |-> out]

Tell(d, op, t, v, i, out) ==
  told' = IF i = NoIdem THEN told
          ELSE [told EXCEPT ![d] = @ \cup {Answer(op, t, v, i, out)}]

(* A dispatch counts as open from its first import: before it, it has no   *)
(* effect on the store and no promise to keep.                             *)
Opened(d) == open' = open \cup {d}

Changing(d) ==
  /\ writes' = writes + 1
  /\ Opened(d)
  /\ UNCHANGED <<disk, taken>>

Repeating(d) ==
  /\ Opened(d)
  /\ UNCHANGED <<mem, disk, writes, took, kept, taken>>

Stored(r, v, forced) ==
  [mem EXCEPT !.rows = With(@, r, [value |-> v, born |-> writes + 1, forced |-> forced])]
Removed(r) == [mem EXCEPT !.rows = Drop(@, r)]

Execute(d, op, r, v, i, m, out) ==
  /\ Changing(d)
  /\ Fresh(op, r, i)
  /\ mem' = Settled(m, op, r, v, i, out)
  /\ Tell(d, op, r, v, i, out)
  /\ UNCHANGED kept

Create(d, r, v, i) ==
  /\ IF r \in DOMAIN mem.rows \/ Conflict(r, v)
     THEN Execute(d, "create", r, v, i, mem, Plainly("exists"))
     ELSE Execute(d, "create", r, v, i, Stored(r, v, FALSE), Plainly("unit"))
  /\ UNCHANGED took

Patch(d, r, v, i) ==
  /\ IF r \notin DOMAIN mem.rows
     THEN Execute(d, "patch", r, v, i, mem, Plainly("missing"))
     ELSE IF Conflict(r, v)
     THEN Execute(d, "patch", r, v, i, mem, Plainly("exists"))
     ELSE Execute(d, "patch", r, v, i, Stored(r, v, FALSE), Valued(v))
  /\ UNCHANGED took

(* upsert takes an idempotency key and ignores it.                         *)
Upsert(d, r, v) ==
  /\ Changing(d)
  /\ ~Conflict(r, v)
  /\ mem' = Stored(r, v, FALSE)
  /\ UNCHANGED <<told, took, kept>>

(* enqueue replaces an existing row without looking at unique values.      *)
Enqueue(d, r, v, i) ==
  /\ IF r \in DOMAIN mem.rows
     THEN Execute(d, "enqueue", r, v, i, Stored(r, v, TRUE), Plainly("unit"))
     ELSE Execute(d, "enqueue", r, v, i, mem, Plainly("missing"))
  /\ UNCHANGED took

DeleteRow(d, r, i) ==
  /\ Execute(d, "delete", r, NoValue, i, Removed(r), Plainly("unit"))
  /\ UNCHANGED took

GetDelete(d, r, i) ==
  IF r \in DOMAIN mem.rows
  THEN /\ Execute(d, "getDelete", r, NoValue, i, Removed(r), Valued(mem.rows[r].value))
       /\ took' = [took EXCEPT ![d] = @ \cup {mem.rows[r].born}]
  ELSE /\ Execute(d, "getDelete", r, NoValue, i, mem, Plainly("absent"))
       /\ UNCHANGED took

(* A request seen before: the recorded outcome is answered again (with     *)
(* another value it is a conflict, and traps).                             *)
Replay(d, op, r, i) ==
  /\ ~Fresh(op, r, i)
  /\ LET seen == mem.answers[<<op, r, i>>] IN Tell(d, op, r, seen.value, i, seen.outcome)
  /\ Repeating(d)

(* compareExchange and compareDelete trap on a collection with a @unique   *)
(* field.  NoValue expects an absent row.                                  *)
Expected(r, expected) ==
  IF expected = NoValue THEN r \notin DOMAIN mem.rows
  ELSE r \in DOMAIN mem.rows /\ mem.rows[r].value = expected

CompareExchange(d, r, expected, v) ==
  /\ Changing(d)
  /\ r \in Plain /\ Expected(r, expected)
  /\ mem' = Stored(r, v, FALSE)
  /\ UNCHANGED <<told, took, kept>>

CompareDelete(d, r, expected) ==
  /\ Changing(d)
  /\ r \in Plain /\ expected # NoValue /\ Expected(r, expected)
  /\ mem' = Removed(r)
  /\ took' = [took EXCEPT ![d] = @ \cup {mem.rows[r].born}]
  /\ UNCHANGED <<told, kept>>

-----------------------------------------------------------------------------
(* The unique family.  A name that is claimed already answers its owner    *)
(* (AlreadyClaimed), or the caller that it owns it when the idempotency    *)
(* key is the one of its claim, else a conflict: none of them changes it.  *)
Claim(d, n, o, i) ==
  /\ Changing(d)
  /\ n \notin DOMAIN mem.claims
  /\ mem' = [mem EXCEPT !.claims = With(@, n, [owner |-> o, idem |-> i])]
  /\ told' = [told EXCEPT ![d] = @ \cup {Answer("claim", n, o, i, Plainly("unit"))}]
  /\ UNCHANGED <<took, kept>>

ClaimAgain(d, n, o, i) ==
  /\ n \in DOMAIN mem.claims /\ mem.claims[n] = [owner |-> o, idem |-> i]
  /\ told' = [told EXCEPT ![d] = @ \cup {Answer("claim", n, o, i, Plainly("unit"))}]
  /\ Repeating(d)

MayRelease(n, o) == mem.claims[n].owner = o

(* A release ends the promise of the claim of that owner.                  *)
Release(d, n, o) ==
  LET ended(s) == {a \in s : ~(a.op = "claim" /\ a.target = n /\ a.value = o)} IN
  /\ Changing(d)
  /\ n \in DOMAIN mem.claims /\ MayRelease(n, o)
  /\ mem' = [mem EXCEPT !.claims = Drop(@, n)]
  /\ told' = [e \in Dispatches |-> ended(told[e])]
  /\ kept' = ended(kept)
  /\ UNCHANGED took

-----------------------------------------------------------------------------
(* The counter family: saturating, and once per idempotency key.           *)
Saturated(x) == IF x < Low THEN Low ELSE IF x > High THEN High ELSE x

Add(d, c, delta, i) ==
  /\ Changing(d)
  /\ i = NoIdem \/ <<c, i>> \notin DOMAIN mem.added
  /\ mem' = [mem EXCEPT !.sums[c] = Saturated(@ + delta),
                        !.added = IF i = NoIdem THEN @ ELSE With(@, <<c, i>>, delta)]
  /\ Tell(d, "add", c, delta, i, Plainly("unit"))
  /\ UNCHANGED <<took, kept>>

AddAgain(d, c, delta, i) ==
  /\ <<c, i>> \in DOMAIN mem.added /\ mem.added[<<c, i>>] = delta
  /\ Tell(d, "add", c, delta, i, Plainly("unit"))
  /\ Repeating(d)

-----------------------------------------------------------------------------
Persist == disk' = mem \/ (DiskMayFail /\ disk' = disk)

Close(d) ==
  /\ open' = open \ {d}
  /\ told' = [told EXCEPT ![d] = {}]
  /\ took' = [took EXCEPT ![d] = {}]
  /\ UNCHANGED <<mem, writes>>

(* Mutant: the client is answered and the store not written.               *)
FinishUnsaved(d) ==
  /\ d \in open
  /\ UNCHANGED disk
  /\ kept' = kept \cup told[d]
  /\ taken' = taken \cup took[d]
  /\ Close(d)

(* finishDispatch: the store goes to disk, then the client is answered.    *)
FinishDispatch(d) ==
  /\ d \in open
  /\ Persist
  /\ kept' = kept \cup told[d]
  /\ taken' = taken \cup took[d]
  /\ Close(d)

(* A trap keeps what the imports did, and answers 500.                     *)
Trap(d) ==
  /\ d \in open
  /\ Persist
  /\ UNCHANGED <<kept, taken>>
  /\ Close(d)

Crash ==
  /\ open # {}
  /\ mem' = disk
  /\ open' = {}
  /\ told' = [d \in Dispatches |-> {}] /\ took' = [d \in Dispatches |-> {}]
  /\ UNCHANGED <<disk, writes, kept, taken>>

RecordStep(d) ==
  \/ \E r \in RowKeys :
       \/ \E v \in Values :
            \/ \E i \in KeysOf["create"]  : Create(d, r, v, i)
            \/ \E i \in KeysOf["patch"]   : Patch(d, r, v, i)
            \/ \E i \in KeysOf["enqueue"] : Enqueue(d, r, v, i)
            \/ Upsert(d, r, v)
       \/ \E i \in KeysOf["delete"]    : DeleteRow(d, r, i)
       \/ \E i \in KeysOf["getDelete"] : GetDelete(d, r, i)
  \/ \E r \in Plain, e \in Values \cup {NoValue} :
       \/ \E v \in Values : CompareExchange(d, r, e, v)
       \/ CompareDelete(d, r, e)

SharedStep(d) ==
  \/ \E n \in UniqueKeys, o \in Owners :
       \/ \E i \in KeysOf["claim"] : Claim(d, n, o, i)
       \/ Release(d, n, o)
  \/ \E c \in Counters, delta \in Deltas, i \in KeysOf["add"] : Add(d, c, delta, i)

RepeatedStep(d) ==
  \/ \E op \in RecordOps, r \in RowKeys, i \in Idems : Replay(d, op, r, i)
  \/ \E n \in UniqueKeys, o \in Owners, i \in KeysOf["claim"] : ClaimAgain(d, n, o, i)
  \/ \E c \in Counters, delta \in Deltas, i \in Idems : AddAgain(d, c, delta, i)

Next ==
  \/ \E d \in Dispatches :
       \/ writes < MaxWrites /\ (RecordStep(d) \/ SharedStep(d))
       \/ RepeatedStep(d) \/ FinishDispatch(d) \/ Trap(d)
  \/ Crash

Spec == Init /\ [][Next]_vars
-----------------------------------------------------------------------------
Store(m) ==
  /\ m.rows \in [DOMAIN m.rows -> Row] /\ DOMAIN m.rows \subseteq RowKeys
  /\ DOMAIN m.answers \subseteq RecordOps \X RowKeys \X Idems
  /\ m.answers \in [DOMAIN m.answers -> [value : Values \cup {NoValue}, outcome : Outcome]]
  /\ DOMAIN m.claims \subseteq UniqueKeys
  /\ m.claims \in [DOMAIN m.claims -> [owner : Owners, idem : MaybeIdem]]
  /\ m.sums \in [Counters -> Low..High]
  /\ DOMAIN m.added \subseteq Counters \X Idems
  /\ m.added \in [DOMAIN m.added -> Deltas]

Told(a) ==
  /\ a.op \in RecordOps \cup {"claim", "add"} /\ a.target \in Targets
  /\ a.idem \in MaybeIdem /\ a.outcome \in Outcome

(* The shape of the store in memory and on disk; counters stay in range.   *)
TypeOK ==
  /\ Store(mem) /\ Store(disk)
  /\ open \subseteq Dispatches /\ writes \in 0..MaxWrites
  /\ DOMAIN told = Dispatches /\ took \in [Dispatches -> SUBSET (1..MaxWrites)]
  /\ \A d \in Dispatches : \A a \in told[d] : Told(a)
  /\ \A a \in kept : Told(a)
  /\ taken \subseteq 1..MaxWrites

(* Two records of a collection never share the content of a @unique field, *)
(* in memory or on disk, whatever creates, patches and upserts interleave, *)
(* unless an enqueue put one of them there: enqueue does not look          *)
(* (DB 1718-1748).  The empty content may be shared.                       *)
UniqueHeld ==
  \A m \in {mem, disk} :
    \A r, s \in DOMAIN m.rows \ Plain :
      (r # s /\ MarkOf[m.rows[r].value] = MarkOf[m.rows[s].value]
             /\ MarkOf[m.rows[r].value] # Blank)
        => m.rows[r].forced \/ m.rows[s].forced

Binds(m, a) ==
  CASE a.op = "claim" -> a.target \in DOMAIN m.claims
                           /\ m.claims[a.target].owner = a.value
    [] a.op = "add"   -> <<a.target, a.idem>> \in DOMAIN m.added
                           /\ m.added[<<a.target, a.idem>>] = a.value
    [] OTHER          -> <<a.op, a.target, a.idem>> \in DOMAIN m.answers
                           /\ m.answers[<<a.op, a.target, a.idem>>]
                                = [value |-> a.value, outcome |-> a.outcome]

(* What a client was answered stays so: the same request under the same    *)
(* idempotency key would be answered the same again, a claim is its        *)
(* owner's until the owner releases it, and an addition is not added       *)
(* again, across traps, crashes and other requests for the same rows.      *)
AnswersStand ==
  /\ \A a \in kept : Binds(mem, a) /\ Binds(disk, a)
  /\ \A d \in open : \A a \in told[d] : Binds(mem, a)

(* documents.md, "exactly one caller can ever receive a given value": a    *)
(* value that was written and then consumed by getDelete or compareDelete, *)
(* whose consumer was answered, is not in the store, in memory or on disk, *)
(* nor in the hands of another dispatch.                                   *)
ConsumedOnce ==
  /\ \A m \in {mem, disk} : \A r \in DOMAIN m.rows : m.rows[r].born \notin taken
  /\ \A d \in open : took[d] \cap taken = {}
  /\ \A d, e \in open : d # e => took[d] \cap took[e] = {}
=============================================================================
