---------------------------- MODULE AtomicBatch ----------------------------
(***************************************************************************)
(* Atomic partitioned documents (src/src/devserver/db/atomic.ts): one      *)
(* partition, the decisions stored with it, and the requests that commit   *)
(* conditional batches to it under a token.                                *)
(*                                                                         *)
(* The guest is the one of docs/database/atomic.md: it reads the records   *)
(* it needs one by one, builds a batch that expects what it read, and      *)
(* commits it.  Here every token stands for moving one unit from a record  *)
(* to another; a record that would hold nothing is deleted, and one that   *)
(* held nothing is created, so that 0 is the absent record (a null         *)
(* expectation, a null value).  A client whose response was lost sends the *)
(* same batch again, or has the guest rebuild it from fresh reads.         *)
(*                                                                         *)
(* Requests are suspended between imports.  A batch is one import.  Frames *)
(* that are refused before the store is looked at (limits, budgets, a key  *)
(* twice, a wrong collection) end the request: they are traps.  So does a  *)
(* conflict, which the guest's commit throws.                              *)
(***************************************************************************)
EXTENDS Integers, FiniteSets

CONSTANTS
  Dispatches,   (* requests that may be open at the same time             *)
  Records,      (* keys of the partition                                  *)
  Tokens,       (* request tokens                                         *)
  From, To,     (* the record each token takes from and the one it fills  *)
  Start,        (* what the records hold at first                         *)
  MaxFaults,    (* bound: traps and crashes                               *)
  DiskMayFail   (* whether writing the snapshot may fail                  *)

ASSUME BatchAssumption ==
  /\ From \in [Tokens -> Records] /\ To \in [Tokens -> Records]
  /\ \A t \in Tokens : From[t] # To[t]
  /\ Start \in [Records -> Nat]
  /\ IsFiniteSet(Tokens)
  /\ MaxFaults \in Nat
  /\ DiskMayFail \in BOOLEAN

VARIABLES
  store,    (* [rows, decided]: the partition in memory                   *)
  disk,     (* the same, in the last snapshot                             *)
  serves,   (* the token of each open request                             *)
  seen,     (* what an open request read of each record                   *)
  says,     (* what the batch of an open request returned                 *)
  sent,     (* the batch last built for each token, in a set of one       *)
  acked,    (* history: what clients were told is committed               *)
  faults    (* traps and crashes so far                                   *)

vars == <<store, disk, serves, seen, says, sent, acked, faults>>

Unread == -1
open == DOMAIN serves

(* The batches of a token: for each of its two records, what is expected   *)
(* and what is left.                                                       *)
Batches(t) == [{From[t], To[t]} -> [expected : Nat, value : Nat]]

(* What an atomic_batch returns: 1, 0 and CONFLICT, with the batch.        *)
Silent     == [result |-> "none", batch |-> <<>>]
Said(r, b) == [result |-> r, batch |-> b]

-----------------------------------------------------------------------------
Init ==
  /\ store = [rows |-> Start, decided |-> <<>>]
  /\ disk = store
  /\ serves = <<>>
  /\ seen = [d \in Dispatches |-> [r \in Records |-> Unread]]
  /\ says = [d \in Dispatches |-> Silent]
  /\ sent = [t \in Tokens |-> {}]
  /\ acked = {}
  /\ faults = 0

Begin(d, t) ==
  /\ d \notin open
  /\ serves' = [o \in open \cup {d} |-> IF o = d THEN t ELSE serves[o]]
  /\ UNCHANGED <<store, disk, seen, says, sent, acked, faults>>

(* atomic_get: one read; separate reads may straddle a commit.             *)
Look(d, r) ==
  /\ d \in open
  /\ says[d] = Silent
  /\ seen[d][r] = Unread
  /\ \/ r = From[serves[d]]
     \/ r = To[serves[d]] /\ seen[d][From[serves[d]]] > 0
  /\ seen' = [seen EXCEPT ![d][r] = store.rows[r]]
  /\ UNCHANGED <<store, disk, serves, says, sent, acked, faults>>

(* The batch the guest builds from what it read.                           *)
HasRead(d) == seen[d][To[serves[d]]] # Unread

Built(d) ==
  LET a == From[serves[d]]
      b == To[serves[d]]
  IN  [r \in {a, b} |-> [expected |-> seen[d][r],
                         value    |-> IF r = a THEN seen[d][r] - 1 ELSE seen[d][r] + 1]]

(* data.atomic_batch.  A decided token answers from its decision; then     *)
(* every expectation is compared; then every record and the decision are   *)
(* written.                                                                *)
Expected(batch) == \A r \in DOMAIN batch : store.rows[r] = batch[r].expected

(* Mutant: any batch of a decided token is taken for the one decided.      *)
VerdictAnyBatch(t, batch) ==
  IF t \in DOMAIN store.decided \/ Expected(batch) THEN "committed" ELSE "changed"

Verdict(t, batch) ==
  IF t \in DOMAIN store.decided
  THEN IF store.decided[t] = batch THEN "committed" ELSE "conflict"
  ELSE IF Expected(batch) THEN "committed" ELSE "changed"

Left(batch) ==
  [r \in Records |-> IF r \in DOMAIN batch THEN batch[r].value ELSE store.rows[r]]

Written(t, batch) ==
  [rows    |-> Left(batch),
   decided |-> [u \in DOMAIN store.decided \cup {t} |->
                  IF u = t THEN batch ELSE store.decided[u]]]

(* Mutant: each record is written as its expectation is found to hold.     *)
CommitPiecewise(d, batch) ==
  LET t    == serves[d]
      held == [r \in {q \in DOMAIN batch : store.rows[q] = batch[q].expected} |-> batch[r]]
  IN  /\ says' = [says EXCEPT ![d] = Said(Verdict(t, batch), batch)]
      /\ store' = IF t \in DOMAIN store.decided THEN store
                  ELSE IF Expected(batch) THEN Written(t, batch)
                  ELSE [store EXCEPT !.rows = Left(held)]
      /\ sent' = [sent EXCEPT ![t] = {batch}]

Commit(d, batch) ==
  LET t == serves[d]
  IN  /\ says' = [says EXCEPT ![d] = Said(Verdict(t, batch), batch)]
      /\ store' = IF t \notin DOMAIN store.decided /\ Expected(batch)
                  THEN Written(t, batch)
                  ELSE store
      /\ sent' = [sent EXCEPT ![t] = {batch}]

(* A request either reads and rebuilds, or was given the original batch.    *)
Ready(d) == d \in open /\ says[d] = Silent

Rebuild(d) ==
  /\ Ready(d)
  /\ HasRead(d)
  /\ Commit(d, Built(d))
  /\ UNCHANGED <<disk, serves, seen, acked, faults>>

Resend(d) ==
  /\ Ready(d)
  /\ \A r \in Records : seen[d][r] = Unread
  /\ \E batch \in sent[serves[d]] : Commit(d, batch)
  /\ UNCHANGED <<disk, serves, seen, acked, faults>>

-----------------------------------------------------------------------------
(* The end of a request                                                    *)

(* persist: the whole store, records and decisions; a failed write is      *)
(* swallowed.                                                              *)
Persist == disk' = store \/ (DiskMayFail /\ disk' = disk)

(* Mutant: the next request keeps what the last one read.                  *)
CloseKeepsReads(d) ==
  /\ serves' = [o \in open \ {d} |-> serves[o]]
  /\ says' = [says EXCEPT ![d] = Silent]
  /\ UNCHANGED seen

Close(d) ==
  /\ serves' = [o \in open \ {d} |-> serves[o]]
  /\ seen' = [seen EXCEPT ![d] = [r \in Records |-> Unread]]
  /\ says' = [says EXCEPT ![d] = Silent]

(* The guest returns when its batch has, or when there is nothing to move. *)
Returns(d) ==
  \/ says[d].result \in {"committed", "changed"}
  \/ seen[d][From[serves[d]]] = 0

Answered(d) ==
  acked' = acked \cup {[token |-> serves[d], batch |-> s.batch] :
                         s \in {q \in {says[d]} : q.result = "committed"}}

Finish(d) ==
  /\ d \in open
  /\ Returns(d)
  /\ Persist
  /\ Answered(d)
  /\ Close(d)
  /\ UNCHANGED <<store, sent, faults>>

(* The guest throws on a conflict: the client is answered 500.             *)
Abort(d) ==
  /\ d \in open
  /\ says[d].result = "conflict"
  /\ Persist
  /\ Close(d)
  /\ UNCHANGED <<store, sent, acked, faults>>

(* The guest traps, at any point: what it committed stays, nobody is told. *)
Trap(d) ==
  /\ d \in open
  /\ faults < MaxFaults
  /\ faults' = faults + 1
  /\ Persist
  /\ Close(d)
  /\ UNCHANGED <<store, sent, acked>>

(* The process dies and a new one loads the snapshot.                      *)
Crash ==
  /\ faults < MaxFaults
  /\ faults' = faults + 1
  /\ store' = disk
  /\ serves' = <<>>
  /\ seen' = [d \in Dispatches |-> [r \in Records |-> Unread]]
  /\ says' = [d \in Dispatches |-> Silent]
  /\ UNCHANGED <<disk, sent, acked>>

Next ==
  \/ \E d \in Dispatches :
       \/ \E t \in Tokens : Begin(d, t)
       \/ \E r \in Records : Look(d, r)
       \/ Rebuild(d)
       \/ Resend(d)
       \/ Finish(d)
       \/ Abort(d)
       \/ Trap(d)
  \/ Crash

(* A client goes on asking until its move is done, now and then with fresh *)
(* reads; a request that began goes on to its end.                         *)
Serving(d, t) == d \in open /\ serves[d] = t

Fairness ==
  /\ \A t \in Tokens :
       /\ SF_vars(\E d \in Dispatches : Begin(d, t))
       /\ SF_vars(\E d \in Dispatches, r \in Records : Serving(d, t) /\ Look(d, r))
  /\ \A d \in Dispatches :
       WF_vars((\E r \in Records : Look(d, r)) \/ Rebuild(d) \/ Resend(d)
              \/ Finish(d) \/ Abort(d))

Spec == Init /\ [][Next]_vars
LiveSpec == Spec /\ Fairness

-----------------------------------------------------------------------------
(* Properties                                                              *)

Partition(s) ==
  /\ s = [rows |-> s.rows, decided |-> s.decided]
  /\ s.rows \in [Records -> Nat]
  /\ DOMAIN s.decided \subseteq Tokens
  /\ \A t \in DOMAIN s.decided :
       s.decided[t] \in Batches(t)

TypeOK ==
  /\ Partition(store) /\ Partition(disk)
  /\ open \subseteq Dispatches /\ \A d \in open : serves[d] \in Tokens
  /\ seen \in [Dispatches -> [Records -> Nat \cup {Unread}]]
  /\ \A d \in Dispatches : says[d].result \in {"none", "committed", "changed", "conflict"}
  /\ \A t \in Tokens : sent[t] \subseteq Batches(t)
  /\ \A a \in acked : a.token \in Tokens
  /\ faults \in 0..MaxFaults

(* Every decided token moved its unit exactly once, and nothing else moved *)
(* any: whatever the interleaving of reads and commits, the retries with   *)
(* the original batch or with a rebuilt one, traps and crashes.            *)
MovedOnce(s) ==
  \A r \in Records :
    s.rows[r] + Cardinality({t \in DOMAIN s.decided : From[t] = r})
      = Start[r] + Cardinality({t \in DOMAIN s.decided : To[t] = r})

ExactlyOnce == MovedOnce(store) /\ MovedOnce(disk)

(* What a client was told stays true: a committed token is decided, in     *)
(* memory and on disk, by the very batch the client has, so that sending   *)
(* it again is answered the same.                                          *)
Decided(token, batch, s) == token \in DOMAIN s.decided /\ s.decided[token] = batch

AnswersStand ==
  \A a \in acked : Decided(a.token, a.batch, store) /\ Decided(a.token, a.batch, disk)

(* No live-lock of the conditional writes: a batch is only refused when    *)
(* another was committed since its reads, so clients that rebuild and try  *)
(* again get every move done, or find nothing left to move.                *)
EachMoves ==
  \A t \in Tokens : <>[](t \in DOMAIN store.decided \/ store.rows[From[t]] = 0)
=============================================================================
