------------------------------ MODULE Capacity ------------------------------
(***************************************************************************)
(* One key of a Capacity collection of the development database            *)
(* (src/src/devserver/db/database.ts) and the dispatches that use it.      *)
(*                                                                         *)
(* The ledger of the key holds a ceiling and the reservations, each held   *)
(* until its time-to-live runs out or confirmed for good.  Every import is *)
(* synchronous, so one import is one action; several dispatches interleave *)
(* between imports.  A dispatch answers its client only after the whole    *)
(* store went to disk (finishDispatch), a trapped one writes the store and *)
(* answers 500, and a crash brings back what was last on disk.             *)
(*                                                                         *)
(* Reservation ids are u64.  Fresh ids count up from 1; the id of a        *)
(* reservation with an idempotency key has its top bit set.  A u64 the     *)
(* guest passes as a wasm i64 reaches the host SIGNED.  The word is 2*Half *)
(* here.  A request whose amount is not positive is an early return that   *)
(* changes nothing, and is left out.                                       *)
(***************************************************************************)
EXTENDS Integers, FiniteSets

CONSTANTS
  Dispatches,       (* executions that may be open at the same time      *)
  KeyedIds,         (* ids derived from the idempotency keys in use      *)
  Amounts,          (* amounts asked for                                 *)
  Ttls,             (* times-to-live asked for, already clamped to 24h   *)
  Totals,           (* arguments of set_total, negative ones included    *)
  MaxReservations,  (* MAX_RESERVATIONS, 4096 in the code                *)
  Half,             (* 2^63 in the code                                  *)
  MaxId,            (* bound: fresh ids handed out                       *)
  MaxNow,           (* bound: the clock                                  *)
  DiskMayFail       (* whether writing the snapshot may fail             *)

ASSUME CapacityAssumption ==
  /\ MaxId \in Nat /\ Half \in Nat /\ MaxId < Half
  /\ KeyedIds \subseteq Half..(2 * Half - 1)
  /\ Amounts \subseteq Nat \ {0}
  /\ Ttls \subseteq Nat
  /\ Totals \subseteq Int
  /\ MaxReservations \in Nat
  /\ MaxNow \in Nat
  /\ DiskMayFail \in BOOLEAN

VARIABLES
  ledger,   (* the CapLedger in memory: total, nextId, reservations      *)
  disk,     (* the ledger in the last snapshot                           *)
  now,      (* the host clock                                            *)
  open,     (* dispatches being served                                   *)
  pledged,  (* history: what each open dispatch was told by its imports  *)
  acked,    (* history: what dispatches that answered were told          *)
  peak      (* history: the highest ceiling ever set                     *)

vars == <<ledger, disk, now, open, pledged, acked, peak>>

Ids == 1..(2 * Half - 1)
None == 0

Reservation == [amount : Nat, expires : Nat, confirmed : BOOLEAN]
Handle      == [id : Ids, amount : Nat]
Hold        == [id : Ids, amount : Nat, until : Nat]
Nothing     == [sales |-> {}, holds |-> {}]

-----------------------------------------------------------------------------
(* Helpers of the ledger                                                   *)

(* capPrune: the reservations that survive at time t.                      *)
Prune(res, t) ==
  [i \in {j \in DOMAIN res : res[j].confirmed \/ res[j].expires > t} |-> res[i]]

Put(res, id, r) == [i \in DOMAIN res \cup {id} |-> IF i = id THEN r ELSE res[i]]
Drop(res, id)   == [i \in DOMAIN res \ {id} |-> res[i]]

(* capReserved: the sum of the amounts, as the number of reserved units.   *)
Units(res)    == UNION { {i} \X (1..res[i].amount) : i \in DOMAIN res }
Reserved(res) == Cardinality(Units(res))

(* The BigInt an i64 parameter of an import becomes.                       *)
AsSigned(u) == IF u >= Half THEN u - 2 * Half ELSE u

(* Mutant: a hold goes one tick before its time is over.                   *)
PrunedEarly == Prune(ledger.res, now + 1)

Pruned == Prune(ledger.res, now)

-----------------------------------------------------------------------------
Init ==
  /\ ledger = [total |-> 0, nextId |-> 1, res |-> <<>>]
  /\ disk = ledger
  /\ now = 0
  /\ open = {}
  /\ pledged = [d \in Dispatches |-> Nothing]
  /\ acked = Nothing
  /\ peak = 0

Begin(d) ==
  /\ d \notin open
  /\ open' = open \cup {d}
  /\ UNCHANGED <<ledger, disk, now, pledged, acked, peak>>

(* Every import below starts by pruning; what it leaves alone:             *)
Quiet == UNCHANGED <<disk, now, open, acked, peak>>

(* capacity_available, and every import that finds nothing to do: only the *)
(* pruning stays.                                                          *)
OnlyPrune ==
  /\ ledger' = [ledger EXCEPT !.res = Pruned]
  /\ UNCHANGED pledged
  /\ Quiet

Tell(d, what, told) == pledged' = [pledged EXCEPT ![d][what] = @ \cup {told}]

Available(d) == d \in open /\ OnlyPrune

(* Mutant: reserve asks only whether anything at all is left.              *)
SomeLeft(want) == ledger.total - Reserved(Pruned) > 0

(* capacity_reserve.  requested is the id of the idempotency key, or None. *)
Enough(want)    == ledger.total - Reserved(Pruned) >= want
HasRoom         == Cardinality(DOMAIN Pruned) < MaxReservations
Repeats(req)    == req # None /\ req \in DOMAIN Pruned
Refuses(want, req) == ~Repeats(req) /\ (~Enough(want) \/ ~HasRoom)

ReserveRepeated(d, want, req) ==
  /\ d \in open
  /\ Repeats(req)
  /\ Pruned[req].amount = want
  /\ ledger' = [ledger EXCEPT !.res = Pruned]
  /\ Tell(d, "holds", [id |-> req, amount |-> want, until |-> Pruned[req].expires])
  /\ Quiet

ReserveConflict(d, want, req) ==
  /\ d \in open
  /\ Repeats(req)
  /\ Pruned[req].amount # want
  /\ OnlyPrune

ReserveRefused(d, want, req) ==
  /\ d \in open
  /\ Refuses(want, req)
  /\ OnlyPrune

ReserveGranted(d, want, ttl, req) ==
  /\ d \in open
  /\ ~Repeats(req)
  /\ Enough(want) /\ HasRoom
  /\ req = None => ledger.nextId <= MaxId
  /\ LET id == IF req = None THEN ledger.nextId ELSE req
         r  == [amount |-> want, expires |-> now + ttl, confirmed |-> FALSE]
     IN  /\ ledger' = [total  |-> ledger.total,
                       nextId |-> IF req = None THEN id + 1 ELSE ledger.nextId,
                       res    |-> Put(Pruned, id, r)]
         /\ Tell(d, "holds", [id |-> id, amount |-> want, until |-> now + ttl])
  /\ Quiet

(* capacity_confirm of the handle the guest holds.                         *)
Misses(handle) == AsSigned(handle) \notin DOMAIN Pruned

Confirmed(d, handle) ==
  LET id == AsSigned(handle)
  IN  /\ d \in open
      /\ id \in DOMAIN Pruned
      /\ ledger' = [ledger EXCEPT
                      !.res = Put(Pruned, id, [Pruned[id] EXCEPT !.confirmed = TRUE])]
      /\ Tell(d, "sales", [id |-> id, amount |-> Pruned[id].amount])
      /\ Quiet

ConfirmMissed(d, handle) ==
  /\ d \in open
  /\ Misses(handle)
  /\ OnlyPrune

(* Mutant: a confirmed sale can be cancelled too.                          *)
CancelledAny(d, handle) ==
  LET id == AsSigned(handle)
  IN  /\ d \in open
      /\ id \in DOMAIN Pruned
      /\ ledger' = [ledger EXCEPT !.res = Drop(Pruned, id)]
      /\ UNCHANGED pledged
      /\ Quiet

(* capacity_cancel.                                                        *)
Cancelled(d, handle) ==
  LET id == AsSigned(handle)
  IN  /\ d \in open
      /\ id \in DOMAIN Pruned
      /\ ~Pruned[id].confirmed
      /\ ledger' = [ledger EXCEPT !.res = Drop(Pruned, id)]
      /\ UNCHANGED pledged
      /\ Quiet

CancelMissed(d, handle) ==
  /\ d \in open
  /\ LET id == AsSigned(handle)
     IN  id \in DOMAIN Pruned => Pruned[id].confirmed
  /\ OnlyPrune

(* capacity_set_total, from a job: it does not prune and does not look at  *)
(* what is reserved.                                                       *)
SetTotal(d, t) ==
  /\ d \in open
  /\ ledger' = [ledger EXCEPT !.total = IF t < 0 THEN 0 ELSE t]
  /\ peak' = IF t > peak THEN t ELSE peak
  /\ UNCHANGED <<disk, now, open, pledged, acked>>

-----------------------------------------------------------------------------
(* Mutant: the id counter is not part of the snapshot.                     *)
PersistNoCounter == disk' = [ledger EXCEPT !.nextId = disk.nextId]

(* persist: the whole store, by a temporary file and a rename; a failure   *)
(* is swallowed.                                                           *)
Persist == disk' = ledger \/ (DiskMayFail /\ disk' = disk)

Close(d) ==
  /\ open' = open \ {d}
  /\ pledged' = [pledged EXCEPT ![d] = Nothing]

(* Mutant: the answer leaves before the store is written.                  *)
FinishUnsaved(d) ==
  /\ d \in open
  /\ acked' = [sales |-> acked.sales \cup pledged[d].sales,
               holds |-> acked.holds \cup pledged[d].holds]
  /\ Close(d)
  /\ UNCHANGED <<ledger, disk, now, peak>>

Finish(d) ==
  /\ d \in open
  /\ Persist
  /\ acked' = [sales |-> acked.sales \cup pledged[d].sales,
               holds |-> acked.holds \cup pledged[d].holds]
  /\ Close(d)
  /\ UNCHANGED <<ledger, now, peak>>

Trap(d) ==
  /\ d \in open
  /\ Persist
  /\ Close(d)
  /\ UNCHANGED <<ledger, now, acked, peak>>

(* The process dies and a new one loads the snapshot.                      *)
Crash ==
  /\ ledger' = disk
  /\ open' = {}
  /\ pledged' = [d \in Dispatches |-> Nothing]
  /\ UNCHANGED <<disk, now, acked, peak>>

Tick ==
  /\ now < MaxNow
  /\ now' = now + 1
  /\ UNCHANGED <<ledger, disk, open, pledged, acked, peak>>

Import(d) ==
  \/ Available(d)
  \/ \E want \in Amounts, req \in KeyedIds \cup {None} :
        \/ ReserveRepeated(d, want, req)
        \/ ReserveConflict(d, want, req)
        \/ ReserveRefused(d, want, req)
        \/ \E ttl \in Ttls : ReserveGranted(d, want, ttl, req)
  \/ \E handle \in 1..MaxId \cup KeyedIds :
        \/ Confirmed(d, handle)
        \/ ConfirmMissed(d, handle)
        \/ Cancelled(d, handle)
        \/ CancelMissed(d, handle)
  \/ \E t \in Totals : SetTotal(d, t)

Next ==
  \/ \E d \in Dispatches : Begin(d) \/ Import(d) \/ Finish(d) \/ Trap(d)
  \/ Crash
  \/ Tick

Spec == Init /\ [][Next]_vars

-----------------------------------------------------------------------------
(* Properties                                                              *)

Table(res) ==
  /\ IsFiniteSet(DOMAIN res) /\ DOMAIN res \subseteq Ids
  /\ \A i \in DOMAIN res : res[i] \in Reservation

LedgerOK(l) ==
  /\ l = [total |-> l.total, nextId |-> l.nextId, res |-> l.res]
  /\ l.total \in Nat /\ l.nextId \in Nat \ {0}
  /\ Table(l.res)

(* The shape of every variable: ledgers map finitely many ids to           *)
(* reservations, histories hold handles.                                   *)
TypeOK ==
  /\ LedgerOK(ledger) /\ LedgerOK(disk)
  /\ now \in Nat
  /\ open \subseteq Dispatches
  /\ pledged \in [Dispatches -> [sales : SUBSET Handle, holds : SUBSET Hold]]
  /\ acked \in [sales : SUBSET Handle, holds : SUBSET Hold]
  /\ peak \in Nat

(* No oversell: whatever interleaving, expiry, restock, crash or disk      *)
(* failure, the units held and sold never exceed the highest ceiling ever  *)
(* set (capacity_reserve checks and holds in one step).                    *)
NoOversell == Reserved(ledger.res) <= peak /\ Reserved(disk.res) <= peak

(* An acknowledged sale is permanent: once a dispatch that confirmed a     *)
(* reservation has answered, the reservation is confirmed, with the same   *)
(* amount, in memory and on disk, through expiry, cancellation, a lower    *)
(* ceiling, other dispatches, traps and crashes.                           *)
SaleIn(s, res) ==
  s.id \in DOMAIN res /\ res[s.id].confirmed /\ res[s.id].amount = s.amount

AckedSalePermanent ==
  \A s \in acked.sales : SaleIn(s, ledger.res) /\ SaleIn(s, disk.res)

(* A fresh id a client was given never comes to name another reservation:  *)
(* nextId reaches the disk before the answer leaves, so a restart cannot   *)
(* hand the id out again.                                                  *)
StillNames(h, l) ==
  h.id < Half =>
    /\ h.id < l.nextId
    /\ h.id \in DOMAIN l.res => l.res[h.id].amount = h.amount

HandleNotReused == \A h \in acked.holds : StillNames(h, ledger)

(* A hold a guest was granted is there to be confirmed for as long as it   *)
(* was granted: as long as its dispatch is open, and for good once the     *)
(* dispatch answered, no import of another dispatch, expiry of other       *)
(* holds, lower ceiling, trap or crash takes it away or shortens it.  Only *)
(* a cancel of that hold does.  A reserve repeated under its key is        *)
(* granted the time of the first one.                                      *)
Granted == acked.holds \cup UNION {pledged[d].holds : d \in open}

Stands(h, res) ==
  /\ h.id \in DOMAIN res
  /\ res[h.id].amount = h.amount
  /\ res[h.id].confirmed \/ res[h.id].expires >= h.until

HoldsStand ==
  [][\A h \in Granted \cap Granted' :
       Stands(h, ledger.res) /\ h.until > now' =>
         Stands(h, ledger'.res) \/ \E d \in Dispatches : Cancelled(d, h.id)]_vars

(* The ledger implements the box office: the sales are those acknowledged, *)
(* the ceiling the highest one set.                                        *)
Box == INSTANCE BoxOffice WITH ceiling <- peak, sold <- acked.sales
ImplementsBoxOffice == Box!BoxSpec

-----------------------------------------------------------------------------
(* A claim of the documentation that the code does not keep.               *)

(* docs/database/capacity.md:164 "ok === false -> the id was unknown (never    *)
(* reserved, or already expired)": confirm misses the id of a live keyed   *)
(* hold, whose top bit makes the argument negative.                        *)
Live == {i \in DOMAIN ledger.res : ledger.res[i].confirmed \/ ledger.res[i].expires > now}

MissMeansUnknown == \A handle \in KeyedIds : Misses(handle) => handle \notin Live
=============================================================================
