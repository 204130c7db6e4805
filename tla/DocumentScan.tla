---------------------------- MODULE DocumentScan ----------------------------
(***************************************************************************)
(* Reading a collection of the development database in pages while it      *)
(* changes between the pages.  Three imports hand out pages and cursors:   *)
(*                                                                         *)
(*   documents_scan   rows in the order of their hash, by bucket, at most  *)
(*                    eight probes a page (db/document-scan.ts)            *)
(*   membership_page  members in the order of their bytes (database.ts)    *)
(*   events_entries   positions of a log, erased ones skipped              *)
(*                                                                         *)
(* Items are numbered in the order of their keys.  A walk reads one        *)
(* collection from its start and follows the cursors; other requests add   *)
(* and remove items in between, a log only at its end.  The bytes of a     *)
(* cursor and their validation are left out: it is a record here.          *)
(***************************************************************************)
EXTENDS Integers, Sequences, FiniteSets

CONSTANTS
  Items,        (* items that may come to be, 1..n in key order          *)
  HashOf,       (* the hash of an item, its bucket in the upper part     *)
  PerBucket,    (* hashes of a bucket                                    *)
  Buckets,      (* 256 in the code                                       *)
  Probes,       (* probes of a page, 8 in the code                       *)
  Weight,       (* the size of an item in a page                         *)
  Room,         (* the size of a page, dbBudgetSnapshot's maxResultBytes *)
  Limit,        (* items a page may have                                 *)
  MaxChanges    (* bound: changes of the collection                      *)

ASSUME ScanAssumption ==
  /\ Items = 1..Cardinality(Items)
  /\ HashOf \in [Items -> 0..(Buckets * PerBucket - 1)]
  /\ PerBucket \in Nat \ {0} /\ Buckets \in Nat \ {0} /\ Probes \in Nat \ {0}
  /\ Weight \in [Items -> Nat] /\ Room \in Nat
  /\ Limit \in Nat \ {0} /\ MaxChanges \in Nat

VARIABLES
  family,   (* what is read: "documents", "members" or "events"          *)
  present,  (* the items that are there                                  *)
  length,   (* the positions of the log so far                           *)
  cursor,   (* where the walk is                                         *)
  changes,  (* changes of the collection so far                          *)
  seen,     (* history: the items the walk was given, in order           *)
  stable    (* history: items that were there since the walk began       *)

scanVars == <<family, present, length, cursor, changes, seen, stable>>

None == -1
Walking == cursor.state = "walking"

(* The first of a set of numbers, or None.                                 *)
First(S) == IF S = {} THEN None ELSE CHOOSE x \in S : \A y \in S : x <= y

(* The first k of a set of numbers.                                        *)
FirstOf(S, k) == {x \in S : Cardinality({y \in S : y < x}) < k}

Ordered(S) ==
  CHOOSE s \in [1..Cardinality(S) -> S] : \A i, j \in DOMAIN s : i < j => s[i] < s[j]

-----------------------------------------------------------------------------
(* documents_scan.  A probe looks for the next hash of the bucket, or for  *)
(* the next key under the hash it is at.                                   *)
Position == [bucket : 0..Buckets, hash : Int, afterHash : Int, afterKey : Int]
Origin   == [bucket |-> 0, hash |-> None, afterHash |-> None, afterKey |-> None]

HashesIn(b, after) ==
  {HashOf[i] : i \in {j \in present : HashOf[j] \div PerBucket = b /\ HashOf[j] > after}}
KeysUnder(h, after) == {i \in present : HashOf[i] = h /\ i > after}

SeekHash(p) ==
  LET h == First(HashesIn(p.bucket, p.afterHash)) IN
  IF h = None THEN [Origin EXCEPT !.bucket = p.bucket + 1]
  ELSE [p EXCEPT !.hash = h, !.afterHash = None, !.afterKey = None]

(* Mutant: the next hash of the bucket is sought from its first again.     *)
LeaveHashForgets(p) == [p EXCEPT !.hash = None, !.afterHash = None, !.afterKey = None]

LeaveHash(p) == [p EXCEPT !.afterHash = p.hash, !.hash = None, !.afterKey = None]

Size(items) == Cardinality(UNION { {i} \X (1..Weight[i]) : i \in items })

(* The state of the loop: position, entries of the page, whether it ended. *)
ProbeBucket(s) ==
  LET p == s.at
      k == First(KeysUnder(p.hash, p.afterKey))
  IN
  IF s.stop # "no" \/ p.bucket >= Buckets \/ Cardinality(s.entries) >= Limit THEN s
  ELSE IF p.hash = None THEN [s EXCEPT !.at = SeekHash(p)]
  ELSE IF k = None THEN [s EXCEPT !.at = LeaveHash(p)]
  ELSE IF Size(s.entries \cup {k}) > Room
       THEN [s EXCEPT !.stop = IF s.entries = {} THEN "trap" ELSE "full"]
  ELSE [s EXCEPT !.at.afterKey = k, !.entries = @ \cup {k}, !.order = Append(@, k)]

PageFrom(p) ==
  LET loop[n \in 0..Probes] ==
        IF n = 0 THEN [at |-> p, entries |-> {}, order |-> <<>>, stop |-> "no"]
        ELSE ProbeBucket(loop[n - 1])
  IN loop[Probes]

ScanPage ==
  LET page == PageFrom(cursor.at) IN
  /\ family = "documents" /\ Walking
  /\ cursor' = IF page.stop = "trap" THEN [cursor EXCEPT !.state = "trapped"]
               ELSE [state |-> IF page.at.bucket < Buckets THEN "walking" ELSE "done",
                     at |-> page.at]
  /\ seen' = IF page.stop = "trap" THEN seen ELSE seen \o page.order
  /\ UNCHANGED <<family, present, length, changes, stable>>

-----------------------------------------------------------------------------
(* membership_page: the cursor is the last member given.  A page that is   *)
(* full has a next one, even when nothing is left.                         *)
After(p) == {i \in present : i > p.afterKey}

MemberPage ==
  LET page == FirstOf(After(cursor.at), Limit) IN
  /\ family = "members" /\ Walking
  /\ seen' = seen \o Ordered(page)
  /\ cursor' = IF Cardinality(page) = Limit
               THEN [cursor EXCEPT !.at.afterKey = Ordered(page)[Limit]]
               ELSE [cursor EXCEPT !.state = "done"]
  /\ UNCHANGED <<family, present, length, changes, stable>>

(* events_entries: the cursor counts positions, erased ones included; it   *)
(* stops at the end of the log or behind the last entry of a full page.    *)
LogPage ==
  LET page == FirstOf(After(cursor.at), Limit) IN
  /\ family = "events" /\ Walking
  /\ seen' = seen \o Ordered(page)
  /\ cursor' = IF Cardinality(page) = Limit
               THEN [cursor EXCEPT !.at.afterKey = Ordered(page)[Limit]]
               ELSE [cursor EXCEPT !.state = "done", !.at.afterKey = length]
  /\ UNCHANGED <<family, present, length, changes, stable>>

-----------------------------------------------------------------------------
ScanInit ==
  /\ family \in {"documents", "members", "events"}
  /\ present \in SUBSET Items
  /\ length = IF family = "events" THEN First({n \in 0..Cardinality(Items) : present \subseteq 1..n}) ELSE 0
  /\ cursor = [state |-> "walking", at |-> Origin]
  /\ changes = 0
  /\ seen = <<>> /\ stable = present

MayChange == Walking /\ changes < MaxChanges /\ changes' = changes + 1

(* create, upsert, membership_add; append puts an event at the end.        *)
Insert(i) ==
  /\ MayChange
  /\ i \notin present
  /\ family = "events" => i = length + 1
  /\ length' = IF family = "events" THEN i ELSE length
  /\ present' = present \cup {i}
  /\ UNCHANGED <<family, cursor, seen, stable>>

(* delete, membership_remove; an event is erased at its position.          *)
RemoveItem(i) ==
  /\ MayChange
  /\ i \in present
  /\ present' = present \ {i}
  /\ stable' = stable \ {i}
  /\ UNCHANGED <<family, length, cursor, seen>>

NextPage == ScanPage \/ MemberPage \/ LogPage

ScanNext == NextPage \/ \E i \in Items : Insert(i) \/ RemoveItem(i)

ScanSpec == ScanInit /\ [][ScanNext]_scanVars
-----------------------------------------------------------------------------
ScanTypeOK ==
  /\ family \in {"documents", "members", "events"}
  /\ present \subseteq Items /\ length \in 0..Cardinality(Items)
  /\ cursor.state \in {"walking", "done", "trapped"} /\ cursor.at \in Position
  /\ changes \in 0..MaxChanges
  /\ seen \in Seq(Items) /\ stable \subseteq present

(* A walk that follows the cursors to the end is given every item that was *)
(* there all the time, and none twice, whatever was added and removed      *)
(* between its pages: also when pages end between two keys of one hash,    *)
(* run out of probes, or end because an item does not fit.                 *)
WalkExact ==
  /\ \A i, j \in DOMAIN seen : i # j => seen[i] # seen[j]
  /\ cursor.state = "done" => \A i \in stable : \E k \in DOMAIN seen : seen[k] = i
=============================================================================
