--------------------------- MODULE AccountProofs ---------------------------
(***************************************************************************)
(* Proofs about sessions and sign-in.  SessionEpochs, for any requests and *)
(* limits: a session of a generation that ended is not accepted again, and *)
(* no acknowledged factor change is lost or answered twice.  SignIn, for   *)
(* any requests, steps of the authenticator, incarnations and attempts:    *)
(* what a session, a code, a link and a factor are worth.                  *)
(***************************************************************************)
EXTENDS SessionEpochs, SignIn, FiniteSetTheorems, WellFoundedInduction, TLAPS

-----------------------------------------------------------------------------
(* The session generations of one identity                                 *)

(* A generation that was reached, and one whose record an erasure of an    *)
(* account's history may have taken out: a deletion fenced it.             *)
Reached(c, n)  == n = 0 \/ \E j \in Revisions : n <= j /\ c[j] # Zero
Covered(c, n)  == \E k \in Revisions : c[k].deleting /\ n <= c[k].generation
DeletedTo(c, low, k) == \A j \in Revisions : low < j /\ j <= k => c[j].deleting

(* Every record is under its own number; a hole in the history is one a    *)
(* deletion fenced; and from its fence on, a deleted account has only      *)
(* records without a factor policy.                                        *)
NumbersHold(c) == \A k \in Revisions : c[k] # Zero => c[k].revision = k

HolesFenced(c) ==
  \A k, j \in Revisions : c[k] = Zero /\ c[j] # Zero /\ k < j => Covered(c, k)

DeletionsHold(c) ==
  \A k \in Revisions : c[k].deleting => c[k].name = 0 /\ DeletedTo(c, c[k].generation, k)

ClaimsOK(c) ==
  c \in [Revisions -> Epochs] /\ NumbersHold(c) /\ HolesFenced(c) /\ DeletionsHold(c)

(* What no step takes back: the record of a deletion is there for good.    *)
Grows(c, d) ==
  /\ \A n \in Nat : (Reached(c, n) => Reached(d, n)) /\ (Covered(c, n) => Covered(d, n))
  /\ \A k \in Revisions : c[k].deleting => d[k] = c[k]

(* A record that was read: its generation was reached, and if it is one of *)
(* a deletion it is still there.                                           *)
Sound(c, e) ==
  /\ Reached(c, e.revision)
  /\ e.deleting => e.revision \in Revisions /\ c[e.revision] = e

Places == {"idle", "head", "probe", "repair", "recover", "read", "accepted", "publish", "swap",
           "erase", "release", "fill", "remove", "enrol", "enable"}
Purposes == {"none", "verify", "mint", "revoke", "change", "activate", "fence"}

Request ==
  [kind : Kinds \cup {"none"}, at : Places, then : Purposes, gen : Nat, floor : Nat, born : Nat,
   seen : Epochs, epoch : Epochs, looked : Nat, tries : Nat, verified : Epochs,
   inc : {0} \cup Incarnations, cursor : Nat, mark : Nat]

(* A scan goes on from the head it read; one that ended short of the floor *)
(* of its request was overtaken by an erasure, and so is what it accepted. *)
ScanHolds(c, q) ==
  /\ q.at \in {"probe", "repair", "recover", "read"} => q.seen.revision <= q.epoch.revision
  /\ q.at \in {"repair", "read"} /\ q.then = "verify" =>
       q.floor <= q.epoch.revision \/ Covered(c, q.seen.revision)
  /\ q.at = "accepted" /\ ~q.verified.deleting => q.floor <= q.gen \/ Covered(c, q.seen.revision)

(* An erasure stays below the record of the deletion it belongs to.        *)
EraseHolds(q) ==
  /\ q.then = "fence" => 1 <= q.mark
  /\ q.at \in {"publish", "swap"} /\ q.then = "fence" => q.epoch.deleting
  /\ q.at \in {"erase", "release", "fill"} => q.epoch.deleting /\ 1 <= q.cursor
  /\ q.at \in {"release", "fill"} => q.cursor < q.epoch.revision
  /\ q.at = "release" => q.seen.name # 0

RequestHolds(c, q) ==
  /\ q \in Request /\ Sound(c, q.epoch) /\ Reached(c, q.floor)
  /\ ScanHolds(c, q) /\ EraseHolds(q)

HeadHolds(c, h) == h \in Epochs /\ Sound(c, h)

EpochShapes ==
  /\ row \in [inc : Incarnations, state : {"live", "deleting", "none", "registering"}]
  /\ markers \in [Incarnations -> [cursor : Nat, erased : BOOLEAN]]
  /\ sessions \subseteq Nat /\ begun \in 0..MaxRequests
  /\ granted \in [changes : Nat, late : BOOLEAN]

EpochInv ==
  /\ ClaimsOK(claims) /\ HeadHolds(claims, head) /\ EpochShapes
  /\ req \in [Requests -> Request] /\ \A r \in Requests : RequestHolds(claims, req[r])

(* A set of numbers that is bounded has a largest.                         *)
LEMMA LargestNumber ==
  ASSUME NEW n \in Nat, NEW T, T \subseteq 1..n, T # {}
  PROVE  \E m \in T : \A k \in T : k <= m
<1> DEFINE Above == {(k + 1)..n : k \in T}
<1>1. Above \subseteq FiniteSubsetsOf(Nat) /\ Above # {}
  <2>1. \A k \in T : (k + 1)..n \in SUBSET Nat /\ IsFiniteSet((k + 1)..n)
    BY FS_Interval
  <2>2. QED
    BY <2>1 DEF FiniteSubsetsOf
<1>2. PICK b \in Above : \A c \in Above : <<c, b>> \notin StrictSubsetOrdering(Nat)
  BY <1>1, FS_StrictSubsetOrderingWellFounded, WFMin
<1>3. PICK m \in T : b = (m + 1)..n
  OBVIOUS
<1>4. ASSUME NEW k \in T, m < k PROVE FALSE
  <2>1. /\ (k + 1)..n \in Above /\ (k + 1)..n \subseteq (m + 1)..n
        /\ k \in (m + 1)..n /\ k \notin (k + 1)..n
        /\ (m + 1)..n \in SUBSET Nat /\ (k + 1)..n \in SUBSET Nat
    BY <1>4
  <2>2. QED
    BY <1>2, <1>3, <2>1 DEF StrictSubsetOrdering
<1>5. \A k \in T : k <= m
  BY <1>4
<1>6. QED
  BY <1>5

LEMMA Numbers == MaxRequests \in Nat /\ Revisions \subseteq Nat \ {0}
BY EpochAssumption DEF EpochAssumption, Revisions

LEMMA ZeroFacts ==
  /\ Zero \in Epochs /\ Zero.revision = 0 /\ Zero.name = 0 /\ ~Zero.deleting
  /\ Zero.generation = 0 /\ Zero.fence = 0
  /\ \A c : Sound(c, Zero)
BY DEF Zero, Epochs, Sound, Reached

LEMMA GrowsSame == ASSUME NEW c PROVE Grows(c, c)
BY DEF Grows

(* A free generation is claimed by a record of its own number.             *)
LEMMA ClaimKeeps ==
  ASSUME NEW c, ClaimsOK(c), NEW e \in Epochs, e.revision \in Revisions, c[e.revision] = Zero,
         Reached(c, e.revision - 1),
         e.deleting => e.name = 0 /\ DeletedTo(c, e.generation, e.revision - 1),
         NEW d, d = [c EXCEPT ![e.revision] = e]
  PROVE  ClaimsOK(d) /\ Grows(c, d) /\ d[e.revision] = e
<1>1. PICK n \in Revisions : n = e.revision
  OBVIOUS
<1>2. /\ c \in [Revisions -> Epochs] /\ NumbersHold(c) /\ HolesFenced(c) /\ DeletionsHold(c)
  BY DEF ClaimsOK
<1>3. d \in [Revisions -> Epochs] /\ d[n] = e /\ \A k \in Revisions \ {n} : d[k] = c[k]
  BY <1>1, <1>2
<1>4. n \in Nat \ {0} /\ Revisions \subseteq Nat \ {0} /\ c[n] = Zero /\ Zero.revision = 0 /\ ~Zero.deleting
  BY <1>1, Numbers, ZeroFacts
<1>5. e # Zero
  BY <1>1, <1>4
<1>6. Grows(c, d)
  <2>1. \A k \in Revisions : c[k].deleting => d[k] = c[k]
    BY <1>3, <1>4
  <2>2. ASSUME NEW m \in Nat, Reached(c, m) PROVE Reached(d, m)
    BY <1>3, <1>4, <1>5, <2>2 DEF Reached
  <2>3. ASSUME NEW m \in Nat, Covered(c, m) PROVE Covered(d, m)
    BY <2>1, <2>3 DEF Covered
  <2>4. QED
    BY <2>1, <2>2, <2>3 DEF Grows
<1>7. NumbersHold(d)
  BY <1>1, <1>2, <1>3 DEF NumbersHold
<1>8. HolesFenced(d)
  <2>1. SUFFICES ASSUME NEW k \in Revisions, NEW j \in Revisions, d[k] = Zero, d[j] # Zero, k < j
                 PROVE  Covered(d, k)
    BY DEF HolesFenced
  <2>2. k # n /\ c[k] = Zero
    BY <1>3, <1>5, <2>1
  <2>3. \E i \in Revisions : k < i /\ c[i] # Zero
    <3>1. CASE j # n
      BY <1>3, <2>1, <3>1
    <3>2. CASE j = n
      <4>1. Reached(c, n - 1) /\ n - 1 # 0 /\ k <= n - 1 /\ n - 1 \in Nat /\ k \in Nat
        BY <1>1, <1>4, <2>1, <3>2
      <4>2. PICK i \in Revisions : n - 1 <= i /\ c[i] # Zero
        BY <4>1 DEF Reached
      <4>3. k <= i /\ k # i /\ i \in Nat
        BY <1>4, <2>2, <4>1, <4>2
      <4>4. QED
        BY <4>1, <4>2, <4>3
    <3>3. QED
      BY <3>1, <3>2
  <2>4. Covered(c, k) /\ k \in Nat
    BY <1>2, <1>4, <2>2, <2>3 DEF HolesFenced
  <2>5. QED
    BY <1>6, <2>4 DEF Grows
<1>9. DeletionsHold(d)
  <2>1. SUFFICES ASSUME NEW k \in Revisions, d[k].deleting
                 PROVE  d[k].name = 0 /\ DeletedTo(d, d[k].generation, k)
    BY DEF DeletionsHold
  <2>2. \A j \in Revisions : c[j].deleting => d[j].deleting
    BY <1>6 DEF Grows
  <2>3. CASE k = n
    <3>1. e.name = 0 /\ DeletedTo(c, e.generation, n - 1) /\ d[n].deleting
      BY <1>1, <1>3, <2>1, <2>3
    <3>2. \A j \in Revisions : j <= n => j <= n - 1 \/ j = n
      BY <1>4
    <3>3. QED
      BY <1>3, <2>2, <2>3, <3>1, <3>2 DEF DeletedTo
  <2>4. CASE k # n
    <3>1. c[k].name = 0 /\ DeletedTo(c, c[k].generation, k) /\ d[k] = c[k]
      BY <1>2, <1>3, <2>1, <2>4 DEF DeletionsHold
    <3>2. QED
      BY <2>2, <3>1 DEF DeletedTo
  <2>5. QED
    BY <2>3, <2>4
<1>10. QED
  BY <1>1, <1>3, <1>6, <1>7, <1>8, <1>9 DEF ClaimsOK

(* An erasure takes out a record with a factor policy, under its fence.    *)
LEMMA ReleaseKeeps ==
  ASSUME NEW c, ClaimsOK(c), NEW e \in Epochs, e.deleting, e.revision \in Revisions, c[e.revision] = e,
         NEW k \in Revisions, k < e.revision, c[k] = Zero \/ c[k].name # 0,
         NEW d, d = [c EXCEPT ![k] = Zero]
  PROVE  ClaimsOK(d) /\ Grows(c, d)
<1>1. PICK n \in Revisions : n = e.revision /\ c[n] = e
  OBVIOUS
<1>2. /\ c \in [Revisions -> Epochs] /\ NumbersHold(c) /\ HolesFenced(c) /\ DeletionsHold(c)
  BY DEF ClaimsOK
<1>3. d \in [Revisions -> Epochs] /\ d[k] = Zero /\ \A j \in Revisions \ {k} : d[j] = c[j]
  BY <1>2, ZeroFacts
<1>4. Revisions \subseteq Nat \ {0} /\ ~Zero.deleting /\ Zero.revision = 0 /\ n # k /\ k < n
  BY <1>1, Numbers, ZeroFacts
<1>5. ~c[k].deleting
  BY <1>2, <1>4 DEF DeletionsHold
<1>6. \A j \in Revisions : c[j].deleting => d[j] = c[j]
  BY <1>3, <1>5
<1>7. e # Zero /\ d[n] = e
  BY <1>1, <1>3, <1>4
<1>8. \A m : Covered(c, m) => Covered(d, m)
  BY <1>6 DEF Covered
<1>9. Grows(c, d)
  <2>1. ASSUME NEW m \in Nat, Reached(c, m) PROVE Reached(d, m)
    <3>1. CASE m = 0
      BY <3>1 DEF Reached
    <3>2. ASSUME NEW j \in Revisions, m <= j, c[j] # Zero, j # k PROVE Reached(d, m)
      BY <1>3, <3>2 DEF Reached
    <3>3. ASSUME m <= k PROVE Reached(d, m)
      <4>1. m <= n
        BY <1>4, <3>3
      <4>2. QED
        BY <1>7, <4>1 DEF Reached
    <3>4. QED
      BY <2>1, <3>1, <3>2, <3>3 DEF Reached
  <2>2. QED
    BY <1>6, <1>8, <2>1 DEF Grows
<1>10. Covered(c, k)
  <2>1. CASE c[k] = Zero
    BY <1>1, <1>2, <1>4, <1>7, <2>1 DEF HolesFenced
  <2>2. CASE c[k].name # 0
    <3>1. DeletedTo(c, e.generation, n) /\ e.generation \in Nat
      BY <1>1, <1>2 DEF DeletionsHold, Epochs
    <3>2. ~(e.generation < k)
      BY <1>4, <1>5, <3>1 DEF DeletedTo
    <3>3. k <= e.generation
      BY <1>4, <3>1, <3>2
    <3>4. QED
      BY <1>1, <3>3 DEF Covered
  <2>3. QED
    BY <2>1, <2>2
<1>11. NumbersHold(d)
  BY <1>2, <1>3 DEF NumbersHold
<1>12. HolesFenced(d)
  BY <1>2, <1>3, <1>8, <1>10 DEF HolesFenced
<1>13. DeletionsHold(d)
  <2>1. SUFFICES ASSUME NEW j \in Revisions, d[j].deleting
                 PROVE  d[j].name = 0 /\ DeletedTo(d, d[j].generation, j)
    BY DEF DeletionsHold
  <2>2. j # k /\ d[j] = c[j]
    BY <1>3, <1>4, <2>1
  <2>3. c[j].name = 0 /\ DeletedTo(c, c[j].generation, j)
    BY <1>2, <2>1, <2>2 DEF DeletionsHold
  <2>4. QED
    BY <1>6, <2>2, <2>3 DEF DeletedTo
<1>14. QED
  BY <1>3, <1>9, <1>11, <1>12, <1>13 DEF ClaimsOK

(* What was true of a request and of the head stays true as the history    *)
(* grows.                                                                  *)
LEMMA SoundKept ==
  ASSUME NEW c, NEW d, Grows(c, d), NEW e \in Epochs, Sound(c, e)
  PROVE  Sound(d, e)
BY DEF Grows, Sound, Epochs

LEMMA RequestKept ==
  ASSUME NEW c, NEW d, Grows(c, d), NEW q, RequestHolds(c, q)
  PROVE  RequestHolds(d, q)
<1>1. q \in Request /\ Sound(c, q.epoch) /\ Reached(c, q.floor) /\ ScanHolds(c, q) /\ EraseHolds(q)
  BY DEF RequestHolds
<1>2. q.epoch \in Epochs /\ q.floor \in Nat /\ q.seen.revision \in Nat
  BY <1>1 DEF Request, Epochs
<1>3. Sound(d, q.epoch)
  BY <1>1, <1>2, SoundKept
<1>4. Reached(d, q.floor) /\ (Covered(c, q.seen.revision) => Covered(d, q.seen.revision))
  BY <1>1, <1>2 DEF Grows
<1>5. ScanHolds(d, q)
  BY <1>1, <1>4 DEF ScanHolds
<1>6. QED
  BY <1>1, <1>3, <1>4, <1>5 DEF RequestHolds

(* A step of one request keeps the invariant if it keeps what concerns the *)
(* history, the head and the request itself.                               *)
LEMMA OneMoves ==
  ASSUME EpochInv, NEW r \in Requests, NEW q, Set(r, q), RequestHolds(claims', q),
         ClaimsOK(claims'), Grows(claims, claims'), HeadHolds(claims', head'), EpochShapes'
  PROVE  EpochInv'
<1>1. req \in [Requests -> Request] /\ \A s \in Requests : RequestHolds(claims, req[s])
  BY DEF EpochInv
<1>2. q \in Request
  BY DEF RequestHolds
<1>3. req' \in [Requests -> Request] /\ req'[r] = q /\ \A s \in Requests \ {r} : req'[s] = req[s]
  BY <1>1, <1>2 DEF Set
<1>4. ASSUME NEW s \in Requests PROVE RequestHolds(claims', req'[s])
  BY <1>1, <1>3, RequestKept
<1>5. QED
  BY <1>3, <1>4 DEF EpochInv

(* Most steps leave the history alone.                                     *)
LEMMA QuietMoves ==
  ASSUME EpochInv, NEW r \in Requests, NEW q, Set(r, q), RequestHolds(claims, q),
         claims' = claims, HeadHolds(claims, head'), EpochShapes'
  PROVE  EpochInv'
<1>1. ClaimsOK(claims') /\ Grows(claims, claims') /\ RequestHolds(claims', q) /\ HeadHolds(claims', head')
  BY GrowsSame DEF EpochInv
<1>2. QED
  BY <1>1, OneMoves

LEMMA RestHolds == ASSUME NEW c PROVE RequestHolds(c, Idle)
<1>1. Zero \in Epochs /\ Sound(c, Zero) /\ Reached(c, 0)
  BY ZeroFacts DEF Reached
<1>2. Idle \in Request /\ Idle.epoch = Zero /\ Idle.floor = 0 /\ Idle.at = "idle" /\ Idle.then = "none"
  BY <1>1 DEF Idle, Request, Places, Purposes
<1>3. ScanHolds(c, Idle) /\ EraseHolds(Idle)
  BY <1>2 DEF ScanHolds, EraseHolds
<1>4. QED
  BY <1>1, <1>2, <1>3 DEF RequestHolds

(* A request begins to read.                                               *)
LEMMA ReadHolds ==
  ASSUME NEW c, NEW q \in Request, Reached(c, q.floor), NEW p \in Purposes, p = "fence" => 1 <= q.mark
  PROVE  RequestHolds(c, Read(q, p))
<1>1. Zero \in Epochs /\ Sound(c, Zero)
  BY ZeroFacts
<1>2. PICK n : n = Read(q, p)
  OBVIOUS
<1>3. /\ n \in Request /\ n.at = "head" /\ n.then = p /\ n.epoch = Zero /\ n.floor = q.floor
      /\ n.mark = q.mark
  BY <1>1, <1>2 DEF Read, Request, Places
<1>4. ScanHolds(c, n) /\ EraseHolds(n)
  BY <1>3 DEF ScanHolds, EraseHolds
<1>5. QED
  BY <1>1, <1>2, <1>3, <1>4 DEF RequestHolds

LEMMA FinishKeeps ==
  ASSUME EpochInv, NEW r \in Requests, Finish(r), claims' = claims, HeadHolds(claims, head'), EpochShapes'
  PROVE  EpochInv'
<1>1. Set(r, Idle)
  BY DEF Finish
<1>2. QED
  BY <1>1, RestHolds, QuietMoves

LEMMA ShapesSame ==
  ASSUME EpochShapes, UNCHANGED <<row, markers, sessions, begun, granted>>
  PROVE  EpochShapes'
BY DEF EpochShapes

LEMMA ShapesNoted ==
  ASSUME EpochShapes, UNCHANGED <<row, markers, sessions, begun>>,
         NEW n \in Nat, NEW b \in BOOLEAN, granted' = [changes |-> n, late |-> b]
  PROVE  EpochShapes'
BY DEF EpochShapes

LEMMA LateNoted ==
  ASSUME EpochShapes, UNCHANGED <<row, markers, sessions, begun>>, NEW e, Noted(e)
  PROVE  EpochShapes'
<1>1. PICK n \in Nat, b \in BOOLEAN : granted = [changes |-> n, late |-> b]
  BY DEF EpochShapes
<1>2. PICK l \in BOOLEAN : l = (b \/ TooLate(e))
  OBVIOUS
<1>3. granted' = [changes |-> n, late |-> l]
  BY <1>1, <1>2 DEF Noted
<1>4. QED
  BY <1>3, ShapesNoted

(* The first state.                                                        *)
LEMMA EpochStart == EpochInit => EpochInv
<1> SUFFICES ASSUME EpochInit PROVE EpochInv
  OBVIOUS
<1>1. /\ claims = [k \in Revisions |-> Zero] /\ head = Zero /\ row = [inc |-> 1, state |-> "live"]
      /\ markers = [i \in Incarnations |-> [cursor |-> 0, erased |-> FALSE]] /\ sessions = {0}
      /\ req = [r \in Requests |-> Idle] /\ begun = 0 /\ granted = [changes |-> 0, late |-> FALSE]
  BY DEF EpochInit
<1>2. \A k \in Revisions : claims[k] = Zero
  BY <1>1
<1>3. ClaimsOK(claims)
  <2>1. claims \in [Revisions -> Epochs]
    BY <1>1, ZeroFacts
  <2>2. NumbersHold(claims) /\ HolesFenced(claims) /\ DeletionsHold(claims)
    BY <1>2, ZeroFacts DEF NumbersHold, HolesFenced, DeletionsHold
  <2>3. QED
    BY <2>1, <2>2 DEF ClaimsOK
<1>4. HeadHolds(claims, head)
  BY <1>1, ZeroFacts DEF HeadHolds
<1>5. EpochShapes
  BY <1>1, Numbers DEF EpochShapes, Incarnations
<1>6. req \in [Requests -> Request] /\ \A r \in Requests : RequestHolds(claims, req[r])
  BY <1>1, RestHolds DEF RequestHolds
<1>7. QED
  BY <1>3, <1>4, <1>5, <1>6 DEF EpochInv

LEMMA TopReached == ASSUME ClaimsOK(claims) PROVE Top.revision \in Nat /\ Reached(claims, Top.revision)
<1> DEFINE used == {k \in Revisions : ~Free(k)}
<1>1. used \subseteq 1..(3 * MaxRequests + 1) /\ 3 * MaxRequests + 1 \in Nat
  BY Numbers DEF Revisions
<1>2. CASE used = {}
  <2>1. Top = Zero
    BY <1>2 DEF Top
  <2>2. QED
    BY <2>1, ZeroFacts DEF Reached
<1>3. CASE used # {}
  <2>1. \E m \in used : \A j \in used : j <= m
    BY <1>1, <1>3, LargestNumber
  <2>2. PICK k \in used : k = CHOOSE m \in used : \A j \in used : j <= m
    BY <2>1
  <2>3. Top = claims[k]
    BY <1>3, <2>2 DEF Top
  <2>4. k \in Revisions /\ claims[k] # Zero /\ claims[k].revision = k
    BY DEF Free, ClaimsOK, NumbersHold
  <2>5. k \in Nat /\ k <= k
    BY <2>4, Numbers
  <2>6. QED
    BY <2>3, <2>4, <2>5 DEF Reached
<1>4. QED
  BY <1>2, <1>3

LEMMA DeletionMarked ==
  ASSUME EpochShapes, MarkDeleting, UNCHANGED <<sessions, granted>>, begun' \in 0..MaxRequests
  PROVE  EpochShapes'
<1>1. PICK i \in Incarnations : i = row.inc
  BY DEF EpochShapes
<1>2. row' \in [inc : Incarnations, state : {"live", "deleting", "none", "registering"}]
  BY DEF MarkDeleting, EpochShapes
<1>3. PICK m \in [cursor : Nat, erased : BOOLEAN] : m = markers[i]
  BY DEF EpochShapes
<1>4. markers' = [markers EXCEPT ![i] = [m EXCEPT !.cursor = IF @ = 0 THEN 1 ELSE @]]
  BY <1>1, <1>3 DEF MarkDeleting
<1>5. [m EXCEPT !.cursor = IF @ = 0 THEN 1 ELSE @] \in [cursor : Nat, erased : BOOLEAN]
  OBVIOUS
<1>6. markers' \in [Incarnations -> [cursor : Nat, erased : BOOLEAN]]
  BY <1>4, <1>5 DEF EpochShapes
<1>7. QED
  BY <1>2, <1>6 DEF EpochShapes

LEMMA CleanupHolds ==
  ASSUME EpochShapes, NEW q, q.kind \in Kinds \cup {"none"}, q.born \in Nat, NEW c
  PROVE  RequestHolds(c, Cleanup(q))
<1>1. PICK i \in Incarnations : i = row.inc
  BY DEF EpochShapes
<1>2. PICK n \in Nat : (n = IF markers[i].cursor = 0 THEN 1 ELSE markers[i].cursor) /\ 1 <= n
  <2>1. markers[i].cursor \in Nat
    BY DEF EpochShapes
  <2>2. QED
    BY <2>1
<1>3. PICK d : d = Deletes(q)
  OBVIOUS
<1>4. d = [Idle EXCEPT !.kind = q.kind, !.inc = i, !.born = q.born, !.mark = n]
  BY <1>1, <1>2, <1>3 DEF Deletes
<1>5. Zero \in Epochs
  BY ZeroFacts
<1>6. d \in Request /\ d.floor = 0 /\ 1 <= d.mark
  BY <1>2, <1>4, <1>5 DEF Idle, Request, Places, Purposes
<1>7. PICK p \in {"revoke", "fence"} : Cleanup(q) = Read(d, p)
  BY <1>3 DEF Cleanup
<1>8. Reached(c, d.floor) /\ p \in Purposes
  BY <1>6 DEF Reached, Purposes
<1>9. QED
  BY <1>6, <1>7, <1>8, ReadHolds

LEMMA BeganKeeps ==
  ASSUME EpochInv, NEW r \in Requests, NEW q, Began(r, q), RequestHolds(claims, q), q.at \in {"head", "enrol"},
         claims' = claims, head' = head, EpochShapes'
  PROVE  EpochInv'
<1>1. PICK t \in Nat, i \in Nat : t = Top.revision /\ i = row.inc /\ Reached(claims, t)
  BY TopReached DEF EpochInv, EpochShapes, Incarnations
<1>2. PICK n : n = IF q.then = "verify" THEN [q EXCEPT !.floor = t, !.born = i] ELSE q
  OBVIOUS
<1>3. Set(r, n)
  BY <1>1, <1>2 DEF Began
<1>4. q \in Request /\ Sound(claims, q.epoch) /\ EraseHolds(q)
  BY DEF RequestHolds
<1>5. CASE q.then = "verify"
  <2>1. /\ n \in Request /\ n.at = q.at /\ n.then = "verify" /\ n.epoch = q.epoch /\ n.floor = t
    BY <1>2, <1>4, <1>5 DEF Request
  <2>2. ScanHolds(claims, n) /\ EraseHolds(n)
    BY <2>1 DEF ScanHolds, EraseHolds
  <2>3. RequestHolds(claims, n)
    BY <1>1, <1>4, <2>1, <2>2 DEF RequestHolds
  <2>4. QED
    BY <1>3, <2>3, QuietMoves DEF EpochInv
<1>6. CASE q.then # "verify"
  BY <1>2, <1>3, <1>6, QuietMoves DEF EpochInv
<1>7. QED
  BY <1>5, <1>6

LEMMA BeginKeeps == ASSUME EpochInv, NEW r \in Requests, Begin(r) PROVE EpochInv'
<1>1. PICK k \in Kinds : LET q == [Idle EXCEPT !.kind = k] IN
        \/ /\ \E g \in sessions : Began(r, Read([q EXCEPT !.gen = g], "verify"))
           /\ UNCHANGED <<row, markers>>
        \/ /\ Began(r, Read([q EXCEPT !.inc = row.inc], "mint")) /\ UNCHANGED <<row, markers>>
        \/ /\ Began(r, Read(q, "revoke")) /\ UNCHANGED <<row, markers>>
        \/ /\ Began(r, Cleanup(q)) /\ MarkDeleting
        \/ /\ Began(r, Read([q EXCEPT !.inc = row.inc], "activate")) /\ UNCHANGED <<row, markers>>
        \/ /\ Began(r, [q EXCEPT !.at = "enrol"]) /\ UNCHANGED <<row, markers>>
  BY DEF Begin
<1> DEFINE q == [Idle EXCEPT !.kind = k]
<1>2. begun < MaxRequests /\ UNCHANGED <<claims, head, sessions, granted>>
  BY DEF Begin
<1>3. /\ EpochShapes /\ MaxRequests \in Nat /\ Zero \in Epochs /\ sessions \subseteq Nat
      /\ row.inc \in Incarnations
  BY Numbers, ZeroFacts DEF EpochInv, EpochShapes
<1>4. ASSUME NEW n, Began(r, n) PROVE begun' \in 0..MaxRequests
  BY <1>2, <1>3, <1>4 DEF Began, EpochShapes
<1>5. ASSUME begun' \in 0..MaxRequests, UNCHANGED <<row, markers>> PROVE EpochShapes'
  BY <1>2, <1>3, <1>5 DEF EpochShapes
<1>6. /\ q \in Request /\ q.floor = 0 /\ q.kind = k /\ q.born = 0
      /\ \A g \in Nat : [q EXCEPT !.gen = g] \in Request /\ [q EXCEPT !.gen = g].floor = 0
      /\ \A i \in Incarnations : [q EXCEPT !.inc = i] \in Request /\ [q EXCEPT !.inc = i].floor = 0
  BY <1>1, <1>3 DEF Idle, Request, Places, Purposes
<1>7. ASSUME NEW n \in Request, n.floor = 0, NEW p \in Purposes \ {"fence"}
      PROVE  RequestHolds(claims, Read(n, p)) /\ Read(n, p).at = "head"
  <2>1. Reached(claims, n.floor)
    BY <1>7 DEF Reached
  <2>2. Read(n, p).at = "head"
    BY DEF Read, Request
  <2>3. QED
    BY <1>7, <2>1, <2>2, ReadHolds
<1>8. {"verify", "mint", "revoke", "activate"} \subseteq Purposes \ {"fence"}
  BY DEF Purposes
<1>9. ASSUME NEW n \in Request, n.floor = 0, NEW p \in {"verify", "mint", "revoke", "activate"},
             Began(r, Read(n, p)), UNCHANGED <<row, markers>>
      PROVE  EpochInv'
  BY <1>2, <1>4, <1>5, <1>7, <1>8, <1>9, BeganKeeps
<1>10. ASSUME Began(r, Cleanup(q)), MarkDeleting PROVE EpochInv'
  <2>1. RequestHolds(claims, Cleanup(q))
    <3>1. PICK n : n = q
      OBVIOUS
    <3>2. n.kind \in Kinds \cup {"none"} /\ n.born \in Nat
      BY <3>1 DEF Idle
    <3>3. RequestHolds(claims, Cleanup(n))
      BY <1>3, <3>2, CleanupHolds
    <3>4. QED
      BY <3>1, <3>3
  <2>2. Cleanup(q).at = "head"
    BY DEF Cleanup, Read, Deletes, Idle
  <2>3. EpochShapes'
    BY <1>2, <1>3, <1>4, <1>10, DeletionMarked
  <2>4. QED
    BY <1>2, <1>10, <2>1, <2>2, <2>3, BeganKeeps
<1>11. ASSUME Began(r, [q EXCEPT !.at = "enrol"]), UNCHANGED <<row, markers>> PROVE EpochInv'
  <2>1. PICK n : n = [q EXCEPT !.at = "enrol"]
    OBVIOUS
  <2>2. n = [Idle EXCEPT !.kind = k, !.at = "enrol"]
    BY <1>1, <2>1
  <2>3. /\ n \in Request /\ n.at = "enrol" /\ n.then = "none" /\ n.epoch = Zero /\ n.floor = 0
    BY <1>3, <2>2 DEF Idle, Request, Places, Purposes
  <2>4. ScanHolds(claims, n) /\ EraseHolds(n)
    BY <2>3 DEF ScanHolds, EraseHolds
  <2>5. RequestHolds(claims, n)
    BY <2>3, <2>4, ZeroFacts DEF RequestHolds, Reached
  <2>6. QED
    BY <1>2, <1>4, <1>5, <1>11, <2>1, <2>3, <2>5, BeganKeeps
<1>12. QED
  <2>1. CASE \E g \in sessions : Began(r, Read([q EXCEPT !.gen = g], "verify")) /\ UNCHANGED <<row, markers>>
    BY <1>3, <1>6, <1>9, <2>1
  <2>2. CASE Began(r, Read([q EXCEPT !.inc = row.inc], "mint")) /\ UNCHANGED <<row, markers>>
    BY <1>3, <1>6, <1>9, <2>2
  <2>3. CASE Began(r, Read(q, "revoke")) /\ UNCHANGED <<row, markers>>
    BY <1>6, <1>9, <2>3
  <2>4. CASE Began(r, Read([q EXCEPT !.inc = row.inc], "activate")) /\ UNCHANGED <<row, markers>>
    BY <1>3, <1>6, <1>9, <2>4
  <2>5. QED
    BY <1>1, <1>10, <1>11, <2>1, <2>2, <2>3, <2>4

(* Reading: the head, and the generations after it.                        *)
LEMMA ReadHeadKeeps == ASSUME EpochInv, NEW r \in Requests, ReadHead(r) PROVE EpochInv'
<1>1. PICK q \in Request : q = req[r] /\ RequestHolds(claims, q)
  BY DEF EpochInv
<1>2. PICK n : n = [q EXCEPT !.at = "probe", !.seen = head, !.epoch = head, !.looked = 0]
  OBVIOUS
<1>3. /\ Set(r, n) /\ q.at = "head"
      /\ UNCHANGED <<claims, head, row, markers, sessions, begun, granted>>
  BY <1>1, <1>2 DEF ReadHead
<1>4. head \in Epochs /\ Sound(claims, head) /\ HeadHolds(claims, head) /\ EpochShapes
  BY DEF EpochInv, HeadHolds
<1>5. /\ n \in Request /\ n.at = "probe" /\ n.then = q.then /\ n.epoch = head /\ n.seen = head
      /\ n.floor = q.floor /\ n.mark = q.mark
  BY <1>2, <1>4 DEF Request, Places
<1>6. head.revision <= head.revision /\ Reached(claims, q.floor) /\ EraseHolds(q)
  BY <1>1, <1>4 DEF Epochs, RequestHolds
<1>7. ScanHolds(claims, n) /\ EraseHolds(n)
  BY <1>5, <1>6 DEF ScanHolds, EraseHolds
<1>8. RequestHolds(claims, n)
  BY <1>4, <1>5, <1>6, <1>7 DEF RequestHolds
<1>9. QED
  BY <1>3, <1>4, <1>8, QuietMoves, ShapesSame

(* A scan that finds nothing after a generation below one that was reached *)
(* has met a hole.                                                         *)
LEMMA ShortScan ==
  ASSUME NEW c, ClaimsOK(c), NEW n \in Nat, NEW f \in Nat, Reached(c, f), n < f,
         n + 1 \notin Revisions \/ c[n + 1] = Zero, NEW m \in Nat, m <= n
  PROVE  Covered(c, m)
<1>1. PICK j \in Revisions : f <= j /\ c[j] # Zero
  BY DEF Reached
<1>2. j \in Nat \ {0} /\ j <= 3 * MaxRequests + 1 /\ 3 * MaxRequests + 1 \in Nat
  BY Numbers DEF Revisions
<1>3. n + 1 \in Revisions /\ n + 1 <= j
  BY <1>1, <1>2 DEF Revisions
<1>4. c[n + 1] = Zero /\ n + 1 # j
  BY <1>1, <1>3
<1>5. Covered(c, n + 1)
  BY <1>1, <1>2, <1>3, <1>4 DEF ClaimsOK, HolesFenced
<1>6. c \in [Revisions -> Epochs]
  BY DEF ClaimsOK
<1>7. PICK k \in Revisions : c[k].deleting /\ n + 1 <= c[k].generation
  BY <1>5 DEF Covered
<1>8. c[k].generation \in Nat
  BY <1>6 DEF Epochs
<1>9. m <= c[k].generation
  BY <1>7, <1>8
<1>10. QED
  BY <1>7, <1>9 DEF Covered

LEMMA ProbeKeeps == ASSUME EpochInv, NEW r \in Requests, Probe(r) PROVE EpochInv'
<1>1. PICK q \in Request : q = req[r] /\ RequestHolds(claims, q)
  BY DEF EpochInv
<1>2. PICK e \in Epochs, k \in Nat, m \in Nat : e = q.epoch /\ k = e.revision /\ m = q.seen.revision
  BY <1>1 DEF Request, Epochs
<1>3. /\ q.at = "probe" /\ m <= k /\ Reached(claims, q.floor) /\ q.floor \in Nat /\ Sound(claims, e)
      /\ q.then = "fence" => 1 <= q.mark
  BY <1>1, <1>2 DEF Probe, RequestHolds, ScanHolds, EraseHolds, Request
<1>4. UNCHANGED <<claims, head, row, markers, sessions, begun, granted>>
  BY DEF Probe
<1>5. ClaimsOK(claims) /\ HeadHolds(claims, head) /\ EpochShapes
  BY DEF EpochInv
<1>6. CASE Free(k + 1) /\ Set(r, [q EXCEPT !.at = IF q.epoch # q.seen THEN "repair" ELSE "read"])
  <2>1. PICK n : n = [q EXCEPT !.at = IF q.epoch # q.seen THEN "repair" ELSE "read"]
    OBVIOUS
  <2>2. n.at \in {"repair", "read"} /\ n \in Request /\ n = [q EXCEPT !.at = n.at]
    BY <1>1, <2>1 DEF Request, Places
  <2>3. /\ n.epoch = e /\ n.seen = q.seen /\ n.floor = q.floor /\ n.then = q.then /\ n.mark = q.mark
    BY <1>1, <1>2, <2>2 DEF Request
  <2>4. k < q.floor => Covered(claims, m)
    BY <1>2, <1>3, <1>5, <1>6, ShortScan DEF Free
  <2>5. q.floor <= k \/ Covered(claims, m)
    BY <1>2, <1>3, <2>4
  <2>6. ScanHolds(claims, n)
    BY <1>2, <1>3, <2>2, <2>3, <2>5 DEF ScanHolds
  <2>7. EraseHolds(n)
    BY <1>3, <2>2, <2>3 DEF EraseHolds
  <2>8. RequestHolds(claims, n)
    BY <1>3, <2>2, <2>3, <2>6, <2>7 DEF RequestHolds
  <2>9. QED
    BY <1>4, <1>5, <1>6, <2>1, <2>8, QuietMoves, ShapesSame
<1>7. CASE ~Free(k + 1) /\ Set(r, [q EXCEPT !.epoch = claims[k + 1], !.looked = @ + 1,
                                     !.at = IF q.looked + 1 = ScanLimit THEN "recover" ELSE "probe"])
  <2>1. PICK f : f = claims[k + 1]
    OBVIOUS
  <2>2. k + 1 \in Revisions /\ f # Zero /\ f \in Epochs /\ f.revision = k + 1
    BY <1>5, <1>7, <2>1 DEF Free, ClaimsOK, NumbersHold
  <2>3. Sound(claims, f)
    <3>1. k + 1 <= k + 1
      BY <1>2
    <3>2. QED
      BY <2>1, <2>2, <3>1 DEF Sound, Reached
  <2>4. PICK n : n = [q EXCEPT !.epoch = f, !.looked = @ + 1,
                               !.at = IF q.looked + 1 = ScanLimit THEN "recover" ELSE "probe"]
    OBVIOUS
  <2>5. n.at \in {"recover", "probe"}
    BY <1>1, <2>4 DEF Request
  <2>6. n \in Request
    <3>1. PICK l \in Nat : l = q.looked + 1
      BY DEF Request
    <3>2. PICK a \in Places : n = [q EXCEPT !.epoch = f, !.looked = l, !.at = a]
      BY <2>4, <2>5, <3>1 DEF Places
    <3>3. QED
      BY <2>2, <3>2 DEF Request
  <2>7. /\ n.epoch = f /\ n.seen = q.seen /\ n.floor = q.floor /\ n.then = q.then /\ n.mark = q.mark
    BY <1>1, <2>4 DEF Request
  <2>8. m <= k + 1
    BY <1>2, <1>3
  <2>9. ScanHolds(claims, n)
    BY <1>2, <2>2, <2>5, <2>7, <2>8 DEF ScanHolds
  <2>10. EraseHolds(n)
    BY <1>3, <2>5, <2>7 DEF EraseHolds
  <2>11. RequestHolds(claims, n)
    BY <1>3, <2>3, <2>6, <2>7, <2>9, <2>10 DEF RequestHolds
  <2>12. QED
    BY <1>4, <1>5, <1>7, <2>1, <2>4, <2>11, QuietMoves, ShapesSame
<1>8. QED
  BY <1>1, <1>2, <1>6, <1>7 DEF Probe

LEMMA RepairKeeps == ASSUME EpochInv, NEW r \in Requests, Repair(r) \/ ReadOnly(r) PROVE EpochInv'
<1>1. PICK q \in Request : q = req[r] /\ RequestHolds(claims, q)
  BY DEF EpochInv
<1>2. ClaimsOK(claims) /\ HeadHolds(claims, head) /\ EpochShapes /\ EpochShapes'
  BY ShapesSame DEF EpochInv, Repair, ReadOnly
<1>3. q.epoch \in Epochs /\ Sound(claims, q.epoch) /\ Reached(claims, q.floor)
  BY <1>1 DEF RequestHolds, Request
<1>4. claims' = claims /\ HeadHolds(claims, head')
  BY <1>1, <1>2, <1>3 DEF Repair, ReadOnly, HeadHolds
<1>5. CASE Finish(r)
  BY <1>2, <1>4, <1>5, FinishKeeps
<1>6. CASE q.at = "repair" /\ Set(r, [q EXCEPT !.at = "read"])
  <2>1. PICK n : n = [q EXCEPT !.at = "read"]
    OBVIOUS
  <2>2. /\ n \in Request /\ n.at = "read" /\ n.epoch = q.epoch /\ n.seen = q.seen
        /\ n.floor = q.floor /\ n.then = q.then /\ n.mark = q.mark
    BY <2>1 DEF Request, Places
  <2>3. ScanHolds(claims, n) /\ EraseHolds(n)
    BY <1>1, <1>6, <2>2 DEF RequestHolds, ScanHolds, EraseHolds
  <2>4. RequestHolds(claims, n)
    BY <1>3, <2>2, <2>3 DEF RequestHolds
  <2>5. QED
    BY <1>2, <1>4, <1>6, <2>1, <2>4, QuietMoves
<1>7. QED
  BY <1>1, <1>5, <1>6 DEF Repair, ReadOnly

(* A request that moves on with the record it read.                        *)
LEMMA GoesOn ==
  ASSUME NEW c, NEW q, RequestHolds(c, q), NEW n \in Request, n.epoch = q.epoch, n.floor = q.floor,
         ScanHolds(c, n), EraseHolds(n)
  PROVE  RequestHolds(c, n)
BY DEF RequestHolds

LEMMA VerifyKeeps == ASSUME EpochInv, NEW r \in Requests, Verify(r) PROVE EpochInv'
<1>1. PICK q \in Request : q = req[r] /\ RequestHolds(claims, q)
  BY DEF EpochInv
<1>2. /\ q.at = "read" /\ q.then = "verify" /\ HeadHolds(claims, head) /\ EpochShapes
      /\ UNCHANGED <<claims, head, row, markers, sessions, begun, granted>>
  BY <1>1 DEF Verify, EpochInv
<1>3. CASE Accepts(q) /\ Set(r, [q EXCEPT !.at = "accepted", !.verified = q.epoch])
  <2>1. PICK n : n = [q EXCEPT !.at = "accepted", !.verified = q.epoch]
    OBVIOUS
  <2>2. /\ n \in Request /\ n.at = "accepted" /\ n.then = "verify" /\ n.epoch = q.epoch
        /\ n.verified = q.epoch /\ n.seen = q.seen /\ n.floor = q.floor /\ n.gen = q.gen
    BY <1>2, <2>1 DEF Request, Places
  <2>3. ~q.epoch.deleting => q.gen = q.epoch.revision
    BY <1>3 DEF Accepts
  <2>4. ScanHolds(claims, n) /\ EraseHolds(n)
    BY <1>1, <1>2, <2>2, <2>3 DEF RequestHolds, ScanHolds, EraseHolds
  <2>5. QED
    BY <1>1, <1>2, <1>3, <2>1, <2>2, <2>4, GoesOn, QuietMoves, ShapesSame
<1>4. CASE Finish(r)
  BY <1>2, <1>4, FinishKeeps, ShapesSame
<1>5. QED
  BY <1>1, <1>3, <1>4 DEF Verify

LEMMA AuthorisedKeeps == ASSUME EpochInv, NEW r \in Requests, Authorised(r) PROVE EpochInv'
<1>1. PICK q \in Request : q = req[r] /\ RequestHolds(claims, q)
  BY DEF EpochInv
<1>2. /\ HeadHolds(claims, head) /\ EpochShapes /\ row.inc \in Incarnations
      /\ UNCHANGED <<claims, head, sessions, begun, granted>>
  BY DEF Authorised, EpochInv, EpochShapes
<1>3. UNCHANGED <<row, markers>> => EpochShapes'
  BY <1>2, ShapesSame
<1>4. CASE Finish(r) /\ UNCHANGED <<row, markers>>
  BY <1>2, <1>3, <1>4, FinishKeeps
<1>5. ASSUME NEW n \in Request, n.floor = 0, NEW p \in {"revoke", "change"}, Set(r, Read(n, p)),
             UNCHANGED <<row, markers>>
      PROVE  EpochInv'
  <2>1. Reached(claims, n.floor) /\ p \in Purposes /\ p # "fence"
    BY <1>5 DEF Reached, Purposes
  <2>2. RequestHolds(claims, Read(n, p))
    BY <2>1, ReadHolds
  <2>3. QED
    BY <1>2, <1>3, <1>5, <2>2, QuietMoves
<1>6. CASE Set(r, Read([Idle EXCEPT !.kind = q.kind], "revoke")) /\ UNCHANGED <<row, markers>>
  <2>1. PICK n : n = [Idle EXCEPT !.kind = q.kind]
    OBVIOUS
  <2>2. n \in Request /\ n.floor = 0
    BY <2>1, ZeroFacts DEF Idle, Request, Places, Purposes
  <2>3. QED
    BY <1>5, <1>6, <2>1, <2>2
<1>7. CASE /\ Set(r, Read([Idle EXCEPT !.kind = q.kind, !.inc = row.inc, !.verified = q.verified], "change"))
           /\ UNCHANGED <<row, markers>>
  <2>1. PICK n : n = [Idle EXCEPT !.kind = q.kind, !.inc = row.inc, !.verified = q.verified]
    OBVIOUS
  <2>2. n \in Request /\ n.floor = 0
    BY <1>2, <2>1, ZeroFacts DEF Idle, Request, Places, Purposes
  <2>3. QED
    BY <1>5, <1>7, <2>1, <2>2
<1>8. CASE Set(r, Cleanup(q)) /\ MarkDeleting
  <2>1. q.kind \in Kinds \cup {"none"} /\ q.born \in Nat
    BY DEF Request
  <2>2. RequestHolds(claims, Cleanup(q))
    BY <1>2, <2>1, CleanupHolds
  <2>3. begun' \in 0..MaxRequests
    BY <1>2 DEF EpochShapes
  <2>4. EpochShapes'
    BY <1>2, <1>8, <2>3, DeletionMarked
  <2>5. QED
    BY <1>2, <1>8, <2>2, <2>4, QuietMoves
<1>9. QED
  BY <1>1, <1>4, <1>6, <1>7, <1>8 DEF Authorised

LEMMA MintKeeps == ASSUME EpochInv, NEW r \in Requests, Mint(r) PROVE EpochInv'
<1>1. PICK q \in Request : q = req[r]
  BY DEF EpochInv
<1>2. /\ HeadHolds(claims, head) /\ EpochShapes /\ Finish(r)
      /\ UNCHANGED <<claims, head, row, markers, begun, granted>>
  BY DEF Mint, EpochInv
<1>3. q.epoch.revision \in Nat
  BY DEF Request, Epochs
<1>4. sessions' \subseteq Nat
  BY <1>1, <1>2, <1>3 DEF Mint, EpochShapes
<1>5. EpochShapes'
  BY <1>2, <1>4 DEF EpochShapes
<1>6. QED
  BY <1>2, <1>5, FinishKeeps

(* The claims.                                                             *)
LEMMA LostKeeps ==
  ASSUME EpochInv, NEW r \in Requests, Lost(r), UNCHANGED <<head, row, markers, sessions, begun, granted>>
  PROVE  EpochInv'
<1>1. PICK q \in Request : q = req[r] /\ RequestHolds(claims, q)
  BY DEF EpochInv
<1>2. claims' = claims /\ HeadHolds(claims, head') /\ EpochShapes'
  BY ShapesSame DEF EpochInv, Lost
<1>3. CASE Finish(r)
  BY <1>2, <1>3, FinishKeeps
<1>4. CASE Set(r, Read([q EXCEPT !.tries = @ + 1], q.then))
  <2>1. PICK n : n = [q EXCEPT !.tries = @ + 1]
    OBVIOUS
  <2>2. n \in Request /\ n.floor = q.floor /\ n.mark = q.mark /\ q.then \in Purposes
    BY <2>1 DEF Request
  <2>3. Reached(claims, n.floor) /\ (q.then = "fence" => 1 <= n.mark)
    BY <1>1, <2>2 DEF RequestHolds, EraseHolds
  <2>4. RequestHolds(claims, Read(n, q.then))
    BY <2>2, <2>3, ReadHolds
  <2>5. QED
    BY <1>2, <1>4, <2>1, <2>4, QuietMoves
<1>5. QED
  BY <1>1, <1>3, <1>4 DEF Lost

(* A new generation extends the history.                                   *)
LEMMA NextHolds ==
  ASSUME EpochInv, NEW r \in Requests, NEW e \in Epochs, e.revision = req[r].epoch.revision + 1,
         e.revision \in Revisions, Free(e.revision), claims' = [claims EXCEPT ![e.revision] = e],
         e.deleting => e.name = 0 /\ DeletedTo(claims, e.generation, req[r].epoch.revision)
  PROVE  ClaimsOK(claims') /\ Grows(claims, claims') /\ Sound(claims', e)
<1>1. PICK k \in Nat : k = req[r].epoch.revision
  BY DEF EpochInv, Request, Epochs
<1>2. Reached(claims, k) /\ ClaimsOK(claims)
  BY <1>1 DEF EpochInv, RequestHolds, Sound
<1>3. e.revision = k + 1 /\ e.revision - 1 = k
  BY <1>1
<1>4. claims[e.revision] = Zero
  BY DEF Free
<1>5. Reached(claims, e.revision - 1)
  BY <1>2, <1>3
<1>6. e.deleting => e.name = 0 /\ DeletedTo(claims, e.generation, e.revision - 1)
  BY <1>1, <1>3
<1>7. ClaimsOK(claims') /\ Grows(claims, claims') /\ claims'[e.revision] = e
  BY <1>2, <1>4, <1>5, <1>6, ClaimKeeps
<1>8. e # Zero /\ e.revision <= e.revision
  BY <1>1, <1>3, ZeroFacts
<1>9. Reached(claims', e.revision)
  BY <1>7, <1>8 DEF Reached
<1>10. QED
  BY <1>7, <1>9 DEF Sound

LEMMA WonKeeps ==
  ASSUME EpochInv, NEW r \in Requests, NEW e \in Epochs, e.revision = req[r].epoch.revision + 1,
         Free(e.revision), NEW place \in {"publish", "enable"}, Won(r, e, place),
         e.deleting => e.name = 0 /\ DeletedTo(claims, e.generation, req[r].epoch.revision),
         req[r].then = "fence" => e.deleting,
         head' = head, EpochShapes'
  PROVE  EpochInv'
<1>1. PICK q \in Request : q = req[r] /\ RequestHolds(claims, q)
  BY DEF EpochInv
<1>2. e.revision \in Revisions /\ claims' = [claims EXCEPT ![e.revision] = e]
  BY DEF Won
<1>3. ClaimsOK(claims') /\ Grows(claims, claims') /\ Sound(claims', e)
  BY <1>2, NextHolds
<1>4. PICK n : n = [q EXCEPT !.at = place, !.epoch = e, !.tries = 0, !.seen = Zero, !.looked = 0]
  OBVIOUS
<1>5. Set(r, n)
  BY <1>1, <1>4 DEF Won
<1>6. /\ n \in Request /\ n.at = place /\ n.then = q.then /\ n.epoch = e /\ n.floor = q.floor
      /\ n.mark = q.mark
  BY <1>4, ZeroFacts DEF Request, Places
<1>7. ScanHolds(claims', n) /\ EraseHolds(n)
  BY <1>1, <1>6 DEF ScanHolds, EraseHolds, RequestHolds
<1>8. Reached(claims', n.floor)
  BY <1>1, <1>3, <1>6 DEF RequestHolds, Grows, Request
<1>9. RequestHolds(claims', n)
  BY <1>3, <1>6, <1>7, <1>8 DEF RequestHolds
<1>10. HeadHolds(claims', head')
  BY <1>3, SoundKept DEF EpochInv, HeadHolds
<1>11. QED
  BY <1>3, <1>5, <1>9, <1>10, OneMoves

(* What a record of a deletion that was read says of the history.          *)
LEMMA DeletionRead ==
  ASSUME EpochInv, NEW e \in Epochs, Sound(claims, e), e.deleting
  PROVE  e.name = 0 /\ DeletedTo(claims, e.generation, e.revision)
BY DEF EpochInv, ClaimsOK, DeletionsHold, Sound

LEMMA SuccessorHolds ==
  ASSUME EpochInv, NEW e \in Epochs, Sound(claims, e)
  PROVE  LET n == Successor(e) IN
         /\ n \in Epochs /\ n.revision = e.revision + 1
         /\ n.deleting => n.name = 0 /\ DeletedTo(claims, n.generation, e.revision)
<1>1. PICK n : n = Successor(e)
  OBVIOUS
<1>2. /\ n \in Epochs /\ n.revision = e.revision + 1 /\ n.name = e.name /\ n.generation = e.generation
      /\ n.deleting = e.deleting
  BY <1>1 DEF Successor, Epochs
<1>3. QED
  BY <1>1, <1>2, DeletionRead

LEMMA RevokeKeeps == ASSUME EpochInv, NEW r \in Requests, Revoke(r) PROVE EpochInv'
<1>1. PICK q \in Request : q = req[r] /\ RequestHolds(claims, q)
  BY DEF EpochInv
<1>2. PICK n : n = Successor(q.epoch)
  OBVIOUS
<1>3. /\ n \in Epochs /\ n.revision = q.epoch.revision + 1
      /\ n.deleting => n.name = 0 /\ DeletedTo(claims, n.generation, q.epoch.revision)
  BY <1>1, <1>2, SuccessorHolds DEF RequestHolds, Request
<1>4. q.then = "revoke" /\ UNCHANGED <<head, row, markers, sessions, begun>>
  BY <1>1 DEF Revoke
<1>5. CASE Free(n.revision) /\ Won(r, n, "publish") /\ Noted(n)
  BY <1>1, <1>3, <1>4, <1>5, WonKeeps, LateNoted DEF EpochInv
<1>6. CASE Lost(r) /\ UNCHANGED granted
  BY <1>4, <1>6, LostKeeps
<1>7. QED
  BY <1>1, <1>2, <1>5, <1>6 DEF Revoke

LEMMA ChangeFactorKeeps == ASSUME EpochInv, NEW r \in Requests, ChangeFactor(r) PROVE EpochInv'
<1>1. PICK q \in Request : q = req[r] /\ RequestHolds(claims, q)
  BY DEF EpochInv
<1>2. PICK x \in Nat : x = IF q.verified.name = q.inc THEN q.verified.factor ELSE 0
  BY DEF Request, Epochs
<1>3. PICK n : n = Changed(q.epoch, q.inc, x + 1)
  OBVIOUS
<1>4. UNCHANGED <<head, row, markers, sessions, begun>> /\ HeadHolds(claims, head) /\ EpochShapes
  BY DEF ChangeFactor, EpochInv
<1>5. CASE Finish(r) /\ UNCHANGED <<claims, granted>>
  BY <1>4, <1>5, FinishKeeps, ShapesSame
<1>6. CASE Lost(r) /\ UNCHANGED granted
  BY <1>4, <1>6, LostKeeps
<1>7. CASE /\ ~Stale(q) /\ Free(n.revision) /\ n.revision \in Revisions /\ Finish(r)
           /\ claims' = [claims EXCEPT ![n.revision] = n]
           /\ granted' = [changes |-> granted.changes + IF row.inc = q.inc THEN 1 ELSE 0,
                           late |-> granted.late \/ TooLate(n)]
  <2>1. ~q.epoch.deleting /\ q.epoch \in Epochs /\ q.inc \in Nat
    BY <1>7 DEF Stale, Request, Incarnations
  <2>2. n \in Epochs /\ n.revision = q.epoch.revision + 1 /\ ~n.deleting
    <3>1. PICK y \in Nat, e \in Epochs, k \in Nat : y = x + 1 /\ e = q.epoch /\ k = e.revision + 1
      <4>1. x + 1 \in Nat /\ q.epoch.revision + 1 \in Nat
        BY <1>2, <2>1 DEF Epochs
      <4>2. QED
        BY <2>1, <4>1
    <3>2. n = [e EXCEPT !.revision = k, !.name = q.inc, !.factor = y]
      BY <1>3, <3>1 DEF Changed, Successor, Epochs
    <3>3. QED
      BY <2>1, <3>1, <3>2 DEF Epochs
  <2>3. ClaimsOK(claims') /\ Grows(claims, claims')
    BY <1>1, <1>7, <2>2, NextHolds
  <2>4. PICK c \in Nat, b \in BOOLEAN : granted' = [changes |-> c, late |-> b]
    <3>1. PICK c \in Nat : c = granted.changes + IF row.inc = q.inc THEN 1 ELSE 0
      BY <1>4 DEF EpochShapes
    <3>2. PICK b \in BOOLEAN : b = (granted.late \/ TooLate(n))
      OBVIOUS
    <3>3. QED
      BY <1>7, <3>1, <3>2
  <2>5. EpochShapes'
    BY <1>4, <2>4, ShapesNoted
  <2>6. HeadHolds(claims', head')
    BY <1>4, <2>3, SoundKept DEF HeadHolds
  <2>7. Set(r, Idle) /\ RequestHolds(claims', Idle)
    BY <1>7, RestHolds DEF Finish
  <2>8. QED
    BY <2>3, <2>5, <2>6, <2>7, OneMoves
<1>8. QED
  BY <1>1, <1>2, <1>3, <1>5, <1>6, <1>7 DEF ChangeFactor

LEMMA BeginDeletionKeeps == ASSUME EpochInv, NEW r \in Requests, BeginDeletion(r) PROVE EpochInv'
<1>1. PICK q \in Request : q = req[r] /\ RequestHolds(claims, q)
  BY DEF EpochInv
<1>2. PICK n : n = Fenced(q.epoch)
  OBVIOUS
<1>3. /\ q.at = "read" /\ q.then = "fence" /\ 1 <= q.mark /\ q.epoch \in Epochs
      /\ UNCHANGED <<head, row, markers, sessions, begun>> /\ HeadHolds(claims, head) /\ EpochShapes
  BY <1>1 DEF BeginDeletion, EpochInv, RequestHolds, EraseHolds, Request
<1>4. CASE q.epoch.deleting /\ Set(r, [q EXCEPT !.at = "publish", !.tries = 0]) /\ UNCHANGED <<claims, granted>>
  <2>1. PICK m : m = [q EXCEPT !.at = "publish", !.tries = 0]
    OBVIOUS
  <2>2. /\ m \in Request /\ m.at = "publish" /\ m.then = "fence" /\ m.epoch = q.epoch
        /\ m.floor = q.floor /\ m.mark = q.mark
    BY <1>3, <2>1 DEF Request, Places
  <2>3. ScanHolds(claims, m) /\ EraseHolds(m)
    BY <1>3, <1>4, <2>2 DEF ScanHolds, EraseHolds
  <2>4. QED
    BY <1>1, <1>3, <1>4, <2>1, <2>2, <2>3, GoesOn, QuietMoves, ShapesSame
<1>5. CASE /\ Free(n.revision) /\ Won(r, n, "publish")
           /\ granted' = [granted EXCEPT !.late = @ \/ TooLate(n)
                                                   \/ row # [inc |-> q.inc, state |-> "deleting"]]
  <2>1. PICK k \in Nat, f \in Nat : k = q.epoch.revision /\ f = q.epoch.fence + 1
    BY <1>3 DEF Epochs
  <2>2. n = [revision |-> k + 1, name |-> 0, factor |-> 0, fence |-> f, deleting |-> TRUE, generation |-> k]
    BY <1>2, <2>1 DEF Fenced, Zero
  <2>3. n \in Epochs /\ n.revision = k + 1 /\ n.deleting /\ n.name = 0 /\ n.generation = k
    BY <2>1, <2>2 DEF Epochs
  <2>4. DeletedTo(claims, k, k)
    <3>1. \A j \in Revisions : ~(k < j /\ j <= k)
      BY <2>1, Numbers
    <3>2. QED
      BY <3>1 DEF DeletedTo
  <2>5. PICK c \in Nat, b \in BOOLEAN : granted' = [changes |-> c, late |-> b]
    <3>1. PICK c \in Nat, a \in BOOLEAN : granted = [changes |-> c, late |-> a]
      BY <1>3 DEF EpochShapes
    <3>2. PICK b \in BOOLEAN : b = (a \/ TooLate(n) \/ row # [inc |-> q.inc, state |-> "deleting"])
      OBVIOUS
    <3>3. QED
      BY <1>5, <3>1, <3>2
  <2>6. EpochShapes'
    BY <1>3, <2>5, ShapesNoted
  <2>7. QED
    BY <1>1, <1>3, <1>5, <2>1, <2>3, <2>4, <2>6, WonKeeps
<1>6. CASE Lost(r) /\ UNCHANGED granted
  BY <1>3, <1>6, LostKeeps
<1>7. QED
  BY <1>1, <1>2, <1>4, <1>5, <1>6 DEF BeginDeletion

LEMMA ActivateKeeps == ASSUME EpochInv, NEW r \in Requests, Activate(r) PROVE EpochInv'
<1>1. PICK q \in Request : q = req[r] /\ RequestHolds(claims, q)
  BY DEF EpochInv
<1>2. PICK n : n = Activated(q.epoch)
  OBVIOUS
<1>3. /\ q.at = "read" /\ q.then = "activate" /\ q.epoch \in Epochs
      /\ UNCHANGED <<head, row, markers, sessions, begun>> /\ HeadHolds(claims, head) /\ EpochShapes
  BY <1>1 DEF Activate, EpochInv, Request
<1>4. CASE Set(r, [q EXCEPT !.at = "enable", !.seen = Zero, !.looked = 0]) /\ UNCHANGED <<claims, granted>>
  <2>1. PICK m : m = [q EXCEPT !.at = "enable", !.seen = Zero, !.looked = 0]
    OBVIOUS
  <2>2. /\ m \in Request /\ m.at = "enable" /\ m.then = "activate" /\ m.epoch = q.epoch
        /\ m.floor = q.floor /\ m.mark = q.mark
    BY <1>3, <2>1, ZeroFacts DEF Request, Places
  <2>3. ScanHolds(claims, m) /\ EraseHolds(m)
    BY <2>2 DEF ScanHolds, EraseHolds
  <2>4. QED
    BY <1>1, <1>3, <1>4, <2>1, <2>2, <2>3, GoesOn, QuietMoves, ShapesSame
<1>5. CASE Free(n.revision) /\ Won(r, n, "enable") /\ Noted(n)
  <2>1. PICK k \in Nat : k = q.epoch.revision + 1
    BY <1>3 DEF Epochs
  <2>2. n = [q.epoch EXCEPT !.revision = k, !.deleting = FALSE, !.generation = 0]
    BY <1>2, <1>3, <2>1 DEF Activated, Successor, Epochs
  <2>3. n \in Epochs /\ n.revision = q.epoch.revision + 1 /\ ~n.deleting
    BY <1>3, <2>1, <2>2 DEF Epochs
  <2>4. QED
    BY <1>1, <1>3, <1>5, <2>3, WonKeeps, LateNoted
<1>6. CASE Lost(r) /\ UNCHANGED granted
  BY <1>3, <1>6, LostKeeps
<1>7. QED
  BY <1>1, <1>2, <1>4, <1>5, <1>6 DEF Activate

(* The head after a claim.                                                 *)
LEMMA PublishedHolds ==
  ASSUME NEW c, NEW q, RequestHolds(c, q), q.at \in {"publish", "swap"}
  PROVE  RequestHolds(c, Published(q))
<1>1. q \in Request /\ EraseHolds(q)
  BY DEF RequestHolds
<1>2. CASE q.then = "fence"
  <2>1. PICK n : n = [q EXCEPT !.at = "erase", !.cursor = q.mark]
    OBVIOUS
  <2>2. Published(q) = n
    BY <1>2, <2>1 DEF Published
  <2>3. /\ n \in Request /\ n.at = "erase" /\ n.then = "fence" /\ n.epoch = q.epoch /\ n.floor = q.floor
        /\ n.mark = q.mark /\ n.cursor = q.mark
    BY <1>1, <1>2, <2>1 DEF Request, Places
  <2>4. ScanHolds(c, n) /\ EraseHolds(n)
    BY <1>1, <1>2, <2>3 DEF ScanHolds, EraseHolds
  <2>5. QED
    BY <2>2, <2>3, <2>4, GoesOn
<1>3. CASE q.then = "revoke" /\ q.kind \in {"delete", "job", "register"}
  <2>1. PICK n : n = [Idle EXCEPT !.kind = q.kind, !.inc = q.inc, !.born = q.born, !.at = "remove"]
    OBVIOUS
  <2>2. Published(q) = n
    BY <1>3, <2>1 DEF Published
  <2>3. /\ n \in Request /\ n.at = "remove" /\ n.then = "none" /\ n.epoch = Zero /\ n.floor = 0
    BY <1>1, <2>1, ZeroFacts DEF Idle, Request, Places, Purposes
  <2>4. ScanHolds(c, n) /\ EraseHolds(n)
    BY <2>3 DEF ScanHolds, EraseHolds
  <2>5. QED
    BY <2>2, <2>3, <2>4, ZeroFacts DEF RequestHolds, Reached
<1>4. CASE ~(q.then = "fence") /\ ~(q.then = "revoke" /\ q.kind \in {"delete", "job", "register"})
  <2>1. Published(q) = Idle
    BY <1>4 DEF Published
  <2>2. QED
    BY <2>1, RestHolds
<1>5. QED
  BY <1>2, <1>3, <1>4

LEMMA PublishKeeps == ASSUME EpochInv, NEW r \in Requests, PublishHead(r) PROVE EpochInv'
<1>1. PICK q \in Request : q = req[r] /\ RequestHolds(claims, q)
  BY DEF EpochInv
<1>2. /\ q.at = "publish" /\ HeadHolds(claims, head) /\ EpochShapes
      /\ UNCHANGED <<claims, head, row, markers, sessions, begun, granted>>
  BY <1>1 DEF PublishHead, EpochInv
<1>3. CASE Set(r, Published(q))
  BY <1>1, <1>2, <1>3, PublishedHolds, QuietMoves, ShapesSame
<1>4. CASE Set(r, [q EXCEPT !.at = "swap", !.seen = head])
  <2>1. PICK n : n = [q EXCEPT !.at = "swap", !.seen = head]
    OBVIOUS
  <2>2. head \in Epochs
    BY <1>2 DEF HeadHolds
  <2>3. /\ n \in Request /\ n.at = "swap" /\ n.then = q.then /\ n.epoch = q.epoch /\ n.floor = q.floor
        /\ n.mark = q.mark
    BY <2>1, <2>2 DEF Request, Places
  <2>4. ScanHolds(claims, n) /\ EraseHolds(n)
    BY <1>1, <1>2, <2>3 DEF RequestHolds, ScanHolds, EraseHolds
  <2>5. QED
    BY <1>1, <1>2, <1>4, <2>1, <2>3, <2>4, GoesOn, QuietMoves, ShapesSame
<1>5. QED
  BY <1>1, <1>3, <1>4 DEF PublishHead

LEMMA SwapKeeps == ASSUME EpochInv, NEW r \in Requests, SwapHead(r) PROVE EpochInv'
<1>1. PICK q \in Request : q = req[r] /\ RequestHolds(claims, q)
  BY DEF EpochInv
<1>2. /\ q.at = "swap" /\ HeadHolds(claims, head) /\ EpochShapes
      /\ UNCHANGED <<claims, row, markers, sessions, begun, granted>>
  BY <1>1 DEF SwapHead, EpochInv
<1>3. EpochShapes'
  BY <1>2, ShapesSame
<1>4. CASE head' = q.epoch /\ Set(r, Published(q))
  <2>1. HeadHolds(claims, head')
    BY <1>1, <1>4 DEF RequestHolds, Request, HeadHolds
  <2>2. QED
    BY <1>1, <1>2, <1>3, <1>4, <2>1, PublishedHolds, QuietMoves
<1>5. CASE Set(r, Published(q)) /\ UNCHANGED head
  BY <1>1, <1>2, <1>3, <1>5, PublishedHolds, QuietMoves
<1>6. CASE Finish(r) /\ UNCHANGED head
  BY <1>2, <1>3, <1>6, FinishKeeps
<1>7. CASE Set(r, [q EXCEPT !.at = "publish", !.tries = @ + 1]) /\ UNCHANGED head
  <2>1. PICK n : n = [q EXCEPT !.at = "publish", !.tries = @ + 1]
    OBVIOUS
  <2>2. /\ n \in Request /\ n.at = "publish" /\ n.then = q.then /\ n.epoch = q.epoch /\ n.floor = q.floor
        /\ n.mark = q.mark
    <3>1. PICK t \in Nat : t = q.tries + 1
      BY DEF Request
    <3>2. n = [q EXCEPT !.at = "publish", !.tries = t]
      BY <2>1, <3>1
    <3>3. QED
      BY <3>2 DEF Request, Places
  <2>3. ScanHolds(claims, n) /\ EraseHolds(n)
    BY <1>1, <1>2, <2>2 DEF RequestHolds, ScanHolds, EraseHolds
  <2>4. QED
    BY <1>1, <1>2, <1>3, <1>7, <2>1, <2>2, <2>3, GoesOn, QuietMoves
<1>8. QED
  BY <1>1, <1>4, <1>5, <1>6, <1>7 DEF SwapHead

(* The erasure of the history.                                             *)
LEMMA EraseLookKeeps == ASSUME EpochInv, NEW r \in Requests, EraseLook(r) PROVE EpochInv'
<1>1. PICK q \in Request : q = req[r] /\ RequestHolds(claims, q)
  BY DEF EpochInv
<1>2. PICK v : v = claims[q.cursor]
  OBVIOUS
<1>3. /\ q.at = "erase" /\ q.cursor < q.epoch.revision /\ HeadHolds(claims, head) /\ EpochShapes
      /\ UNCHANGED <<claims, head, row, markers, sessions, begun, granted>>
  BY <1>1 DEF EraseLook, EpochInv
<1>4. /\ q.epoch.deleting /\ 1 <= q.cursor /\ q.cursor \in Nat /\ q.epoch.revision \in Revisions
      /\ q.then = "fence" => 1 <= q.mark
  BY <1>1, <1>3 DEF RequestHolds, EraseHolds, Sound, Request
<1>5. q.cursor \in Revisions
  <2>1. PICK k \in Nat, n \in Nat : k = q.cursor /\ n = q.epoch.revision
    BY <1>4, Numbers
  <2>2. 1 <= k /\ k < n /\ n \in 1..(3 * MaxRequests + 1) /\ 3 * MaxRequests + 1 \in Nat
    BY <1>3, <1>4, <2>1, Numbers DEF Revisions
  <2>3. k \in 1..(3 * MaxRequests + 1)
    BY <2>1, <2>2
  <2>4. QED
    BY <2>1, <2>3 DEF Revisions
<1>6. v \in Epochs
  BY <1>2, <1>5 DEF EpochInv, ClaimsOK
<1>7. CASE Set(r, [q EXCEPT !.at = "fill"])
  <2>1. PICK n : n = [q EXCEPT !.at = "fill"]
    OBVIOUS
  <2>2. /\ n \in Request /\ n.at = "fill" /\ n.then = q.then /\ n.epoch = q.epoch /\ n.floor = q.floor
        /\ n.mark = q.mark /\ n.cursor = q.cursor
    BY <2>1 DEF Request, Places
  <2>3. ScanHolds(claims, n) /\ EraseHolds(n)
    BY <1>3, <1>4, <2>2 DEF ScanHolds, EraseHolds
  <2>4. QED
    BY <1>1, <1>3, <1>7, <2>1, <2>2, <2>3, GoesOn, QuietMoves, ShapesSame
<1>8. CASE Set(r, [q EXCEPT !.cursor = @ + 1])
  <2>1. PICK k \in Nat : k = q.cursor + 1 /\ 1 <= k
    BY <1>4
  <2>2. PICK n : n = [q EXCEPT !.cursor = k]
    OBVIOUS
  <2>3. /\ n \in Request /\ n.at = "erase" /\ n.then = q.then /\ n.epoch = q.epoch /\ n.floor = q.floor
        /\ n.mark = q.mark /\ n.cursor = k
    BY <1>3, <2>1, <2>2 DEF Request
  <2>4. ScanHolds(claims, n) /\ EraseHolds(n)
    BY <1>4, <2>1, <2>3 DEF ScanHolds, EraseHolds
  <2>5. Set(r, n)
    BY <1>8, <2>1, <2>2
  <2>6. QED
    BY <1>1, <1>3, <2>3, <2>4, <2>5, GoesOn, QuietMoves, ShapesSame
<1>9. CASE v.name # 0 /\ Set(r, [q EXCEPT !.at = "release", !.seen = v])
  <2>1. PICK n : n = [q EXCEPT !.at = "release", !.seen = v]
    OBVIOUS
  <2>2. /\ n \in Request /\ n.at = "release" /\ n.then = q.then /\ n.epoch = q.epoch /\ n.floor = q.floor
        /\ n.mark = q.mark /\ n.cursor = q.cursor /\ n.seen = v
    BY <1>6, <2>1 DEF Request, Places
  <2>3. ScanHolds(claims, n) /\ EraseHolds(n)
    BY <1>3, <1>4, <1>9, <2>2 DEF ScanHolds, EraseHolds
  <2>4. QED
    BY <1>1, <1>3, <1>9, <2>1, <2>2, <2>3, GoesOn, QuietMoves, ShapesSame
<1>10. QED
  BY <1>1, <1>2, <1>7, <1>8, <1>9 DEF EraseLook

(* Where an erasure is, below the deletion it belongs to.                  *)
LEMMA ErasurePlace ==
  ASSUME EpochInv, NEW q, RequestHolds(claims, q), q.at \in {"release", "fill"}
  PROVE  /\ q.epoch \in Epochs /\ q.epoch.deleting /\ q.epoch.revision \in Revisions
         /\ claims[q.epoch.revision] = q.epoch /\ q.cursor \in Revisions /\ q.cursor < q.epoch.revision
         /\ q.then = "fence" => 1 <= q.mark
<1>1. /\ q \in Request /\ q.epoch \in Epochs /\ q.epoch.deleting /\ q.epoch.revision \in Revisions
      /\ claims[q.epoch.revision] = q.epoch /\ q.cursor < q.epoch.revision /\ 1 <= q.cursor
      /\ q.cursor \in Nat /\ (q.then = "fence" => 1 <= q.mark)
  BY DEF RequestHolds, EraseHolds, Sound, Request
<1>2. PICK k \in Nat, n \in Nat : k = q.cursor /\ n = q.epoch.revision
  BY <1>1, Numbers
<1>3. 1 <= k /\ k < n /\ n \in 1..(3 * MaxRequests + 1) /\ 3 * MaxRequests + 1 \in Nat
  BY <1>1, <1>2, Numbers DEF Revisions
<1>4. k \in 1..(3 * MaxRequests + 1)
  BY <1>2, <1>3
<1>5. QED
  BY <1>1, <1>2, <1>4 DEF Revisions

LEMMA EraseReleaseKeeps == ASSUME EpochInv, NEW r \in Requests, EraseRelease(r) PROVE EpochInv'
<1>1. PICK q \in Request : q = req[r] /\ RequestHolds(claims, q)
  BY DEF EpochInv
<1>2. /\ q.at = "release" /\ UNCHANGED <<head, row, markers, sessions, begun, granted>>
      /\ HeadHolds(claims, head) /\ EpochShapes /\ ClaimsOK(claims)
  BY <1>1 DEF EraseRelease, EpochInv
<1>3. /\ q.epoch \in Epochs /\ q.epoch.deleting /\ q.epoch.revision \in Revisions
      /\ claims[q.epoch.revision] = q.epoch /\ q.cursor \in Revisions /\ q.cursor < q.epoch.revision
      /\ q.then = "fence" => 1 <= q.mark
  BY <1>1, <1>2, ErasurePlace
<1>4. CASE Finish(r) /\ UNCHANGED claims
  BY <1>2, <1>4, FinishKeeps, ShapesSame
<1>5. CASE /\ claims[q.cursor] \in {q.seen, Zero} /\ claims' = [claims EXCEPT ![q.cursor] = Zero]
           /\ Set(r, [q EXCEPT !.at = "fill"])
  <2>1. claims[q.cursor] = Zero \/ claims[q.cursor].name # 0
    BY <1>1, <1>2, <1>5 DEF RequestHolds, EraseHolds
  <2>2. ClaimsOK(claims') /\ Grows(claims, claims')
    BY <1>2, <1>3, <1>5, <2>1, ReleaseKeeps
  <2>3. PICK n : n = [q EXCEPT !.at = "fill"]
    OBVIOUS
  <2>4. /\ n \in Request /\ n.at = "fill" /\ n.then = q.then /\ n.epoch = q.epoch /\ n.floor = q.floor
        /\ n.mark = q.mark /\ n.cursor = q.cursor
    BY <2>3 DEF Request, Places
  <2>5. 1 <= q.cursor
    BY <1>1, <1>2 DEF RequestHolds, EraseHolds
  <2>6. ScanHolds(claims', n) /\ EraseHolds(n)
    BY <1>3, <2>4, <2>5 DEF ScanHolds, EraseHolds
  <2>7. RequestHolds(claims', q)
    BY <1>1, <2>2, RequestKept
  <2>8. RequestHolds(claims', n)
    BY <2>4, <2>6, <2>7, GoesOn
  <2>9. HeadHolds(claims', head')
    BY <1>2, <2>2, SoundKept DEF HeadHolds
  <2>10. QED
    BY <1>2, <1>5, <2>2, <2>3, <2>8, <2>9, OneMoves, ShapesSame
<1>6. QED
  BY <1>1, <1>4, <1>5 DEF EraseRelease

LEMMA EraseFillKeeps == ASSUME EpochInv, NEW r \in Requests, EraseFill(r) PROVE EpochInv'
<1>1. PICK q \in Request : q = req[r] /\ RequestHolds(claims, q)
  BY DEF EpochInv
<1>2. /\ q.at = "fill" /\ UNCHANGED <<head, row, markers, sessions, begun, granted>>
      /\ HeadHolds(claims, head) /\ EpochShapes /\ ClaimsOK(claims)
  BY <1>1 DEF EraseFill, EpochInv
<1>3. /\ q.epoch \in Epochs /\ q.epoch.deleting /\ q.epoch.revision \in Revisions
      /\ claims[q.epoch.revision] = q.epoch /\ q.cursor \in Revisions /\ q.cursor < q.epoch.revision
      /\ q.then = "fence" => 1 <= q.mark
  BY <1>1, <1>2, ErasurePlace
<1>4. CASE Finish(r) /\ UNCHANGED claims
  BY <1>2, <1>4, FinishKeeps, ShapesSame
<1>5. CASE /\ Free(q.cursor) /\ claims' = [claims EXCEPT ![q.cursor] = Anonymous(q.cursor, q.epoch)]
           /\ Set(r, [q EXCEPT !.at = "erase", !.cursor = @ + 1])
  <2>1. PICK k \in Revisions : k = q.cursor
    BY <1>3
  <2>2. k \in Nat \ {0} /\ q.epoch.revision \in Nat /\ k < q.epoch.revision /\ claims[k] = Zero
    BY <1>3, <1>5, <2>1, Numbers DEF Free
  <2>3. PICK e : e = Anonymous(k, q.epoch)
    OBVIOUS
  <2>4. e = [revision |-> k, name |-> 0, factor |-> 0, fence |-> q.epoch.fence, deleting |-> TRUE,
             generation |-> q.epoch.generation]
    BY <2>3 DEF Anonymous, Zero
  <2>5. e \in Epochs /\ e.revision = k /\ e.name = 0 /\ e.generation = q.epoch.generation /\ e.deleting
    BY <1>3, <2>2, <2>4 DEF Epochs
  <2>6. Reached(claims, k - 1)
    <3>1. q.epoch # Zero
      BY <1>3, ZeroFacts
    <3>2. k - 1 <= q.epoch.revision
      BY <2>2
    <3>3. QED
      BY <1>3, <3>1, <3>2 DEF Reached
  <2>7. DeletedTo(claims, e.generation, k - 1)
    <3>1. DeletedTo(claims, e.generation, q.epoch.revision)
      BY <1>3, <2>5, DeletionRead DEF Sound, Reached, EpochInv, ClaimsOK, DeletionsHold
    <3>2. \A j \in Revisions : j <= k - 1 => j <= q.epoch.revision
      BY <2>2, Numbers
    <3>3. QED
      BY <3>1, <3>2 DEF DeletedTo
  <2>8. ClaimsOK(claims') /\ Grows(claims, claims')
    BY <1>2, <1>5, <2>1, <2>2, <2>3, <2>5, <2>6, <2>7, ClaimKeeps
  <2>9. PICK m \in Nat : m = k + 1 /\ 1 <= m
    BY <2>2
  <2>10. PICK n : n = [q EXCEPT !.at = "erase", !.cursor = m]
    OBVIOUS
  <2>11. /\ n \in Request /\ n.at = "erase" /\ n.then = q.then /\ n.epoch = q.epoch /\ n.floor = q.floor
         /\ n.mark = q.mark /\ n.cursor = m
    BY <2>9, <2>10 DEF Request, Places
  <2>12. ScanHolds(claims', n) /\ EraseHolds(n)
    BY <1>3, <2>9, <2>11 DEF ScanHolds, EraseHolds
  <2>13. RequestHolds(claims', q)
    BY <1>1, <2>8, RequestKept
  <2>14. RequestHolds(claims', n)
    BY <2>11, <2>12, <2>13, GoesOn
  <2>15. HeadHolds(claims', head')
    BY <1>2, <2>8, SoundKept DEF HeadHolds
  <2>16. Set(r, n)
    BY <1>5, <2>1, <2>9, <2>10
  <2>17. QED
    BY <1>2, <2>8, <2>14, <2>15, <2>16, OneMoves, ShapesSame
<1>6. QED
  BY <1>1, <1>4, <1>5 DEF EraseFill

LEMMA ErasePauseKeeps == ASSUME EpochInv, NEW r \in Requests, ErasePause(r) PROVE EpochInv'
<1>1. PICK q \in Request : q = req[r]
  BY DEF EpochInv
<1>2. /\ HeadHolds(claims, head) /\ EpochShapes /\ Finish(r)
      /\ UNCHANGED <<claims, head, row, sessions, begun, granted>>
  BY DEF ErasePause, EpochInv
<1>3. PICK n \in Nat : n = q.cursor
  BY DEF Request
<1>4. markers' = markers \/ markers' = [markers EXCEPT ![q.inc].cursor = n]
  BY <1>1, <1>3 DEF ErasePause
<1>5. markers' \in [Incarnations -> [cursor : Nat, erased : BOOLEAN]]
  BY <1>2, <1>3, <1>4 DEF EpochShapes
<1>6. EpochShapes'
  BY <1>2, <1>5 DEF EpochShapes
<1>7. QED
  BY <1>2, <1>6, FinishKeeps

LEMMA EraseDoneKeeps == ASSUME EpochInv, NEW r \in Requests, EraseDone(r) PROVE EpochInv'
<1>1. PICK q \in Request : q = req[r] /\ RequestHolds(claims, q)
  BY DEF EpochInv
<1>2. /\ HeadHolds(claims, head) /\ EpochShapes /\ UNCHANGED <<claims, head, row, sessions, begun, granted>>
  BY DEF EraseDone, EpochInv
<1>3. PICK n \in Nat : n = q.cursor
  BY DEF Request
<1>4. CASE markers' = [markers EXCEPT ![q.inc] = [cursor |-> n, erased |-> TRUE]] /\ Set(r, Read(q, "revoke"))
  <2>1. markers' \in [Incarnations -> [cursor : Nat, erased : BOOLEAN]]
    BY <1>2, <1>3, <1>4 DEF EpochShapes
  <2>2. EpochShapes'
    BY <1>2, <2>1 DEF EpochShapes
  <2>3. RequestHolds(claims, Read(q, "revoke"))
    BY <1>1, ReadHolds DEF RequestHolds, Purposes
  <2>4. QED
    BY <1>2, <1>4, <2>2, <2>3, QuietMoves
<1>5. CASE Finish(r) /\ UNCHANGED markers
  BY <1>2, <1>5, FinishKeeps, ShapesSame
<1>6. QED
  BY <1>1, <1>3, <1>4, <1>5 DEF EraseDone

(* The row of the account.                                                 *)
LEMMA RemoveRowKeeps == ASSUME EpochInv, NEW r \in Requests, RemoveRow(r) PROVE EpochInv'
<1>1. PICK q \in Request : q = req[r] /\ RequestHolds(claims, q)
  BY DEF EpochInv
<1>2. /\ q.at = "remove" /\ HeadHolds(claims, head) /\ EpochShapes
      /\ UNCHANGED <<claims, head, markers, sessions, begun, granted>>
  BY <1>1 DEF RemoveRow, EpochInv
<1>3. row' \in [inc : Incarnations, state : {"live", "deleting", "none", "registering"}]
  BY <1>2 DEF RemoveRow, EpochShapes
<1>4. EpochShapes'
  BY <1>2, <1>3 DEF EpochShapes
<1>5. CASE Set(r, [q EXCEPT !.at = "enrol"])
  <2>1. PICK n : n = [q EXCEPT !.at = "enrol"]
    OBVIOUS
  <2>2. /\ n \in Request /\ n.at = "enrol" /\ n.then = q.then /\ n.epoch = q.epoch /\ n.floor = q.floor
        /\ n.mark = q.mark
    BY <2>1 DEF Request, Places
  <2>3. ScanHolds(claims, n) /\ EraseHolds(n)
    BY <1>1, <2>2 DEF RequestHolds, ScanHolds, EraseHolds
  <2>4. QED
    BY <1>1, <1>2, <1>4, <1>5, <2>1, <2>2, <2>3, GoesOn, QuietMoves
<1>6. CASE Finish(r)
  BY <1>2, <1>4, <1>6, FinishKeeps
<1>7. QED
  BY <1>1, <1>5, <1>6 DEF RemoveRow

LEMMA EnrolKeeps == ASSUME EpochInv, NEW r \in Requests, Enrol(r) PROVE EpochInv'
<1>1. PICK q \in Request : q = req[r] /\ RequestHolds(claims, q)
  BY DEF EpochInv
<1>2. /\ HeadHolds(claims, head) /\ EpochShapes /\ UNCHANGED <<claims, head, markers, sessions, begun>>
  BY DEF Enrol, EpochInv
<1>3. CASE Finish(r) /\ UNCHANGED <<row, granted>>
  BY <1>2, <1>3, FinishKeeps, ShapesSame
<1>4. CASE /\ row.inc + 1 \in Incarnations /\ row' = [inc |-> row.inc + 1, state |-> "registering"]
           /\ granted' = [granted EXCEPT !.changes = 0]
           /\ Set(r, Read([q EXCEPT !.inc = row.inc + 1, !.tries = 0], "activate"))
  <2>1. PICK i \in Incarnations : i = row.inc + 1
    BY <1>4
  <2>2. EpochShapes'
    BY <1>2, <1>4, <2>1 DEF EpochShapes
  <2>3. PICK n : n = [q EXCEPT !.inc = i, !.tries = 0]
    OBVIOUS
  <2>4. n \in Request /\ n.floor = q.floor
    BY <2>3 DEF Request
  <2>5. Reached(claims, n.floor) /\ "activate" \in Purposes
    BY <1>1, <2>4 DEF RequestHolds, Purposes
  <2>6. RequestHolds(claims, Read(n, "activate"))
    BY <2>4, <2>5, ReadHolds
  <2>7. QED
    BY <1>2, <1>4, <2>1, <2>2, <2>3, <2>6, QuietMoves
<1>5. QED
  BY <1>1, <1>3, <1>4 DEF Enrol

LEMMA EnableKeeps == ASSUME EpochInv, NEW r \in Requests, Enable(r) PROVE EpochInv'
<1>1. /\ HeadHolds(claims, head) /\ EpochShapes /\ Finish(r)
      /\ UNCHANGED <<claims, head, markers, sessions, begun, granted>>
  BY DEF Enable, EpochInv
<1>2. row' \in [inc : Incarnations, state : {"live", "deleting", "none", "registering"}]
  BY <1>1 DEF Enable, EpochShapes
<1>3. EpochShapes'
  BY <1>1, <1>2 DEF EpochShapes
<1>4. QED
  BY <1>1, <1>3, FinishKeeps

LEMMA DieKeeps == ASSUME EpochInv, NEW r \in Requests, Die(r) PROVE EpochInv'
<1>1. /\ HeadHolds(claims, head) /\ EpochShapes /\ Finish(r)
      /\ UNCHANGED <<claims, head, row, markers, sessions, begun, granted>>
  BY DEF Die, EpochInv
<1>2. QED
  BY <1>1, FinishKeeps, ShapesSame

LEMMA EpochSteps == EpochInv /\ [EpochNext]_epochVars => EpochInv'
<1> SUFFICES ASSUME EpochInv, [EpochNext]_epochVars PROVE EpochInv'
  OBVIOUS
<1>1. CASE UNCHANGED epochVars
  BY <1>1 DEF epochVars, EpochInv, EpochShapes, ClaimsOK, NumbersHold, HolesFenced, DeletionsHold,
              DeletedTo, Covered, HeadHolds, Sound, Reached, RequestHolds, ScanHolds
<1>2. CASE EpochNext
  <2>1. PICK r \in Requests : EpochStep(r)
    BY <1>2 DEF EpochNext
  <2>2. CASE Begin(r)
    BY <2>2, BeginKeeps
  <2>3. CASE Reading(r)
    BY <2>3, ReadHeadKeeps, ProbeKeeps, RepairKeeps DEF Reading
  <2>4. CASE Verify(r) \/ Authorised(r) \/ Mint(r)
    BY <2>4, VerifyKeeps, AuthorisedKeeps, MintKeeps
  <2>5. CASE Claiming(r)
    BY <2>5, RevokeKeeps, ChangeFactorKeeps, BeginDeletionKeeps, ActivateKeeps DEF Claiming
  <2>6. CASE PublishHead(r) \/ SwapHead(r)
    BY <2>6, PublishKeeps, SwapKeeps
  <2>7. CASE Erasing(r)
    BY <2>7, EraseLookKeeps, EraseReleaseKeeps, EraseFillKeeps, ErasePauseKeeps, EraseDoneKeeps DEF Erasing
  <2>8. CASE RemoveRow(r) \/ Enrol(r) \/ Enable(r) \/ Die(r)
    BY <2>8, RemoveRowKeeps, EnrolKeeps, EnableKeeps, DieKeeps
  <2>9. QED
    BY <2>1, <2>2, <2>3, <2>4, <2>5, <2>6, <2>7, <2>8 DEF EpochStep
<1>3. QED
  BY <1>1, <1>2

(* What the invariant says of a session that was accepted.                 *)
LEMMA AcceptedCurrent == EpochInv => RevokedStaysOut
<1> SUFFICES ASSUME EpochInv, NEW r \in Requests, req[r].at = "accepted", ~req[r].verified.deleting
             PROVE  req[r].gen >= req[r].floor \/ Overtaken(r)
  BY DEF RevokedStaysOut
<1>1. PICK q \in Request : q = req[r] /\ RequestHolds(claims, q)
  BY DEF EpochInv
<1>2. q.floor <= q.gen \/ Covered(claims, q.seen.revision)
  BY <1>1 DEF RequestHolds, ScanHolds
<1>3. q.floor \in Nat /\ q.gen \in Nat
  BY DEF Request
<1>4. QED
  BY <1>1, <1>2, <1>3 DEF Covered, Overtaken

LEMMA EpochShapesFit == EpochInv => EpochTypeOK
<1> SUFFICES ASSUME EpochInv PROVE EpochTypeOK
  OBVIOUS
<1>1. \A k \in Revisions : claims[k] \in Epochs /\ claims[k].revision \in {0, k}
  BY ZeroFacts DEF EpochInv, ClaimsOK, NumbersHold
<1>2. head \in Epochs /\ Incarnations \subseteq Nat
  BY DEF EpochInv, HeadHolds, Incarnations
<1>3. \A r \in Requests : req[r].epoch \in Epochs /\ req[r].seen \in Epochs /\ req[r].kind \in Kinds \cup {"none"}
  BY DEF EpochInv, Request
<1>4. QED
  BY <1>1, <1>2, <1>3 DEF EpochInv, EpochShapes, EpochTypeOK

(* However many requests read, revoke, delete and register, in any order   *)
(* and dying anywhere: a session is accepted only if no generation after   *)
(* its own had been committed when the request began, or the scan was      *)
(* overtaken by an erasure (verifySession, SessionEpochs.read,             *)
(* AuthMaintenance.eraseFactors).                                          *)
THEOREM RevokedNeverReturns == EpochSpec => [](EpochTypeOK /\ RevokedStaysOut)
<1>1. EpochSpec => []EpochInv
  BY EpochStart, EpochSteps, PTL DEF EpochSpec
<1>2. QED
  BY <1>1, AcceptedCurrent, EpochShapesFit, PTL

-----------------------------------------------------------------------------
(* The factor policy of the account.  The last generation, as a function   *)
(* of the history.                                                         *)
LastIn(c, used) == IF used = {} THEN Zero ELSE c[CHOOSE k \in used : \A j \in used : j <= k]
TopOf(c)        == LastIn(c, {k \in Revisions : c[k] # Zero})

Latest(c, t) ==
  /\ t \in Epochs /\ \A k \in Revisions : c[k] # Zero => k <= t.revision
  /\ t = Zero \/ (t.revision \in Revisions /\ c[t.revision] = t)

(* What a request holds is no newer than the last generation: its fence is *)
(* no later, and a policy under the same fence has the same owner.         *)
KnownTo(t, e) == e.fence <= t.fence /\ (e.name # 0 /\ e.fence = t.fence => t.name = e.name)

(* A record that was read is still there, or an erasure may have taken it. *)
Remembered(c, e) ==
  e = Zero \/ (e.revision \in Revisions /\ (c[e.revision] = e \/ Covered(c, e.revision)))

(* A generation that an erasure has taken out and not yet filled.          *)
Gap(c, k) == c[k] = Zero /\ \E j \in Revisions : k < j /\ c[j] # Zero

(* No policy is in force, and no change that was authorised can make one   *)
(* any more.                                                               *)
Shut ==
  /\ Top.name = 0
  /\ \A s \in Requests : req[s].then = "change" => req[s].verified.fence < Top.fence

(* Nor will one be: the account does not live, and every record with a     *)
(* policy is below n or behind the head.                                   *)
Sealed(n) ==
  /\ row.state # "live" /\ Shut
  /\ \A k \in Revisions : claims[k].name # 0 => k < n \/ k < head.revision

SealedTop == Sealed(Top.revision)

(* The history: the policy of an incarnation that is gone is behind the    *)
(* head, and so is what is being erased; and nothing of the incarnation    *)
(* that is there is below a gap, or a deletion, unless it is sealed.       *)
HistoryStands ==
  /\ \A k \in Revisions :
       /\ KnownTo(Top, claims[k]) /\ (claims[k].deleting => claims[k].generation < Top.revision)
       /\ claims[k].name <= row.inc
       /\ claims[k].name \notin {0, row.inc} => k < head.revision
       /\ Gap(claims, k) => k < head.revision
  /\ \A k, j \in Revisions : Gap(claims, k) /\ j < k /\ claims[j].name = row.inc => Sealed(0)
  /\ Top.deleting => SealedTop
  /\ KnownTo(Top, head) /\ Remembered(claims, head)

PolicyStands ==
  row.state \in {"live", "registering"} =>
    granted.changes = IF Top.name = row.inc THEN Top.factor ELSE 0

(* The row: an account that lives has its policy after every deletion, one *)
(* that is gone or not enabled yet is sealed, and so is one whose history  *)
(* was erased.                                                             *)
RowStands ==
  /\ row.state \in {"none", "registering"} => Sealed(0)
  /\ row.state = "registering" => \A k \in Revisions : claims[k].name # row.inc
  /\ row.state = "live" => \A k, j \in Revisions : claims[k].name = row.inc /\ claims[j].deleting => j < k
  /\ \A i \in Incarnations : markers[i].erased => i <= row.inc
  /\ markers[row.inc].erased => row.state \in {"deleting", "none"} /\ Sealed(0)
  /\ PolicyStands

Scans(q)     == q.at \in {"probe", "repair", "recover", "read"}
Scanned(q)   == q.at \in {"repair", "read"}
Fencing(q)   == q.then = "fence" /\ (Scanned(q) \/ q.at \in {"publish", "swap"}) /\ q.epoch.deleting
Eliding(q)   == q.at \in {"erase", "release", "fill"}
Removing(q)  == (q.then = "revoke" /\ q.inc # 0) \/ q.at = "remove"

(* An erasure that may take out records of the incarnation that is there.  *)
Threatens(q) == q.inc = row.inc \/ \E k \in Revisions : k < q.epoch.revision /\ claims[k].name = row.inc

Informed(q) ==
  /\ q.inc <= row.inc /\ KnownTo(Top, q.epoch) /\ KnownTo(Top, q.verified) /\ Remembered(claims, q.epoch)
  /\ q.then = "change" /\ q.inc # row.inc => q.verified.fence < Top.fence
  /\ q.then \in {"fence", "activate"} /\ Scans(q) /\ q.inc = row.inc =>
       \A k \in Revisions : claims[k].name \notin {0, row.inc} => k < q.seen.revision

Enabling(q) ==
  q.inc = row.inc /\ row.state = "registering" =>
    /\ q.then = "activate" /\ Scans(q) => \A k \in Revisions : Gap(claims, k) => k <= q.seen.revision
    /\ (q.then = "activate" /\ Scanned(q) /\ ~q.epoch.deleting) \/ q.at = "enable" => ~Top.deleting

Deleting(q) ==
  /\ q.inc = row.inc /\ (q.then = "fence" \/ Removing(q)) => row.state \in {"deleting", "none"}
  /\ q.inc = row.inc /\ Removing(q) => Sealed(0)
  /\ q.then = "fence" /\ Scans(q) /\ q.inc = row.inc =>
       \A k \in Revisions : Gap(claims, k) /\ q.seen.revision < k => Sealed(0)
  /\ Fencing(q) /\ Threatens(q) => Sealed(q.epoch.revision)
  /\ Eliding(q) => q.then = "fence" /\ q.epoch.revision <= head.revision
  /\ Eliding(q) /\ Threatens(q) => Sealed(0)
  /\ q.at = "swap" => q.seen.revision < q.epoch.revision

RequestStands(q) == Informed(q) /\ Enabling(q) /\ Deleting(q)

RequestsStand == \A s \in Requests, q \in Request : q = req[s] => RequestStands(q)

Standing == HistoryStands /\ RowStands /\ RequestsStand

FactorInv == ~granted.late => Standing

-----------------------------------------------------------------------------
(* What almost every step does: the same incarnation is there, nothing     *)
(* that was known, remembered or sealed ceases to be, and a new record, a  *)
(* new gap or a new erasure is one that is accounted for.                  *)
RowAdvances ==
  /\ row'.inc = row.inc /\ row'.state \in {row.state, "deleting", "none"}
  /\ row'.state = "none" => row.state = "none" \/ Sealed(0)
  /\ \A i \in Incarnations : markers'[i].erased =>
       \/ markers[i].erased
       \/ i <= row.inc /\ (i = row.inc => row.state \in {"deleting", "none"} /\ Sealed(0))
  /\ PolicyStands'

TopAdvances ==
  /\ \A y \in Epochs : KnownTo(Top, y) => KnownTo(Top', y)
  /\ Top.fence <= Top'.fence /\ Top.revision <= Top'.revision
  /\ Top'.deleting => Top' = Top \/ SealedTop'
  /\ row.state = "registering" /\ Top'.deleting => Top.deleting
  /\ head.revision <= head'.revision /\ KnownTo(Top, head') /\ Remembered(claims, head')

ClaimsAdvance ==
  /\ \A y \in Epochs : Remembered(claims, y) => Remembered(claims', y)
  /\ \A k \in Revisions : \/ claims'[k] = claims[k] \/ claims'[k] = Zero
                          \/ /\ KnownTo(Top', claims'[k])
                             /\ claims'[k].deleting => claims'[k].generation < Top'.revision
  /\ \A k \in Revisions : \/ claims'[k].name = 0 \/ claims'[k] = claims[k]
                          \/ claims'[k] = Top' /\ Top'.name = row.inc /\ Top.revision < k
  /\ \A k \in Revisions : Gap(claims', k) =>
       \/ Gap(claims, k)
       \/ /\ k < head.revision /\ claims[k].name # 0
          /\ (\E j \in Revisions : j <= k /\ claims[j].name = row.inc) => Sealed(0)
  /\ row.state = "live" =>
       \A k, j \in Revisions : claims'[k].name = row.inc /\ claims'[j].deleting => claims[j].deleting \/ j < k

Advances ==
  /\ RowAdvances /\ TopAdvances /\ ClaimsAdvance
  /\ \A m \in Nat : Sealed(m) => Sealed(m)'

LEMMA TopLatest == ASSUME NEW c, ClaimsOK(c) PROVE Latest(c, TopOf(c))
<1> DEFINE used == {k \in Revisions : c[k] # Zero}
<1>1. used \subseteq 1..(3 * MaxRequests + 1) /\ 3 * MaxRequests + 1 \in Nat
  BY Numbers DEF Revisions
<1>2. CASE used = {}
  <2>1. TopOf(c) = Zero
    BY <1>2 DEF TopOf, LastIn
  <2>2. QED
    BY <1>2, <2>1, ZeroFacts DEF Latest
<1>3. CASE used # {}
  <2>1. \E m \in used : \A j \in used : j <= m
    BY <1>1, <1>3, LargestNumber
  <2>2. PICK k \in used : k = CHOOSE m \in used : \A j \in used : j <= m
    BY <2>1
  <2>3. TopOf(c) = c[k] /\ \A j \in used : j <= k
    BY <1>3, <2>1, <2>2 DEF TopOf, LastIn
  <2>4. k \in Revisions /\ c[k] \in Epochs /\ c[k].revision = k
    BY DEF ClaimsOK, NumbersHold
  <2>5. QED
    BY <2>3, <2>4 DEF Latest
<1>4. QED
  BY <1>2, <1>3

LEMMA Tops ==
  ASSUME EpochInv, EpochInv'
  PROVE  Latest(claims, Top) /\ Latest(claims', Top')
<1>1. Top = TopOf(claims)
  <2>1. Top = LastIn(claims, {k \in Revisions : ~Free(k)})
    BY Zenon DEF Top, LastIn
  <2>2. {k \in Revisions : ~Free(k)} = {k \in Revisions : claims[k] # Zero}
    BY DEF Free
  <2>3. QED
    BY <2>1, <2>2 DEF TopOf
<1>2. Top' = TopOf(claims')
  <2>1. Top' = LastIn(claims', {k \in Revisions : ~Free(k)'})
    BY Zenon DEF Top, LastIn
  <2>2. {k \in Revisions : ~Free(k)'} = {k \in Revisions : claims'[k] # Zero}
    BY DEF Free
  <2>3. QED
    BY <2>1, <2>2 DEF TopOf
<1>3. ClaimsOK(claims) /\ ClaimsOK(claims')
  BY DEF EpochInv
<1>4. QED
  BY <1>1, <1>2, <1>3, TopLatest

LEMMA LatestOne ==
  ASSUME NEW c, ClaimsOK(c), NEW t, Latest(c, t), NEW u \in Epochs, u = Zero \/ u.revision \in Revisions,
         u # Zero => c[u.revision] = u, \A k \in Revisions : c[k] # Zero => k <= u.revision
  PROVE  t = u
<1>1. t \in Epochs /\ (t = Zero \/ (t.revision \in Revisions /\ c[t.revision] = t))
  BY DEF Latest
<1>2. t.revision \in Nat /\ u.revision \in Nat /\ Revisions \subseteq Nat \ {0} /\ Zero.revision = 0
  BY <1>1, Numbers, ZeroFacts DEF Epochs
<1>3. t # Zero => t.revision <= u.revision
  BY <1>1
<1>4. u # Zero => u.revision <= t.revision
  BY DEF Latest
<1>5. QED
  BY <1>1, <1>2, <1>3, <1>4

LEMMA EpochFacts ==
  ASSUME EpochInv, EpochInv'
  PROVE  /\ Top \in Epochs /\ Top' \in Epochs /\ head \in Epochs /\ head' \in Epochs
         /\ claims \in [Revisions -> Epochs] /\ claims' \in [Revisions -> Epochs]
         /\ row.inc \in Incarnations /\ row.inc \in Nat /\ Revisions \subseteq Nat \ {0}
         /\ row'.inc \in Incarnations /\ row'.inc \in Nat
         /\ row.state \in {"live", "deleting", "none", "registering"}
         /\ row'.state \in {"live", "deleting", "none", "registering"}
<1>1. Latest(claims, Top) /\ Latest(claims', Top')
  BY Tops
<1>2. Top \in Epochs /\ Top' \in Epochs
  BY <1>1 DEF Latest
<1>3. claims \in [Revisions -> Epochs] /\ claims' \in [Revisions -> Epochs] /\ Revisions \subseteq Nat \ {0}
  BY Numbers DEF EpochInv, ClaimsOK
<1>4. EpochShapes /\ EpochShapes'
  BY DEF EpochInv
<1>5. head \in Epochs /\ head' \in Epochs
  BY DEF EpochInv, HeadHolds
<1>6. row.inc \in Incarnations /\ row'.inc \in Incarnations /\ Incarnations \subseteq Nat
  BY <1>4 DEF EpochShapes, Incarnations
<1>7. /\ row.state \in {"live", "deleting", "none", "registering"}
      /\ row'.state \in {"live", "deleting", "none", "registering"}
  BY <1>4 DEF EpochShapes
<1>8. QED
  BY <1>2, <1>3, <1>5, <1>6, <1>7

LEMMA HistoryGoesOn ==
  ASSUME EpochInv, EpochInv', Standing, Advances
  PROVE  HistoryStands'
<1>1. /\ Top \in Epochs /\ Top' \in Epochs /\ head \in Epochs /\ head' \in Epochs
      /\ claims \in [Revisions -> Epochs] /\ claims' \in [Revisions -> Epochs]
      /\ row.inc \in Nat /\ Revisions \subseteq Nat \ {0}
  BY EpochFacts
<1>2. HistoryStands /\ RowAdvances /\ TopAdvances /\ ClaimsAdvance /\ \A m \in Nat : Sealed(m) => Sealed(m)'
  BY DEF Standing, Advances
<1>3. row'.inc = row.inc /\ (Sealed(0) => Sealed(0)')
  BY <1>2 DEF RowAdvances
<1>4. Latest(claims', Top') /\ NumbersHold(claims')
  BY Tops DEF EpochInv, ClaimsOK
<1>5. ASSUME NEW k \in Revisions PROVE KnownTo(Top', claims'[k]) /\ (claims'[k].deleting => claims'[k].generation < Top'.revision)
  <2>1. CASE claims'[k] = claims[k]
    <3>1. KnownTo(Top, claims[k]) /\ (claims[k].deleting => claims[k].generation < Top.revision) /\ claims[k] \in Epochs
      BY <1>1, <1>2 DEF HistoryStands
    <3>2. KnownTo(Top', claims[k]) /\ Top.revision <= Top'.revision
      BY <1>2, <3>1 DEF TopAdvances
    <3>3. claims[k].generation \in Nat /\ Top.revision \in Nat /\ Top'.revision \in Nat
      BY <1>1, <3>1 DEF Epochs
    <3>4. claims[k].deleting => claims[k].generation < Top'.revision
      BY <3>1, <3>2, <3>3
    <3>5. QED
      BY <2>1, <3>2, <3>4
  <2>2. CASE claims'[k] = Zero
    BY <1>1, <2>2, ZeroFacts DEF KnownTo, Epochs
  <2>3. QED
    BY <1>2, <2>1, <2>2 DEF ClaimsAdvance
<1>6. ASSUME NEW k \in Revisions PROVE claims'[k].name <= row.inc /\ (claims'[k].name \notin {0, row.inc} => k < head'.revision)
  <2>1. CASE claims'[k].name \in {0, row.inc}
    BY <1>1, <2>1
  <2>2. CASE claims'[k].name \notin {0, row.inc}
    <3>1. claims'[k] = claims[k]
      BY <1>2, <2>2 DEF ClaimsAdvance
    <3>2. claims[k].name <= row.inc /\ k < head.revision
      BY <1>2, <2>2, <3>1 DEF HistoryStands
    <3>3. k \in Nat /\ head.revision \in Nat /\ head'.revision \in Nat /\ head.revision <= head'.revision
      BY <1>1, <1>2 DEF Epochs, TopAdvances
    <3>4. QED
      BY <3>1, <3>2, <3>3
  <2>3. QED
    BY <2>1, <2>2
<1>7. ASSUME NEW k \in Revisions, Gap(claims', k) PROVE k < head'.revision
  <2>1. k < head.revision
    BY <1>2, <1>7 DEF HistoryStands, ClaimsAdvance
  <2>2. k \in Nat /\ head.revision \in Nat /\ head'.revision \in Nat /\ head.revision <= head'.revision
    BY <1>1, <1>2 DEF Epochs, TopAdvances
  <2>3. QED
    BY <2>1, <2>2
<1>8. ASSUME NEW k \in Revisions, NEW j \in Revisions, Gap(claims', k), j < k, claims'[j].name = row.inc
      PROVE  Sealed(0)'
  <2>1. row.inc # 0
    BY EpochFacts DEF Incarnations
  <2>2. claims'[j] = claims[j]
    <3>1. ASSUME claims'[j] = Top' PROVE FALSE
      <4>1. PICK n \in Revisions : k < n /\ claims'[n] # Zero
        BY <1>8 DEF Gap
      <4>2. n <= Top'.revision
        BY <1>4, <4>1 DEF Latest
      <4>3. claims'[j] # Zero
        BY <1>8, <2>1, ZeroFacts
      <4>4. Top'.revision = j
        BY <1>4, <3>1, <4>3 DEF NumbersHold
      <4>5. j \in Nat /\ k \in Nat /\ n \in Nat
        BY <1>1
      <4>6. QED
        BY <1>8, <4>1, <4>2, <4>4, <4>5
    <3>2. QED
      BY <1>2, <1>8, <2>1, <3>1 DEF ClaimsAdvance
  <2>3. j <= k
    BY <1>1, <1>8
  <2>4. CASE Gap(claims, k)
    BY <1>2, <1>3, <1>8, <2>2, <2>4 DEF HistoryStands
  <2>5. CASE ~Gap(claims, k)
    BY <1>2, <1>3, <1>8, <2>2, <2>3, <2>5 DEF ClaimsAdvance
  <2>6. QED
    BY <2>4, <2>5
<1>9. Top'.deleting => SealedTop'
  <2>1. ASSUME Top' = Top, Top.deleting PROVE SealedTop'
    <3>1. PICK m \in Nat : m = Top.revision /\ m = Top'.revision
      BY <1>1, <2>1 DEF Epochs
    <3>2. Sealed(m)
      BY <1>2, <2>1, <3>1 DEF HistoryStands, SealedTop
    <3>3. Sealed(m)'
      BY <1>2, <3>2
    <3>4. QED
      BY <3>1, <3>3 DEF SealedTop, Sealed
  <2>2. QED
    BY <1>2, <2>1 DEF TopAdvances
<1>10. KnownTo(Top', head') /\ Remembered(claims', head')
  BY <1>1, <1>2 DEF TopAdvances, ClaimsAdvance
<1>11. QED
  BY <1>3, <1>5, <1>6, <1>7, <1>8, <1>9, <1>10 DEF HistoryStands

LEMMA RowGoesOn ==
  ASSUME EpochInv, EpochInv', Standing, Advances
  PROVE  RowStands'
<1>1. /\ Top \in Epochs /\ Top' \in Epochs /\ head \in Epochs /\ head' \in Epochs
      /\ claims \in [Revisions -> Epochs] /\ claims' \in [Revisions -> Epochs]
      /\ row.inc \in Incarnations /\ row.inc \in Nat /\ Revisions \subseteq Nat \ {0}
  BY EpochFacts
<1>2. RowStands /\ RowAdvances /\ TopAdvances /\ ClaimsAdvance /\ (Sealed(0) => Sealed(0)')
  BY DEF Standing, Advances
<1>3. row'.inc = row.inc /\ row.inc # 0 /\ Latest(claims, Top)
  BY <1>1, <1>2, Tops DEF RowAdvances, Incarnations
<1>4. row'.state \in {"none", "registering"} => Sealed(0)'
  BY <1>2 DEF RowAdvances, RowStands
<1>5. ASSUME row'.state = "registering", NEW k \in Revisions PROVE claims'[k].name # row'.inc
  <2>1. row.state = "registering" /\ Sealed(0)'
    BY <1>2, <1>4, <1>5 DEF RowAdvances
  <2>2. claims[k].name # row.inc /\ Top'.name = 0
    BY <1>2, <2>1 DEF RowStands, Sealed, Shut
  <2>3. QED
    BY <1>2, <1>3, <2>2 DEF ClaimsAdvance
<1>6. ASSUME row'.state = "live", NEW k \in Revisions, NEW j \in Revisions,
             claims'[k].name = row'.inc, claims'[j].deleting
      PROVE  j < k
  <2>1. row.state = "live"
    BY <1>2, <1>6 DEF RowAdvances
  <2>2. SUFFICES ASSUME claims[j].deleting PROVE j < k
    BY <1>2, <1>3, <1>6, <2>1 DEF ClaimsAdvance
  <2>3. CASE claims'[k] = claims[k]
    BY <1>2, <1>3, <1>6, <2>1, <2>2, <2>3 DEF RowStands
  <2>4. CASE claims'[k] # claims[k]
    <3>1. Top.revision < k
      BY <1>2, <1>3, <1>6, <2>4 DEF ClaimsAdvance
    <3>2. claims[j] # Zero
      BY <2>2, ZeroFacts
    <3>3. j <= Top.revision /\ Top.revision \in Nat /\ j \in Nat /\ k \in Nat
      BY <1>1, <1>3, <3>2 DEF Latest, Epochs
    <3>4. QED
      BY <3>1, <3>3
  <2>5. QED
    BY <2>3, <2>4
<1>7. \A i \in Incarnations : markers'[i].erased => i <= row'.inc
  BY <1>2, <1>3 DEF RowStands, RowAdvances
<1>8. markers'[row'.inc].erased => row'.state \in {"deleting", "none"} /\ Sealed(0)'
  <2>1. ASSUME markers'[row.inc].erased PROVE row.state \in {"deleting", "none"} /\ Sealed(0)
    BY <1>1, <1>2, <2>1 DEF RowStands, RowAdvances
  <2>2. QED
    BY <1>2, <1>3, <2>1 DEF RowAdvances
<1>9. PolicyStands'
  BY <1>2 DEF RowAdvances
<1>10. QED
  BY <1>4, <1>5, <1>6, <1>7, <1>8, <1>9 DEF RowStands

LEMMA RequestGoesOn ==
  ASSUME EpochInv, EpochInv', Standing, Advances, NEW q \in Request, q.epoch.revision <= Top.revision,
         RequestStands(q)
  PROVE  RequestStands(q)'
<1>1. /\ Top \in Epochs /\ Top' \in Epochs /\ head \in Epochs /\ head' \in Epochs
      /\ claims \in [Revisions -> Epochs] /\ claims' \in [Revisions -> Epochs]
      /\ row.inc \in Incarnations /\ row.inc \in Nat /\ Revisions \subseteq Nat \ {0}
  BY EpochFacts
<1>2. HistoryStands /\ RowStands /\ RowAdvances /\ TopAdvances /\ ClaimsAdvance /\ \A m \in Nat : Sealed(m) => Sealed(m)'
  BY DEF Standing, Advances
<1>3. row'.inc = row.inc /\ row.inc # 0 /\ (Sealed(0) => Sealed(0)')
  BY <1>1, <1>2 DEF RowAdvances, Incarnations
<1>4. Informed(q) /\ Enabling(q) /\ Deleting(q) /\ q.epoch \in Epochs /\ q.verified \in Epochs /\ q.seen \in Epochs
  BY DEF RequestStands, Request
<1>5. /\ q.epoch.revision \in Nat /\ q.seen.revision \in Nat /\ q.verified.fence \in Nat
      /\ Top.revision \in Nat /\ Top.fence \in Nat /\ Top'.fence \in Nat
      /\ head.revision \in Nat /\ head'.revision \in Nat
  BY <1>1, <1>4 DEF Epochs
<1>6. \A k \in Revisions : claims'[k].name \notin {0, row.inc} => claims'[k] = claims[k]
  BY <1>2 DEF ClaimsAdvance
<1>7. Informed(q)'
  <2>1. KnownTo(Top', q.epoch) /\ KnownTo(Top', q.verified) /\ Remembered(claims', q.epoch)
    BY <1>2, <1>4 DEF Informed, TopAdvances, ClaimsAdvance
  <2>2. q.then = "change" /\ q.inc # row.inc => q.verified.fence < Top'.fence
    BY <1>2, <1>4, <1>5 DEF Informed, TopAdvances
  <2>3. QED
    BY <1>3, <1>4, <1>6, <2>1, <2>2 DEF Informed
<1>8. ASSUME NEW k \in Revisions, Gap(claims', k), ~Gap(claims, k), q.then \in {"fence", "activate"}, Scans(q),
             q.inc = row.inc, q.seen.revision < k
      PROVE  claims[k].name = row.inc /\ Sealed(0)
  <2>1. claims[k].name # 0 /\ ((\E j \in Revisions : j <= k /\ claims[j].name = row.inc) => Sealed(0))
    BY <1>2, <1>8 DEF ClaimsAdvance
  <2>2. k \in Nat /\ k <= k
    BY <1>1
  <2>3. claims[k].name = row.inc
    BY <1>4, <1>5, <1>8, <2>1, <2>2 DEF Informed
  <2>4. QED
    BY <2>1, <2>2, <2>3
<1>9. Enabling(q)'
  <2>1. SUFFICES ASSUME q.inc = row.inc, row'.state = "registering"
                 PROVE  /\ q.then = "activate" /\ Scans(q) => \A k \in Revisions : Gap(claims', k) => k <= q.seen.revision
                        /\ (q.then = "activate" /\ Scanned(q) /\ ~q.epoch.deleting) \/ q.at = "enable" => ~Top'.deleting
    BY <1>3 DEF Enabling
  <2>2. row.state = "registering"
    BY <1>2, <2>1 DEF RowAdvances
  <2>3. ASSUME q.then = "activate", Scans(q), NEW k \in Revisions, Gap(claims', k) PROVE k <= q.seen.revision
    <3>1. CASE Gap(claims, k)
      BY <1>4, <2>1, <2>2, <2>3, <3>1 DEF Enabling
    <3>2. CASE ~Gap(claims, k)
      <4>1. claims[k].name # row.inc
        BY <1>2, <2>2 DEF RowStands
      <4>2. ~(q.seen.revision < k) /\ k \in Nat
        BY <1>1, <1>8, <2>1, <2>3, <3>2, <4>1
      <4>3. QED
        BY <1>5, <4>2
    <3>3. QED
      BY <3>1, <3>2
  <2>4. (q.then = "activate" /\ Scanned(q) /\ ~q.epoch.deleting) \/ q.at = "enable" => ~Top'.deleting
    BY <1>2, <1>4, <2>1, <2>2 DEF Enabling, TopAdvances
  <2>5. QED
    BY <2>3, <2>4
<1>10. Deleting(q)'
  <2>1. q.inc = row.inc /\ (q.then = "fence" \/ Removing(q)) => row'.state \in {"deleting", "none"}
    BY <1>2, <1>4 DEF Deleting, RowAdvances
  <2>2. q.inc = row.inc /\ Removing(q) => Sealed(0)'
    BY <1>3, <1>4 DEF Deleting
  <2>3. ASSUME q.then = "fence", Scans(q), q.inc = row.inc, NEW k \in Revisions, Gap(claims', k), q.seen.revision < k
        PROVE  Sealed(0)'
    <3>1. CASE Gap(claims, k)
      BY <1>3, <1>4, <2>3, <3>1 DEF Deleting
    <3>2. CASE ~Gap(claims, k)
      BY <1>3, <1>8, <2>3, <3>2
    <3>3. QED
      BY <3>1, <3>2
  <2>4. ASSUME Threatens(q)' PROVE Threatens(q)
    <3>1. CASE q.inc = row.inc
      BY <3>1 DEF Threatens
    <3>2. ASSUME NEW k \in Revisions, k < q.epoch.revision, claims'[k].name = row.inc PROVE Threatens(q)
      <4>1. k \in Nat /\ ~(Top.revision < k)
        BY <1>1, <1>5, <3>2
      <4>2. claims'[k] = claims[k]
        BY <1>2, <1>3, <3>2, <4>1 DEF ClaimsAdvance
      <4>3. QED
        BY <3>2, <4>2 DEF Threatens
    <3>3. QED
      BY <1>3, <2>4, <3>1, <3>2 DEF Threatens
  <2>5. Fencing(q) /\ Threatens(q)' => Sealed(q.epoch.revision)'
    <3>1. PICK m \in Nat : m = q.epoch.revision
      BY <1>5
    <3>2. Fencing(q) /\ Threatens(q)' => Sealed(m)'
      BY <1>2, <1>4, <2>4, <3>1 DEF Deleting
    <3>3. QED
      BY <3>1, <3>2
  <2>6. Eliding(q) => q.then = "fence" /\ q.epoch.revision <= head'.revision
    BY <1>2, <1>4, <1>5 DEF Deleting, TopAdvances
  <2>7. Eliding(q) /\ Threatens(q)' => Sealed(0)'
    BY <1>3, <1>4, <2>4 DEF Deleting
  <2>8. q.at = "swap" => q.seen.revision < q.epoch.revision
    BY <1>4 DEF Deleting
  <2>9. QED
    BY <1>3, <2>1, <2>2, <2>3, <2>5, <2>6, <2>7, <2>8 DEF Deleting
<1>11. QED
  BY <1>7, <1>9, <1>10 DEF RequestStands

LEMMA NoneAbove ==
  ASSUME NEW c, ClaimsOK(c), NEW t, Latest(c, t), NEW m \in Nat, Reached(c, m)
  PROVE  m <= t.revision
<1>1. t.revision \in Nat /\ Revisions \subseteq Nat \ {0}
  BY Numbers DEF Latest, Epochs
<1>2. CASE m = 0
  BY <1>1, <1>2
<1>3. ASSUME NEW j \in Revisions, m <= j, c[j] # Zero PROVE m <= t.revision
  <2>1. j <= t.revision /\ j \in Nat
    BY <1>1, <1>3 DEF Latest
  <2>2. QED
    BY <1>1, <1>3, <2>1
<1>4. QED
  BY <1>2, <1>3 DEF Reached

(* What was read is no later than the last generation.                     *)
LEMMA ReadBelow ==
  ASSUME EpochInv, EpochInv'
  PROVE  /\ head.revision <= Top.revision /\ head'.revision <= Top'.revision
         /\ \A s \in Requests : /\ req[s].epoch.revision <= Top.revision
                                /\ req'[s].epoch.revision <= Top'.revision
<1>1. Latest(claims, Top) /\ Latest(claims', Top') /\ ClaimsOK(claims) /\ ClaimsOK(claims')
  BY Tops DEF EpochInv
<1>2. /\ head.revision \in Nat /\ Reached(claims, head.revision)
      /\ head'.revision \in Nat /\ Reached(claims', head'.revision)
  BY DEF EpochInv, HeadHolds, Sound, Epochs
<1>3. ASSUME NEW s \in Requests
      PROVE  /\ req[s].epoch.revision \in Nat /\ Reached(claims, req[s].epoch.revision)
             /\ req'[s].epoch.revision \in Nat /\ Reached(claims', req'[s].epoch.revision)
  <2>1. RequestHolds(claims, req[s]) /\ RequestHolds(claims', req'[s]) /\ req[s] \in Request /\ req'[s] \in Request
    BY DEF EpochInv
  <2>2. req[s].epoch \in Epochs /\ req'[s].epoch \in Epochs
    BY <2>1 DEF Request
  <2>3. QED
    BY <2>1, <2>2 DEF RequestHolds, Sound, Epochs
<1>4. QED
  BY <1>1, <1>2, <1>3, NoneAbove

LEMMA TopSame ==
  ASSUME EpochInv, EpochInv', claims' = claims
  PROVE  Top' = Top
<1>1. Latest(claims, Top) /\ Latest(claims, Top') /\ ClaimsOK(claims)
  BY Tops DEF EpochInv
<1>2. QED
  BY <1>1, LatestOne DEF Latest

LEMMA AllGoOn ==
  ASSUME EpochInv, EpochInv', Standing, Advances, NEW r \in Requests, NEW n, Set(r, n),
         (RequestStands(n) /\ claims' = claims) \/ RequestStands(n)'
  PROVE  Standing'
<1>1. req \in [Requests -> Request] /\ req' \in [Requests -> Request]
  BY DEF EpochInv
<1>2. req'[r] = n /\ n \in Request /\ \A s \in Requests \ {r} : req'[s] = req[s]
  BY <1>1 DEF Set
<1>3. ASSUME claims' = claims, RequestStands(n) PROVE RequestStands(n)'
  <2>1. Top' = Top
    BY <1>3, TopSame
  <2>2. n.epoch.revision <= Top.revision
    BY <1>2, <2>1, ReadBelow
  <2>3. QED
    BY <1>2, <1>3, <2>2, RequestGoesOn
<1>4. ASSUME NEW s \in Requests, NEW q \in Request, q = req'[s] PROVE RequestStands(q)'
  <2>1. CASE s = r
    BY <1>2, <1>3, <1>4, <2>1
  <2>2. CASE s # r
    <3>1. q = req[s]
      BY <1>2, <1>4, <2>2
    <3>2. RequestStands(q) /\ q.epoch.revision <= Top.revision
      BY <3>1, ReadBelow DEF Standing, RequestsStand
    <3>3. QED
      BY <3>2, RequestGoesOn
  <2>3. QED
    BY <2>1, <2>2
<1>5. RequestsStand'
  BY <1>4 DEF RequestsStand
<1>6. QED
  BY <1>5, HistoryGoesOn, RowGoesOn DEF Standing

(* Most steps are of one request and leave the history alone.  The row may *)
(* be marked, or removed once it is sealed; the head may go forward.       *)
RowCalm ==
  /\ row' = row \/ (row'.inc = row.inc /\ (row'.state = "deleting" \/ (row'.state = "none" /\ Sealed(0))))
  /\ \A i \in Incarnations : markers'[i].erased =>
       \/ markers[i].erased
       \/ i <= row.inc /\ (i = row.inc => row.state \in {"deleting", "none"} /\ Sealed(0))

HeadCalm == head' = head \/ (head.revision <= head'.revision /\ KnownTo(Top, head') /\ Remembered(claims, head'))

ChangeCalm(q, n) == n.then = "change" => row.state = "live" \/ (q.then = "change" /\ n.verified = q.verified)

Calm(r, q, n) ==
  /\ q = req[r] /\ Set(r, n) /\ claims' = claims /\ granted' = granted
  /\ RowCalm /\ HeadCalm /\ ChangeCalm(q, n)

LEMMA CalmAdvances ==
  ASSUME EpochInv, EpochInv', Standing, NEW r \in Requests, NEW q, NEW n, Calm(r, q, n)
  PROVE  Advances
<1>1. /\ Top \in Epochs /\ Top' \in Epochs /\ head \in Epochs /\ head' \in Epochs
      /\ claims \in [Revisions -> Epochs] /\ claims' \in [Revisions -> Epochs]
      /\ row.inc \in Incarnations /\ row.inc \in Nat /\ Revisions \subseteq Nat \ {0}
  BY EpochFacts
<1>2. /\ HistoryStands /\ RowStands /\ claims' = claims /\ granted' = granted /\ Set(r, n) /\ q = req[r]
      /\ RowCalm /\ HeadCalm /\ ChangeCalm(q, n) /\ Top' = Top
  BY TopSame DEF Standing, Calm
<1>3. head.revision <= head'.revision /\ KnownTo(Top, head') /\ Remembered(claims, head')
  BY <1>1, <1>2 DEF HeadCalm, HistoryStands, Epochs
<1>4. TopAdvances
  BY <1>1, <1>2, <1>3 DEF TopAdvances, Epochs
<1>5. ClaimsAdvance
  BY <1>2 DEF ClaimsAdvance
<1>6. PolicyStands'
  <2>1. row' = row \/ row'.state \notin {"live", "registering"}
    BY <1>2 DEF RowCalm
  <2>2. PolicyStands
    BY <1>2 DEF RowStands
  <2>3. QED
    BY <1>2, <2>1, <2>2 DEF PolicyStands
<1>7. RowAdvances
  BY <1>2, <1>6 DEF RowAdvances, RowCalm
<1>8. row.state # "live" => row'.state # "live"
  BY <1>2 DEF RowCalm
<1>9. ASSUME row.state # "live", Shut PROVE Shut'
  <2>1. req' = [req EXCEPT ![r] = n] /\ req \in [Requests -> Request]
    BY <1>2 DEF Set, EpochInv
  <2>2. ASSUME NEW s \in Requests, req'[s].then = "change" PROVE req'[s].verified.fence < Top.fence
    <3>1. CASE s = r
      BY <1>2, <1>9, <2>1, <2>2, <3>1 DEF ChangeCalm, Shut
    <3>2. CASE s # r
      BY <1>9, <2>1, <2>2, <3>2 DEF Shut
    <3>3. QED
      BY <3>1, <3>2
  <2>3. QED
    BY <1>2, <1>9, <2>2 DEF Shut
<1>10. ASSUME NEW m \in Nat, Sealed(m) PROVE Sealed(m)'
  <2>1. ASSUME NEW k \in Revisions, claims[k].name # 0 PROVE k < m \/ k < head'.revision
    <3>1. k < m \/ k < head.revision
      BY <1>10, <2>1 DEF Sealed
    <3>2. k \in Nat /\ head.revision \in Nat /\ head'.revision \in Nat
      BY <1>1 DEF Epochs
    <3>3. QED
      BY <1>3, <3>1, <3>2
  <2>2. QED
    BY <1>2, <1>8, <1>9, <1>10, <2>1 DEF Sealed
<1>11. QED
  BY <1>4, <1>5, <1>7, <1>10 DEF Advances

LEMMA CalmStands ==
  ASSUME EpochInv, EpochInv', Standing, NEW r \in Requests, NEW q, NEW n, Calm(r, q, n),
         RequestStands(n) \/ RequestStands(n)'
  PROVE  Standing'
<1>1. Advances /\ Set(r, n) /\ claims' = claims
  BY CalmAdvances DEF Calm
<1>2. QED
  BY <1>1, AllGoOn

-----------------------------------------------------------------------------
(* A request that read as far as the last generation read the last.        *)
LEMMA TopOnly ==
  ASSUME EpochInv, EpochInv', Standing, NEW e \in Epochs, Remembered(claims, e), e.revision = Top.revision
  PROVE  e = Top
<1>1. Latest(claims, Top) /\ claims \in [Revisions -> Epochs] /\ Revisions \subseteq Nat \ {0} /\ Top \in Epochs
  BY Tops, EpochFacts
<1>2. PICK t \in Nat : t = Top.revision /\ t = e.revision
  BY <1>1 DEF Epochs
<1>3. Top = Zero \/ (t \in Revisions /\ claims[t] = Top)
  BY <1>1, <1>2 DEF Latest
<1>4. CASE e = Zero
  BY <1>1, <1>2, <1>3, <1>4, ZeroFacts
<1>5. CASE t \in Revisions /\ claims[t] = e
  BY <1>1, <1>2, <1>3, <1>5, ZeroFacts
<1>6. CASE Covered(claims, t)
  <2>1. PICK j \in Revisions : claims[j].deleting /\ t <= claims[j].generation
    BY <1>6 DEF Covered
  <2>2. claims[j].generation < Top.revision /\ claims[j].generation \in Nat
    BY <1>1, <2>1 DEF Standing, HistoryStands, Epochs
  <2>3. QED
    BY <1>2, <2>1, <2>2
<1>7. QED
  BY <1>2, <1>4, <1>5, <1>6 DEF Remembered

(* A claim that is not late is one of the generation after the last, by a  *)
(* request that read the last.                                             *)
LEMMA ClaimsOnTop ==
  ASSUME EpochInv, EpochInv', Standing, NEW r \in Requests, NEW q \in Request, q = req[r],
         NEW e \in Epochs, e.revision = q.epoch.revision + 1, ~TooLate(e), Free(e.revision)
  PROVE  q.epoch = Top
<1>1. Latest(claims, Top)
  BY Tops
<1>2. q.epoch.revision <= Top.revision /\ q.epoch \in Epochs /\ Remembered(claims, q.epoch)
  BY ReadBelow DEF Standing, RequestsStand, RequestStands, Informed, Request
<1>3. PICK t \in Nat, k \in Nat : t = Top.revision /\ k = q.epoch.revision
  BY <1>1, <1>2 DEF Latest, Epochs
<1>4. k <= t /\ ~(k + 1 < t)
  BY <1>2, <1>3 DEF TooLate
<1>5. CASE k + 1 = t
  <2>1. Top # Zero
    BY <1>3, <1>5, ZeroFacts
  <2>2. t \in Revisions /\ claims[t] = Top
    BY <1>1, <1>3, <2>1 DEF Latest
  <2>3. Free(t)
    BY <1>3, <1>5
  <2>4. QED
    BY <2>1, <2>2, <2>3 DEF Free
<1>6. CASE k = t
  BY <1>2, <1>3, <1>6, TopOnly
<1>7. QED
  BY <1>3, <1>4, <1>5, <1>6

LEMMA ClaimTop ==
  ASSUME EpochInv, EpochInv', NEW e \in Epochs, e.revision = Top.revision + 1, e.revision \in Revisions,
         claims' = [claims EXCEPT ![e.revision] = e]
  PROVE  /\ Top' = e /\ claims[e.revision] = Zero /\ claims'[e.revision] = e
         /\ \A k \in Revisions : k # e.revision => claims'[k] = claims[k]
<1>1. Latest(claims, Top) /\ Latest(claims', Top') /\ ClaimsOK(claims')
  BY Tops DEF EpochInv
<1>2. claims \in [Revisions -> Epochs] /\ Revisions \subseteq Nat \ {0} /\ Top \in Epochs
  BY EpochFacts
<1>3. PICK t \in Nat : t = Top.revision /\ e.revision = t + 1
  BY <1>2 DEF Epochs
<1>4. claims'[e.revision] = e /\ \A k \in Revisions : k # e.revision => claims'[k] = claims[k]
  BY <1>2
<1>5. ASSUME NEW k \in Revisions, claims[k] # Zero PROVE k <= t
  BY <1>1, <1>3, <1>5 DEF Latest
<1>6. claims[e.revision] = Zero
  BY <1>3, <1>5
<1>7. ASSUME NEW k \in Revisions, claims'[k] # Zero PROVE k <= e.revision
  BY <1>2, <1>3, <1>4, <1>5, <1>7
<1>8. Top' = e
  <2>1. PICK c : c = claims'
    OBVIOUS
  <2>2. ClaimsOK(c) /\ Latest(c, Top') /\ c[e.revision] = e /\ \A k \in Revisions : c[k] # Zero => k <= e.revision
    BY <1>1, <1>4, <1>7, <2>1
  <2>3. QED
    BY <2>2, LatestOne
<1>9. QED
  BY <1>4, <1>6, <1>8

LEMMA ClaimAdvances ==
  ASSUME EpochInv, EpochInv', Standing, NEW r \in Requests, NEW n, Set(r, n), n.then # "change",
         UNCHANGED <<head, row, markers>>,
         NEW e \in Epochs, e.revision = Top.revision + 1, e.revision \in Revisions,
         claims' = [claims EXCEPT ![e.revision] = e],
         \A y \in Epochs : KnownTo(Top, y) => KnownTo(e, y), Top.fence <= e.fence,
         e.name \in {0, row.inc}, Shut => e.name = 0,
         e.deleting => row.state # "live" /\ e.name = 0 /\ e.generation < e.revision /\ Shut',
         row.state = "registering" /\ e.deleting => Top.deleting,
         PolicyStands'
  PROVE  Advances
<1>1. /\ Top \in Epochs /\ Top' \in Epochs /\ head \in Epochs /\ head' \in Epochs
      /\ claims \in [Revisions -> Epochs] /\ claims' \in [Revisions -> Epochs]
      /\ row.inc \in Incarnations /\ row.inc \in Nat /\ Revisions \subseteq Nat \ {0}
      /\ row.state \in {"live", "deleting", "none", "registering"}
  BY EpochFacts
<1>2. /\ Top' = e /\ claims[e.revision] = Zero /\ claims'[e.revision] = e
      /\ \A k \in Revisions : k # e.revision => claims'[k] = claims[k]
  BY ClaimTop
<1>3. PICK t \in Nat, i \in Revisions : t = Top.revision /\ i = e.revision /\ i = t + 1
  BY <1>1 DEF Epochs
<1>4. HistoryStands /\ RowStands /\ head' = head /\ row' = row /\ markers' = markers
  BY DEF Standing
<1>5. Latest(claims, Top) /\ e # Zero /\ \A k \in Revisions : claims[k] # Zero => k <= t
  BY <1>1, <1>3, Tops, ZeroFacts DEF Latest
<1>6. ASSUME Shut PROVE Shut'
  <2>1. req' = [req EXCEPT ![r] = n] /\ req \in [Requests -> Request]
    BY DEF Set, EpochInv
  <2>2. ASSUME NEW s \in Requests, req'[s].then = "change" PROVE req'[s].verified.fence < e.fence
    <3>1. CASE s # r
      <4>1. req'[s] = req[s] /\ req[s].verified.fence < Top.fence /\ req[s].verified \in Epochs
        BY <1>6, <2>1, <2>2, <3>1 DEF Shut, Request
      <4>2. req[s].verified.fence \in Nat /\ Top.fence \in Nat /\ e.fence \in Nat
        BY <1>1, <4>1 DEF Epochs
      <4>3. QED
        BY <4>1, <4>2
    <3>2. CASE s = r
      BY <2>1, <2>2, <3>2
    <3>3. QED
      BY <3>1, <3>2
  <2>3. QED
    BY <1>2, <1>6, <2>2 DEF Shut
<1>7. ASSUME NEW m \in Nat, Sealed(m) PROVE Sealed(m)'
  <2>1. row.state # "live" /\ Shut' /\ e.name = 0
    BY <1>6, <1>7 DEF Sealed
  <2>2. QED
    BY <1>2, <1>3, <1>4, <1>7, <2>1 DEF Sealed
<1>8. e.deleting => SealedTop'
  <2>1. ASSUME e.deleting, NEW k \in Revisions, claims'[k].name # 0 PROVE k < e.revision
    <3>1. k # e.revision
      BY <1>2, <2>1
    <3>2. claims[k] # Zero
      BY <1>2, <2>1, <3>1, ZeroFacts
    <3>3. QED
      BY <1>1, <1>3, <1>5, <3>2
  <2>2. QED
    BY <1>2, <1>4, <2>1 DEF SealedTop, Sealed
<1>9. TopAdvances
  <2>1. KnownTo(Top, head) /\ Remembered(claims, head) /\ head.revision <= head.revision
    BY <1>1, <1>4 DEF HistoryStands, Epochs
  <2>2. Top.revision <= e.revision
    BY <1>3
  <2>3. QED
    BY <1>2, <1>4, <1>8, <2>1, <2>2 DEF TopAdvances
<1>10. RowAdvances
  BY <1>4 DEF RowAdvances
<1>11. ClaimsAdvance
  <2>1. ASSUME NEW y \in Epochs, Remembered(claims, y) PROVE Remembered(claims', y)
    <3>1. ASSUME NEW m, Covered(claims, m) PROVE Covered(claims', m)
      <4>1. PICK k \in Revisions : claims[k].deleting /\ m <= claims[k].generation
        BY <3>1 DEF Covered
      <4>2. k # e.revision
        BY <1>2, <4>1, ZeroFacts
      <4>3. QED
        BY <1>2, <4>1, <4>2 DEF Covered
    <3>2. CASE y.revision = e.revision /\ claims[y.revision] = y
      BY <1>2, <3>2 DEF Remembered
    <3>3. QED
      BY <1>2, <2>1, <3>1, <3>2 DEF Remembered
  <2>2. KnownTo(e, e)
    BY DEF KnownTo, Epochs
  <2>3. ASSUME NEW k \in Revisions, Gap(claims', k) PROVE Gap(claims, k)
    <3>1. PICK j \in Revisions : k < j /\ claims'[j] # Zero /\ claims'[k] = Zero
      BY <2>3 DEF Gap
    <3>2. k # e.revision /\ claims[k] = Zero
      BY <1>2, <1>5, <3>1
    <3>3. CASE j # e.revision
      BY <1>2, <3>1, <3>2, <3>3 DEF Gap
    <3>4. CASE j = e.revision
      <4>1. k <= t /\ k \in Nat /\ k # 0
        BY <1>1, <1>3, <3>1, <3>4
      <4>2. Top # Zero
        BY <1>3, <4>1, ZeroFacts
      <4>3. t \in Revisions /\ claims[t] = Top
        BY <1>3, <1>5, <4>2 DEF Latest
      <4>4. k # t
        BY <3>2, <4>2, <4>3
      <4>5. k < t
        BY <4>1, <4>4, <1>3
      <4>6. QED
        BY <3>2, <4>2, <4>3, <4>5 DEF Gap
    <3>5. QED
      BY <3>3, <3>4
  <2>4. \A k \in Revisions : \/ claims'[k].name = 0 \/ claims'[k] = claims[k]
                             \/ claims'[k] = Top' /\ Top'.name = row.inc /\ Top.revision < k
    BY <1>2, <1>3
  <2>5. \A j \in Revisions : row.state = "live" /\ claims'[j].deleting => claims[j].deleting
    BY <1>2
  <2>6. \A k \in Revisions : \/ claims'[k] = claims[k]
                             \/ /\ KnownTo(Top', claims'[k])
                                /\ claims'[k].deleting => claims'[k].generation < Top'.revision
    BY <1>2, <2>2
  <2>7. QED
    BY <2>1, <2>3, <2>4, <2>5, <2>6 DEF ClaimsAdvance
<1>12. QED
  BY <1>7, <1>9, <1>10, <1>11 DEF Advances

(* An erasure leaves the last generation where it is.                      *)
LEMMA ErasureTop ==
  ASSUME EpochInv, EpochInv', NEW k \in Revisions, NEW j \in Revisions, k < j, claims[j] # Zero, NEW e,
         claims' = [claims EXCEPT ![k] = e]
  PROVE  /\ Top' = Top /\ claims'[k] = e /\ \A i \in Revisions : i # k => claims'[i] = claims[i]
<1>1. Latest(claims, Top) /\ Latest(claims', Top') /\ ClaimsOK(claims')
  BY Tops DEF EpochInv
<1>2. claims \in [Revisions -> Epochs] /\ Revisions \subseteq Nat \ {0} /\ Top \in Epochs
  BY EpochFacts
<1>3. claims'[k] = e /\ \A i \in Revisions : i # k => claims'[i] = claims[i]
  BY <1>2
<1>4. PICK t \in Nat : t = Top.revision /\ j <= t
  BY <1>1, <1>2 DEF Latest, Epochs
<1>5. Top # Zero /\ k < t
  BY <1>2, <1>4, ZeroFacts
<1>6. t \in Revisions /\ claims'[t] = Top
  BY <1>1, <1>2, <1>3, <1>4, <1>5 DEF Latest
<1>7. ASSUME NEW i \in Revisions, claims'[i] # Zero PROVE i <= t
  BY <1>1, <1>2, <1>3, <1>4, <1>5, <1>7 DEF Latest
<1>8. Top' = Top
  <2>1. PICK c : c = claims'
    OBVIOUS
  <2>2. ClaimsOK(c) /\ Latest(c, Top') /\ c[t] = Top /\ \A i \in Revisions : c[i] # Zero => i <= Top.revision
    BY <1>1, <1>4, <1>6, <1>7, <2>1
  <2>3. QED
    BY <1>2, <1>4, <1>6, <2>2, LatestOne
<1>9. QED
  BY <1>3, <1>8

(* What an erasure changes is not a policy that may come into force.       *)
LEMMA ErasureAdvances ==
  ASSUME EpochInv, EpochInv', Standing, NEW r \in Requests, NEW n, Set(r, n), n.then # "change",
         UNCHANGED <<head, row, markers, granted>>, Top' = Top, ClaimsAdvance,
         \A k \in Revisions : claims'[k].name = 0 \/ claims'[k] = claims[k]
  PROVE  Advances
<1>1. /\ Top \in Epochs /\ head \in Epochs /\ HistoryStands /\ RowStands
      /\ head' = head /\ row' = row /\ markers' = markers /\ granted' = granted
  BY EpochFacts DEF Standing
<1>2. ASSUME Shut PROVE Shut'
  <2>1. req' = [req EXCEPT ![r] = n] /\ req \in [Requests -> Request]
    BY DEF Set, EpochInv
  <2>2. \A s \in Requests : req'[s].then = "change" => req'[s] = req[s]
    BY <2>1
  <2>3. QED
    BY <1>2, <2>2 DEF Shut
<1>3. ASSUME NEW m \in Nat, Sealed(m) PROVE Sealed(m)'
  BY <1>1, <1>2, <1>3 DEF Sealed
<1>4. TopAdvances
  BY <1>1 DEF TopAdvances, HistoryStands, Epochs
<1>5. RowAdvances
  BY <1>1 DEF RowAdvances, RowStands, PolicyStands
<1>6. QED
  BY <1>3, <1>4, <1>5 DEF Advances

LEMMA EraserFacts ==
  ASSUME EpochInv, EpochInv', Standing, NEW r \in Requests, NEW q \in Request, q = req[r], q.at \in {"release", "fill"}
  PROVE  /\ q.epoch \in Epochs /\ q.epoch.deleting /\ q.epoch.revision \in Revisions
         /\ claims[q.epoch.revision] = q.epoch /\ q.epoch # Zero
         /\ q.cursor \in Revisions /\ q.cursor < q.epoch.revision /\ q.cursor < head.revision
         /\ q.then = "fence" /\ RequestStands(q) /\ RequestHolds(claims, q)
         /\ \A k \in Revisions : k <= q.cursor /\ claims[k].name = row.inc => Sealed(0)
<1>1. RequestHolds(claims, q) /\ RequestStands(q)
  BY DEF EpochInv, Standing, RequestsStand
<1>2. /\ q.epoch \in Epochs /\ q.epoch.deleting /\ q.epoch.revision \in Revisions
      /\ claims[q.epoch.revision] = q.epoch /\ q.cursor \in Revisions /\ q.cursor < q.epoch.revision
  BY <1>1, ErasurePlace
<1>3. /\ q.then = "fence" /\ q.epoch.revision <= head.revision
      /\ Threatens(q) => Sealed(0)
  BY <1>1 DEF RequestStands, Deleting, Eliding
<1>4. /\ q.cursor \in Nat /\ q.epoch.revision \in Nat /\ head.revision \in Nat
      /\ Revisions \subseteq Nat
  BY <1>2, EpochFacts DEF Epochs
<1>5. q.cursor < head.revision
  BY <1>2, <1>3, <1>4
<1>6. ASSUME NEW k \in Revisions, k <= q.cursor, claims[k].name = row.inc PROVE Sealed(0)
  <2>1. k < q.epoch.revision
    BY <1>2, <1>4, <1>6
  <2>2. QED
    BY <1>3, <1>6, <2>1 DEF Threatens
<1>7. QED
  BY <1>1, <1>2, <1>3, <1>5, <1>6, ZeroFacts

LEMMA ReleaseAdvances ==
  ASSUME EpochInv, EpochInv', Standing, NEW r \in Requests, NEW q \in Request, q = req[r], q.at = "release",
         claims[q.cursor] \in {q.seen, Zero}, claims' = [claims EXCEPT ![q.cursor] = Zero],
         NEW n, Set(r, n), n.then # "change", UNCHANGED <<head, row, markers, granted>>
  PROVE  Advances
<1>1. /\ q.epoch \in Epochs /\ q.epoch.deleting /\ q.epoch.revision \in Revisions
      /\ claims[q.epoch.revision] = q.epoch /\ q.epoch # Zero
      /\ q.cursor \in Revisions /\ q.cursor < q.epoch.revision /\ q.cursor < head.revision
      /\ RequestHolds(claims, q) /\ \A k \in Revisions : k <= q.cursor /\ claims[k].name = row.inc => Sealed(0)
  BY EraserFacts
<1>2. PICK c \in Revisions, d \in Revisions : c = q.cursor /\ d = q.epoch.revision /\ c < d
  BY <1>1
<1>3. /\ Top' = Top /\ claims'[c] = Zero /\ \A k \in Revisions : k # c => claims'[k] = claims[k]
  BY <1>1, <1>2, ErasureTop
<1>4. claims[c] = Zero \/ claims[c].name # 0
  BY <1>1, <1>2 DEF RequestHolds, EraseHolds
<1>5. Grows(claims, claims')
  BY <1>1, <1>2, <1>4, ReleaseKeeps DEF EpochInv
<1>6. Revisions \subseteq Nat \ {0} /\ c # d /\ c \in Nat /\ c <= c /\ claims'[d] # Zero
  BY <1>1, <1>2, <1>3, EpochFacts
<1>7. Covered(claims', c)
  BY <1>2, <1>3, <1>6 DEF EpochInv, ClaimsOK, HolesFenced
<1>8. ASSUME NEW y \in Epochs, Remembered(claims, y) PROVE Remembered(claims', y)
  <2>1. CASE y = Zero
    BY <2>1 DEF Remembered
  <2>2. CASE y.revision = c
    BY <1>7, <2>2 DEF Remembered
  <2>3. CASE y.revision \in Revisions /\ y.revision # c /\ claims[y.revision] = y
    BY <1>3, <2>3 DEF Remembered
  <2>4. CASE y.revision \in Revisions /\ Covered(claims, y.revision)
    BY <1>5, <1>6, <2>4 DEF Remembered, Grows
  <2>5. QED
    BY <1>8, <2>1, <2>2, <2>3, <2>4 DEF Remembered
<1>9. ASSUME NEW k \in Revisions, Gap(claims', k)
      PROVE  \/ Gap(claims, k)
             \/ /\ k < head.revision /\ claims[k].name # 0
                /\ (\E j \in Revisions : j <= k /\ claims[j].name = row.inc) => Sealed(0)
  <2>1. PICK j \in Revisions : k < j /\ claims'[j] # Zero
    BY <1>9 DEF Gap
  <2>2. claims[j] # Zero
    BY <1>3, <2>1
  <2>3. claims[k] = Zero => Gap(claims, k)
    BY <2>1, <2>2 DEF Gap
  <2>4. k # c => claims[k] = Zero
    BY <1>3, <1>9 DEF Gap
  <2>5. QED
    BY <1>1, <1>2, <1>4, <2>3, <2>4
<1>10. \A k \in Revisions : claims'[k] = claims[k] \/ claims'[k] = Zero
  BY <1>3
<1>11. \A k \in Revisions : claims'[k].name = 0 \/ claims'[k] = claims[k]
  BY <1>10, ZeroFacts
<1>12. \A j \in Revisions : claims'[j].deleting => claims[j].deleting
  BY <1>10, ZeroFacts
<1>13. ClaimsAdvance
  BY <1>8, <1>9, <1>10, <1>11, <1>12 DEF ClaimsAdvance
<1>14. QED
  BY <1>3, <1>11, <1>13, ErasureAdvances

LEMMA FillAdvances ==
  ASSUME EpochInv, EpochInv', Standing, NEW r \in Requests, NEW q \in Request, q = req[r], q.at = "fill",
         Free(q.cursor), claims' = [claims EXCEPT ![q.cursor] = Anonymous(q.cursor, q.epoch)],
         NEW n, Set(r, n), n.then # "change", UNCHANGED <<head, row, markers, granted>>
  PROVE  Advances
<1>1. /\ q.epoch \in Epochs /\ q.epoch.deleting /\ q.epoch.revision \in Revisions
      /\ claims[q.epoch.revision] = q.epoch /\ q.epoch # Zero
      /\ q.cursor \in Revisions /\ q.cursor < q.epoch.revision
      /\ RequestStands(q) /\ \A k \in Revisions : k <= q.cursor /\ claims[k].name = row.inc => Sealed(0)
  BY EraserFacts
<1>2. PICK c \in Revisions, d \in Revisions : c = q.cursor /\ d = q.epoch.revision /\ c < d
  BY <1>1
<1>3. PICK e : e = Anonymous(c, q.epoch)
  OBVIOUS
<1>4. /\ Top' = Top /\ claims'[c] = e /\ \A k \in Revisions : k # c => claims'[k] = claims[k]
  <2>1. claims' = [claims EXCEPT ![c] = e] /\ claims[d] # Zero
    BY <1>1, <1>2, <1>3
  <2>2. QED
    BY <1>2, <2>1, ErasureTop
<1>5. e.name = 0 /\ e.fence = q.epoch.fence /\ e.generation = q.epoch.generation /\ e.deleting
  BY <1>3 DEF Anonymous, Zero
<1>6. KnownTo(Top, e) /\ e.generation < Top.revision
  <2>1. KnownTo(Top, q.epoch)
    BY <1>1 DEF RequestStands, Informed
  <2>2. q.epoch.generation < Top.revision
    BY <1>1 DEF Standing, HistoryStands
  <2>3. QED
    BY <1>5, <2>1, <2>2 DEF KnownTo
<1>7. claims[c] = Zero /\ e # Zero /\ ~Zero.deleting /\ Revisions \subseteq Nat \ {0}
  BY <1>2, <1>5, ZeroFacts, EpochFacts DEF Free
<1>8. ASSUME NEW y \in Epochs, Remembered(claims, y) PROVE Remembered(claims', y)
  <2>1. ASSUME NEW m, Covered(claims, m) PROVE Covered(claims', m)
    BY <1>4, <1>7, <2>1 DEF Covered
  <2>2. CASE y = Zero
    BY <2>2 DEF Remembered
  <2>3. CASE y # Zero /\ y.revision \in Revisions /\ claims[y.revision] = y
    BY <1>4, <1>7, <2>3 DEF Remembered
  <2>4. CASE y.revision \in Revisions /\ Covered(claims, y.revision)
    BY <2>1, <2>4 DEF Remembered
  <2>5. QED
    BY <1>8, <2>2, <2>3, <2>4 DEF Remembered
<1>9. ASSUME NEW k \in Revisions, Gap(claims', k) PROVE Gap(claims, k)
  <2>1. PICK j \in Revisions : k < j /\ claims'[j] # Zero /\ claims'[k] = Zero
    BY <1>9 DEF Gap
  <2>2. k # c /\ claims[k] = Zero
    BY <1>4, <1>7, <2>1
  <2>3. CASE j = c
    <3>1. k < d /\ claims[d] # Zero
      BY <1>1, <1>2, <1>7, <2>1, <2>3
    <3>2. QED
      BY <2>2, <3>1 DEF Gap
  <2>4. CASE j # c
    BY <1>4, <2>1, <2>2, <2>4 DEF Gap
  <2>5. QED
    BY <2>3, <2>4
<1>10. ASSUME row.state = "live", NEW k \in Revisions, NEW j \in Revisions,
              claims'[k].name = row.inc, claims'[j].deleting
       PROVE  claims[j].deleting \/ j < k
  <2>1. row.inc # 0
    BY EpochFacts DEF Incarnations
  <2>2. k # c /\ claims[k].name = row.inc
    BY <1>4, <1>5, <1>10, <2>1
  <2>3. ~Sealed(0)
    BY <1>10 DEF Sealed
  <2>4. c < k
    BY <1>1, <1>2, <1>7, <2>2, <2>3
  <2>5. QED
    BY <1>4, <1>10, <2>4
<1>11. \A k \in Revisions : claims'[k].name = 0 \/ claims'[k] = claims[k]
  BY <1>4, <1>5
<1>12. \A k \in Revisions : \/ claims'[k] = claims[k]
                            \/ KnownTo(Top', claims'[k]) /\ claims'[k].generation < Top'.revision
  BY <1>4, <1>6
<1>13. ClaimsAdvance
  BY <1>8, <1>9, <1>10, <1>11, <1>12 DEF ClaimsAdvance
<1>14. QED
  BY <1>4, <1>11, <1>13, ErasureAdvances

-----------------------------------------------------------------------------
(* What a request holds that reads, erases and enables nothing.            *)
LEMMA PlainStands ==
  ASSUME EpochInv, NEW q \in Request, ~Scans(q), q.at \notin {"publish", "swap"}, ~Eliding(q), q.at # "enable",
         q.inc <= row.inc, KnownTo(Top, q.epoch), KnownTo(Top, q.verified), Remembered(claims, q.epoch),
         q.then = "change" /\ q.inc # row.inc => q.verified.fence < Top.fence,
         q.inc = row.inc /\ (q.then = "fence" \/ Removing(q)) => row.state \in {"deleting", "none"},
         q.inc = row.inc /\ Removing(q) => Sealed(0)
  PROVE  RequestStands(q)
<1>1. ~Scanned(q) /\ ~Fencing(q)
  BY DEF Scanned, Scans, Fencing
<1>2. Informed(q) /\ Enabling(q) /\ Deleting(q)
  BY <1>1 DEF Informed, Enabling, Deleting
<1>3. QED
  BY <1>2 DEF RequestStands

LEMMA ZeroKnown == ASSUME NEW t \in Epochs PROVE KnownTo(t, Zero) /\ \A c : Remembered(c, Zero)
BY ZeroFacts DEF KnownTo, Remembered, Epochs

LEMMA IdleStands ==
  ASSUME EpochInv, EpochInv'
  PROVE  RequestStands(Idle) /\ RequestStands(Idle)' /\ Idle.then # "change"
<1>1. /\ Idle.inc = 0 /\ Idle.epoch = Zero /\ Idle.verified = Zero /\ Idle.then = "none" /\ Idle.at = "idle"
      /\ Idle \in Request
  BY RestHolds DEF Idle, RequestHolds
<1>2. Top \in Epochs /\ Top' \in Epochs /\ row.inc \in Incarnations /\ row'.inc \in Incarnations
  BY EpochFacts
<1>3. row.inc \in Nat \ {0} /\ row'.inc \in Nat \ {0}
  BY <1>2 DEF Incarnations
<1>4. ~Scans(Idle) /\ ~Scanned(Idle) /\ ~Fencing(Idle) /\ ~Eliding(Idle) /\ ~Removing(Idle)
  BY <1>1 DEF Scans, Scanned, Fencing, Eliding, Removing
<1>5. Informed(Idle) /\ Enabling(Idle) /\ Deleting(Idle)
  BY <1>1, <1>2, <1>3, <1>4, ZeroKnown DEF Informed, Enabling, Deleting
<1>6. Informed(Idle)' /\ Enabling(Idle)' /\ Deleting(Idle)'
  BY <1>1, <1>2, <1>3, <1>4, ZeroKnown DEF Informed, Enabling, Deleting
<1>7. QED
  BY <1>1, <1>5, <1>6 DEF RequestStands

(* A request that ends.                                                    *)
LEMMA FinishStands ==
  ASSUME EpochInv, EpochInv', Standing, NEW r \in Requests, Finish(r), claims' = claims, granted' = granted,
         RowCalm, HeadCalm
  PROVE  Standing'
<1>1. PICK q : q = req[r]
  OBVIOUS
<1>2. Set(r, Idle) /\ ChangeCalm(q, Idle)
  BY IdleStands DEF Finish, ChangeCalm
<1>3. Calm(r, q, Idle)
  BY <1>1, <1>2 DEF Calm
<1>4. QED
  BY <1>1, <1>3, IdleStands, CalmStands

(* A request that begins to read.                                          *)
LEMMA ReadStands ==
  ASSUME EpochInv, EpochInv', NEW q \in Request, NEW p \in Purposes, q.inc <= row.inc, KnownTo(Top, q.verified),
         p = "change" /\ q.inc # row.inc => q.verified.fence < Top.fence,
         q.inc = row.inc /\ p \in {"fence", "revoke"} => row.state \in {"deleting", "none"},
         q.inc = row.inc /\ p = "revoke" => Sealed(0)
  PROVE  RequestStands(Read(q, p))
<1>1. PICK n : n = Read(q, p)
  OBVIOUS
<1>2. /\ n \in Request /\ n.at = "head" /\ n.then = p /\ n.epoch = Zero /\ n.inc = q.inc /\ n.verified = q.verified
  BY <1>1, ZeroFacts DEF Read, Request, Places
<1>3. ~Scans(n) /\ ~Eliding(n) /\ (Removing(n) => p = "revoke")
  BY <1>2 DEF Scans, Eliding, Removing
<1>4. KnownTo(Top, Zero) /\ Remembered(claims, Zero)
  BY EpochFacts, ZeroKnown
<1>5. RequestStands(n)
  BY <1>2, <1>3, <1>4, PlainStands
<1>6. QED
  BY <1>1, <1>5

LEMMA SealedAll == ASSUME EpochInv, EpochInv', Sealed(0), NEW m \in Nat PROVE Sealed(m)
<1>1. \A k \in Revisions : ~(k < 0)
  BY Numbers
<1>2. QED
  BY <1>1 DEF Sealed

LEMMA OfRequest ==
  ASSUME EpochInv, Standing, NEW r \in Requests
  PROVE  \E q \in Request : q = req[r] /\ RequestHolds(claims, q) /\ RequestStands(q)
BY DEF EpochInv, Standing, RequestsStand

(* Reading.                                                                *)
LEMMA ReadHeadStands == ASSUME EpochInv, EpochInv', Standing, NEW r \in Requests, ReadHead(r) PROVE Standing'
<1>1. PICK q \in Request : q = req[r] /\ RequestHolds(claims, q) /\ RequestStands(q)
  BY OfRequest
<1>2. PICK n : n = [q EXCEPT !.at = "probe", !.seen = head, !.epoch = head, !.looked = 0]
  OBVIOUS
<1>3. Set(r, n) /\ q.at = "head" /\ UNCHANGED <<claims, head, row, markers, granted>>
  BY <1>1, <1>2 DEF ReadHead
<1>4. /\ n.at = "probe" /\ n.seen = head /\ n.epoch = head /\ n.then = q.then /\ n.inc = q.inc /\ n.verified = q.verified
  BY <1>2 DEF Request
<1>5. Calm(r, q, n)
  BY <1>1, <1>3, <1>4 DEF Calm, RowCalm, HeadCalm, ChangeCalm
<1>6. head \in Epochs /\ HistoryStands /\ Revisions \subseteq Nat
  BY EpochFacts DEF Standing
<1>7. head.revision \in Nat
  BY <1>6 DEF Epochs
<1>8. Informed(n)
  BY <1>1, <1>4, <1>6 DEF RequestStands, Informed, HistoryStands
<1>9. ~Scanned(n) /\ ~Fencing(n) /\ ~Eliding(n) /\ (Removing(n) => Removing(q))
  BY <1>3, <1>4 DEF Scanned, Fencing, Eliding, Removing
<1>10. ASSUME NEW k \in Revisions, Gap(claims, k) PROVE k <= head.revision /\ ~(head.revision < k)
  <2>1. k < head.revision /\ k \in Nat
    BY <1>6, <1>10 DEF HistoryStands
  <2>2. QED
    BY <1>7, <2>1
<1>11. Enabling(n)
  BY <1>4, <1>9, <1>10 DEF Enabling
<1>12. Deleting(n)
  BY <1>1, <1>4, <1>9, <1>10 DEF RequestStands, Deleting
<1>13. QED
  BY <1>1, <1>5, <1>8, <1>11, <1>12, CalmStands DEF RequestStands

(* A scan that ends has met a gap or read the last generation.             *)
LEMMA ScanEnds ==
  ASSUME EpochInv, EpochInv', Standing, NEW q \in Request, RequestHolds(claims, q), RequestStands(q),
         q.epoch.revision <= Top.revision, NEW k \in Nat, k = q.epoch.revision + 1, Free(k)
  PROVE  q.epoch = Top \/ (k \in Revisions /\ Gap(claims, k))
<1>1. Latest(claims, Top) /\ Top \in Epochs /\ q.epoch \in Epochs
  BY Tops, EpochFacts DEF Request
<1>2. PICK t \in Nat, m \in Nat : t = Top.revision /\ m = q.epoch.revision /\ m <= t /\ k = m + 1
  BY <1>1 DEF Epochs
<1>3. CASE m = t
  BY <1>1, <1>2, <1>3, TopOnly DEF RequestStands, Informed
<1>4. CASE m # t
  <2>1. Top # Zero /\ k <= t
    BY <1>2, <1>4, ZeroFacts
  <2>2. t \in Revisions /\ claims[t] # Zero
    BY <1>1, <1>2, <2>1 DEF Latest
  <2>3. t <= 3 * MaxRequests + 1 /\ 3 * MaxRequests + 1 \in Nat /\ 1 <= k
    BY <1>2, <2>2, Numbers DEF Revisions
  <2>4. k \in Revisions
    BY <1>2, <2>1, <2>3 DEF Revisions
  <2>5. claims[k] = Zero /\ k # t
    BY <2>2, <2>4 DEF Free
  <2>6. k < t
    BY <1>2, <2>1, <2>5
  <2>7. QED
    BY <2>2, <2>4, <2>5, <2>6 DEF Gap
<1>5. QED
  BY <1>3, <1>4

LEMMA ProbeStands == ASSUME EpochInv, EpochInv', Standing, NEW r \in Requests, Probe(r) PROVE Standing'
<1>1. PICK q \in Request : q = req[r] /\ RequestHolds(claims, q) /\ RequestStands(q)
  BY OfRequest
<1>2. PICK k \in Nat : k = q.epoch.revision + 1
  BY DEF Request, Epochs
<1>3. /\ q.at = "probe" /\ UNCHANGED <<claims, head, row, markers, granted>> /\ Informed(q) /\ Enabling(q) /\ Deleting(q)
      /\ HistoryStands /\ Revisions \subseteq Nat /\ q.epoch.revision <= Top.revision
  BY <1>1, ReadBelow, EpochFacts DEF Probe, RequestStands, Standing
<1>4. q.seen.revision < k /\ q.seen.revision \in Nat /\ q.epoch.revision \in Nat
  BY <1>1, <1>2, <1>3 DEF RequestHolds, ScanHolds, Request, Epochs
<1>5. CASE Free(k) /\ Set(r, [q EXCEPT !.at = IF q.epoch # q.seen THEN "repair" ELSE "read"])
  <2>1. PICK a \in {"repair", "read"} : Set(r, [q EXCEPT !.at = a])
    BY <1>5
  <2>2. PICK n : n = [q EXCEPT !.at = a]
    OBVIOUS
  <2>3. /\ n.at = a /\ n.seen = q.seen /\ n.epoch = q.epoch /\ n.then = q.then /\ n.inc = q.inc /\ n.verified = q.verified
    BY <2>2 DEF Request
  <2>4. Calm(r, q, n)
    BY <1>1, <1>3, <2>1, <2>2, <2>3 DEF Calm, RowCalm, HeadCalm, ChangeCalm
  <2>5. q.epoch = Top \/ (k \in Revisions /\ Gap(claims, k))
    BY <1>1, <1>2, <1>3, <1>5, ScanEnds
  <2>6. Scans(n) /\ Scans(q) /\ Scanned(n) /\ ~Eliding(n) /\ (Removing(n) => Removing(q))
    BY <1>3, <2>3 DEF Scans, Scanned, Eliding, Removing
  <2>7. Informed(n)
    BY <1>3, <2>3, <2>6 DEF Informed
  <2>8. Enabling(n)
    <3>1. SUFFICES ASSUME q.then = "activate", q.inc = row.inc, row.state = "registering"
                   PROVE  ~q.epoch.deleting => ~Top.deleting
      BY <1>3, <2>1, <2>3, <2>6 DEF Enabling
    <3>2. ~(k \in Revisions /\ Gap(claims, k))
      BY <1>3, <1>4, <2>6, <3>1 DEF Enabling
    <3>3. QED
      BY <2>5, <3>2
  <2>9. Fencing(n) /\ Threatens(n) => Sealed(n.epoch.revision)
    <3>1. SUFFICES ASSUME q.then = "fence", q.epoch.deleting, Threatens(q) PROVE Sealed(q.epoch.revision)
      BY <2>3 DEF Fencing, Threatens
    <3>2. CASE q.epoch = Top
      BY <1>3, <3>1, <3>2 DEF HistoryStands, SealedTop
    <3>3. CASE k \in Revisions /\ Gap(claims, k)
      <4>1. CASE q.inc = row.inc
        BY <1>3, <1>4, <2>6, <3>1, <3>3, <4>1, SealedAll DEF Deleting
      <4>2. ASSUME NEW j \in Revisions, j < q.epoch.revision, claims[j].name = row.inc PROVE Sealed(q.epoch.revision)
        <5>1. j < k
          BY <1>2, <1>3, <1>4, <4>2
        <5>2. QED
          BY <1>3, <1>4, <3>3, <4>2, <5>1, SealedAll DEF HistoryStands
      <4>3. QED
        BY <3>1, <4>1, <4>2 DEF Threatens
    <3>4. QED
      BY <2>5, <3>2, <3>3
  <2>10. Deleting(n)
    BY <1>3, <2>1, <2>3, <2>6, <2>9 DEF Deleting
  <2>11. QED
    BY <1>1, <2>4, <2>7, <2>8, <2>10, CalmStands DEF RequestStands
<1>6. CASE ~Free(k) /\ Set(r, [q EXCEPT !.epoch = claims[k], !.looked = @ + 1,
                                 !.at = IF q.looked + 1 = ScanLimit THEN "recover" ELSE "probe"])
  <2>1. PICK f, a : f = claims[k] /\ a = IF q.looked + 1 = ScanLimit THEN "recover" ELSE "probe"
    OBVIOUS
  <2>2. PICK n : n = [q EXCEPT !.epoch = f, !.looked = @ + 1, !.at = a] /\ a \in {"recover", "probe"} /\ Set(r, n)
    BY <1>6, <2>1
  <2>3. /\ n.at = a /\ n.seen = q.seen /\ n.epoch = f /\ n.then = q.then /\ n.inc = q.inc /\ n.verified = q.verified
    BY <2>2 DEF Request
  <2>4. Calm(r, q, n)
    BY <1>1, <1>3, <2>2, <2>3 DEF Calm, RowCalm, HeadCalm, ChangeCalm
  <2>5. Scans(n) /\ Scans(q) /\ ~Scanned(n) /\ ~Fencing(n) /\ ~Eliding(n) /\ (Removing(n) => Removing(q))
    BY <1>3, <2>2, <2>3 DEF Scans, Scanned, Fencing, Eliding, Removing
  <2>6. KnownTo(Top, f) /\ Remembered(claims, f)
    <3>1. k \in Revisions /\ f # Zero /\ f.revision = k
      BY <1>6, <2>1 DEF Free, EpochInv, ClaimsOK, NumbersHold
    <3>2. QED
      BY <1>3, <2>1, <3>1 DEF HistoryStands, Remembered
  <2>7. Informed(n)
    BY <1>3, <2>3, <2>5, <2>6 DEF Informed
  <2>8. Enabling(n)
    BY <1>3, <2>1, <2>3, <2>5 DEF Enabling
  <2>9. Deleting(n)
    BY <1>3, <2>1, <2>3, <2>5 DEF Deleting
  <2>10. QED
    BY <1>1, <2>4, <2>7, <2>8, <2>9, CalmStands DEF RequestStands
<1>7. QED
  BY <1>1, <1>2, <1>5, <1>6 DEF Probe

LEMMA RepairStands == ASSUME EpochInv, EpochInv', Standing, NEW r \in Requests, Repair(r) \/ ReadOnly(r) PROVE Standing'
<1>1. PICK q \in Request : q = req[r] /\ RequestHolds(claims, q) /\ RequestStands(q)
  BY OfRequest
<1>2. /\ q.at \in {"repair", "recover"} /\ UNCHANGED <<claims, row, markers, granted>>
      /\ head' = head \/ (head = q.seen /\ head' = q.epoch)
  BY <1>1 DEF Repair, ReadOnly
<1>3. HeadCalm
  BY <1>1, <1>2 DEF RequestHolds, ScanHolds, RequestStands, Informed, HeadCalm
<1>4. RowCalm
  BY <1>2 DEF RowCalm
<1>5. CASE Finish(r)
  BY <1>2, <1>3, <1>4, <1>5, FinishStands
<1>6. CASE q.at = "repair" /\ Set(r, [q EXCEPT !.at = "read"])
  <2>1. PICK n : n = [q EXCEPT !.at = "read"]
    OBVIOUS
  <2>2. /\ n.at = "read" /\ n.seen = q.seen /\ n.epoch = q.epoch /\ n.then = q.then /\ n.inc = q.inc /\ n.verified = q.verified
    BY <2>1 DEF Request
  <2>3. Calm(r, q, n)
    BY <1>1, <1>2, <1>3, <1>4, <1>6, <2>1, <2>2 DEF Calm, ChangeCalm
  <2>4. /\ Scans(n) /\ Scans(q) /\ Scanned(q) /\ ~Eliding(n) /\ (Removing(n) => Removing(q))
        /\ (Fencing(n) => Fencing(q)) /\ (Threatens(n) => Threatens(q))
    BY <1>6, <2>2 DEF Scans, Scanned, Eliding, Removing, Fencing, Threatens
  <2>5. Informed(n)
    BY <1>1, <2>2, <2>4 DEF RequestStands, Informed
  <2>6. Enabling(n)
    BY <1>1, <2>2, <2>4 DEF RequestStands, Enabling
  <2>7. Deleting(n)
    BY <1>1, <2>2, <2>4 DEF RequestStands, Deleting
  <2>8. QED
    BY <1>1, <2>3, <2>5, <2>6, <2>7, CalmStands DEF RequestStands
<1>7. QED
  BY <1>1, <1>5, <1>6 DEF Repair, ReadOnly

LEMMA VerifyStands == ASSUME EpochInv, EpochInv', Standing, NEW r \in Requests, Verify(r) PROVE Standing'
<1>1. PICK q \in Request : q = req[r] /\ RequestHolds(claims, q) /\ RequestStands(q)
  BY OfRequest
<1>2. q.then = "verify" /\ RowCalm /\ HeadCalm /\ UNCHANGED <<claims, granted>>
  BY <1>1 DEF Verify, RowCalm, HeadCalm
<1>3. CASE Finish(r)
  BY <1>2, <1>3, FinishStands
<1>4. CASE Set(r, [q EXCEPT !.at = "accepted", !.verified = q.epoch])
  <2>1. PICK n : n = [q EXCEPT !.at = "accepted", !.verified = q.epoch]
    OBVIOUS
  <2>2. /\ n \in Request /\ n.at = "accepted" /\ n.epoch = q.epoch /\ n.then = "verify" /\ n.inc = q.inc /\ n.verified = q.epoch
    BY <1>2, <2>1 DEF Request, Places
  <2>3. Calm(r, q, n)
    BY <1>1, <1>2, <1>4, <2>1, <2>2 DEF Calm, ChangeCalm
  <2>4. ~Scans(n) /\ ~Eliding(n) /\ ~Removing(n)
    BY <2>2 DEF Scans, Eliding, Removing
  <2>5. RequestStands(n)
    BY <1>1, <2>2, <2>4, PlainStands DEF RequestStands, Informed
  <2>6. QED
    BY <1>1, <2>3, <2>5, CalmStands
<1>5. QED
  BY <1>1, <1>3, <1>4 DEF Verify

LEMMA MintStands == ASSUME EpochInv, EpochInv', Standing, NEW r \in Requests, Mint(r) PROVE Standing'
<1>1. Finish(r) /\ UNCHANGED <<claims, granted>> /\ RowCalm /\ HeadCalm
  BY DEF Mint, RowCalm, HeadCalm
<1>2. QED
  BY <1>1, FinishStands

LEMMA DieStands == ASSUME EpochInv, EpochInv', Standing, NEW r \in Requests, Die(r) PROVE Standing'
<1>1. Finish(r) /\ UNCHANGED <<claims, granted>> /\ RowCalm /\ HeadCalm
  BY DEF Die, RowCalm, HeadCalm
<1>2. QED
  BY <1>1, FinishStands

(* A claim that was lost.                                                  *)
LEMMA LostStands ==
  ASSUME EpochInv, EpochInv', Standing, NEW r \in Requests, Lost(r), UNCHANGED <<head, row, markers, granted>>
  PROVE  Standing'
<1>1. PICK q \in Request : q = req[r] /\ RequestStands(q)
  BY OfRequest
<1>2. claims' = claims /\ granted' = granted /\ RowCalm /\ HeadCalm
  BY DEF Lost, RowCalm, HeadCalm
<1>3. CASE Finish(r)
  BY <1>2, <1>3, FinishStands
<1>4. CASE Set(r, Read([q EXCEPT !.tries = @ + 1], q.then))
  <2>1. PICK m : m = [q EXCEPT !.tries = @ + 1]
    OBVIOUS
  <2>2. m \in Request /\ m.inc = q.inc /\ m.verified = q.verified /\ q.then \in Purposes
    BY <2>1 DEF Request
  <2>3. row.inc # 0
    BY EpochFacts DEF Incarnations
  <2>4. q.inc = row.inc /\ q.then = "revoke" => Removing(q)
    BY <2>3 DEF Removing
  <2>5. RequestStands(Read(m, q.then))
    BY <1>1, <2>2, <2>4, ReadStands DEF RequestStands, Informed, Deleting
  <2>6. PICK n : n = Read(m, q.then)
    OBVIOUS
  <2>7. n.then = q.then /\ n.verified = q.verified
    BY <2>2, <2>6 DEF Read, Request
  <2>8. Calm(r, q, n)
    BY <1>1, <1>2, <1>4, <2>1, <2>6, <2>7 DEF Calm, ChangeCalm
  <2>9. QED
    BY <1>1, <2>5, <2>6, <2>8, CalmStands
<1>5. QED
  BY <1>1, <1>3, <1>4 DEF Lost

(* A request that begins to verify a session, to log in, to revoke or to   *)
(* register.                                                               *)
LEMMA StartStands ==
  ASSUME EpochInv, EpochInv', Standing, NEW r \in Requests, NEW n \in Request, Set(r, n),
         n.at \in {"head", "enrol"}, n.then \in {"none", "verify", "mint", "revoke", "activate"},
         n.epoch = Zero, n.verified = Zero, n.inc \in {0, row.inc}, n.then = "revoke" => n.inc = 0,
         UNCHANGED <<claims, head, row, markers, granted>>
  PROVE  Standing'
<1>1. ~Scans(n) /\ ~Eliding(n) /\ ~Removing(n)
  BY DEF Scans, Eliding, Removing
<1>2. Top \in Epochs /\ row.inc \in Nat
  BY EpochFacts
<1>3. KnownTo(Top, Zero) /\ Remembered(claims, Zero) /\ n.inc <= row.inc
  BY <1>2, ZeroKnown
<1>4. RequestStands(n)
  BY <1>1, <1>3, PlainStands
<1>5. PICK q : q = req[r]
  OBVIOUS
<1>6. Calm(r, q, n)
  BY <1>5 DEF Calm, RowCalm, HeadCalm, ChangeCalm
<1>7. QED
  BY <1>4, <1>5, <1>6, CalmStands

(* A request that finds the account to be deleted, or marks it.            *)
LEMMA CleanupStands ==
  ASSUME EpochInv, EpochInv', Standing, NEW r \in Requests, NEW m, Set(r, Cleanup(m)), MarkDeleting,
         UNCHANGED <<claims, head, granted>>
  PROVE  Standing'
<1>1. PICK i \in Incarnations : i = row.inc /\ i \in Nat
  BY EpochFacts
<1>2. PICK n : n = Cleanup(m)
  OBVIOUS
<1>3. /\ n.at = "head" /\ n.then \in {"fence", "revoke"} /\ (n.then = "revoke" => markers[i].erased)
      /\ n.epoch = Zero /\ n.verified = Zero /\ n.inc = i
  <2>1. PICK d : d = Deletes(m)
    OBVIOUS
  <2>2. d.inc = i /\ d.verified = Zero
    BY <1>1, <2>1 DEF Deletes, Idle
  <2>3. PICK p \in {"fence", "revoke"} : n = Read(d, p) /\ (p = "revoke" => markers[i].erased)
    BY <1>1, <1>2, <2>1 DEF Cleanup
  <2>4. /\ DOMAIN d = {"kind", "at", "then", "gen", "floor", "born", "seen", "epoch", "looked", "tries",
                       "verified", "inc", "cursor", "mark"}
    BY <2>1 DEF Deletes, Idle
  <2>5. QED
    BY <2>1, <2>2, <2>3, <2>4 DEF Read, Deletes, Idle
<1>4. row'.inc = i /\ row'.state = "deleting" /\ \A j \in Incarnations : markers'[j].erased = markers[j].erased
  BY <1>1 DEF MarkDeleting, EpochInv, EpochShapes
<1>5. PICK q : q = req[r]
  OBVIOUS
<1>6. Calm(r, q, n)
  BY <1>1, <1>2, <1>3, <1>4, <1>5 DEF Calm, RowCalm, HeadCalm, ChangeCalm
<1>7. Advances
  BY <1>5, <1>6, CalmAdvances
<1>8. n.then = "revoke" => Sealed(0)'
  BY <1>1, <1>3, <1>7 DEF Standing, RowStands, Advances
<1>9. ~Scans(n) /\ ~Scanned(n) /\ ~Fencing(n) /\ ~Eliding(n) /\ (Removing(n) => n.then = "revoke")
  BY <1>3 DEF Scans, Scanned, Fencing, Eliding, Removing
<1>10. Top' \in Epochs
  BY EpochFacts
<1>11. KnownTo(Top', Zero) /\ Remembered(claims', Zero)
  BY <1>10, ZeroKnown
<1>12. Informed(n)' /\ Enabling(n)' /\ Deleting(n)'
  BY <1>1, <1>3, <1>4, <1>8, <1>9, <1>11 DEF Informed, Enabling, Deleting
<1>13. QED
  BY <1>2, <1>7, <1>12, AllGoOn DEF RequestStands

LEMMA BeginStands == ASSUME EpochInv, EpochInv', Standing, NEW r \in Requests, Begin(r) PROVE Standing'
<1>1. PICK k \in Kinds : LET q == [Idle EXCEPT !.kind = k] IN
        \/ /\ \E g \in sessions : Began(r, Read([q EXCEPT !.gen = g], "verify"))
           /\ UNCHANGED <<row, markers>>
        \/ /\ Began(r, Read([q EXCEPT !.inc = row.inc], "mint")) /\ UNCHANGED <<row, markers>>
        \/ /\ Began(r, Read(q, "revoke")) /\ UNCHANGED <<row, markers>>
        \/ /\ Began(r, Cleanup(q)) /\ MarkDeleting
        \/ /\ Began(r, Read([q EXCEPT !.inc = row.inc], "activate")) /\ UNCHANGED <<row, markers>>
        \/ /\ Began(r, [q EXCEPT !.at = "enrol"]) /\ UNCHANGED <<row, markers>>
  BY DEF Begin
<1> DEFINE q == [Idle EXCEPT !.kind = k]
<1>2. UNCHANGED <<claims, head, granted>>
  BY DEF Begin
<1>3. PICK i \in Incarnations, t \in Nat : i = row.inc /\ i \in Nat /\ t = Top.revision
  BY EpochFacts DEF Epochs
<1>4. sessions \subseteq Nat /\ Zero \in Epochs
  BY ZeroFacts DEF EpochInv, EpochShapes
<1>5. /\ q \in Request /\ q.inc = 0 /\ q.verified = Zero
      /\ \A g \in Nat : [q EXCEPT !.gen = g] \in Request /\ [q EXCEPT !.gen = g].inc = 0
                        /\ [q EXCEPT !.gen = g].verified = Zero
      /\ [q EXCEPT !.inc = i] \in Request /\ [q EXCEPT !.inc = i].inc = i /\ [q EXCEPT !.inc = i].verified = Zero
  BY <1>1, <1>3, <1>4 DEF Idle, Request, Places, Purposes
<1>6. ASSUME NEW m \in Request, m.verified = Zero, m.inc \in {0, i},
             NEW p \in {"verify", "mint", "revoke", "activate"}, p = "revoke" => m.inc = 0,
             Began(r, Read(m, p)), UNCHANGED <<row, markers>>
      PROVE  Standing'
  <2>1. PICK d : d = Read(m, p)
    OBVIOUS
  <2>2. d \in Request /\ d.at = "head" /\ d.then = p /\ d.epoch = Zero /\ d.verified = Zero /\ d.inc = m.inc
    BY <1>4, <1>6, <2>1 DEF Read, Request, Places, Purposes
  <2>3. PICK n : n = IF p = "verify" THEN [d EXCEPT !.floor = t, !.born = i] ELSE d
    OBVIOUS
  <2>4. Set(r, n)
    BY <1>3, <1>6, <2>1, <2>2, <2>3 DEF Began
  <2>5. n \in Request /\ n.at = "head" /\ n.then = p /\ n.epoch = Zero /\ n.verified = Zero /\ n.inc = m.inc
    BY <1>3, <2>2, <2>3 DEF Request
  <2>6. QED
    BY <1>2, <1>3, <1>6, <2>4, <2>5, StartStands
<1>7. CASE \E g \in sessions : Began(r, Read([q EXCEPT !.gen = g], "verify")) /\ UNCHANGED <<row, markers>>
  BY <1>4, <1>5, <1>6, <1>7
<1>8. CASE Began(r, Read([q EXCEPT !.inc = row.inc], "mint")) /\ UNCHANGED <<row, markers>>
  BY <1>3, <1>5, <1>6, <1>8
<1>9. CASE Began(r, Read(q, "revoke")) /\ UNCHANGED <<row, markers>>
  BY <1>5, <1>6, <1>9
<1>10. CASE Began(r, Read([q EXCEPT !.inc = row.inc], "activate")) /\ UNCHANGED <<row, markers>>
  BY <1>3, <1>5, <1>6, <1>10
<1>11. CASE Began(r, Cleanup(q)) /\ MarkDeleting
  <2>1. Cleanup(q).then # "verify"
    BY DEF Cleanup, Read, Deletes, Idle
  <2>2. Set(r, Cleanup(q))
    BY <1>11, <2>1 DEF Began
  <2>3. QED
    BY <1>2, <1>11, <2>2, CleanupStands
<1>12. CASE Began(r, [q EXCEPT !.at = "enrol"]) /\ UNCHANGED <<row, markers>>
  <2>1. PICK n : n = [q EXCEPT !.at = "enrol"]
    OBVIOUS
  <2>2. n = [Idle EXCEPT !.kind = k, !.at = "enrol"]
    BY <1>1, <2>1
  <2>3. n \in Request /\ n.at = "enrol" /\ n.then = "none" /\ n.epoch = Zero /\ n.verified = Zero /\ n.inc = 0
    BY <1>4, <2>2 DEF Idle, Request, Places, Purposes
  <2>4. Set(r, n)
    BY <1>12, <2>1, <2>3 DEF Began
  <2>5. QED
    BY <1>2, <1>12, <2>3, <2>4, StartStands
<1>13. QED
  BY <1>1, <1>7, <1>8, <1>9, <1>10, <1>11, <1>12

LEMMA AuthorisedStands == ASSUME EpochInv, EpochInv', Standing, NEW r \in Requests, Authorised(r) PROVE Standing'
<1>1. PICK q \in Request : q = req[r] /\ RequestHolds(claims, q) /\ RequestStands(q)
  BY OfRequest
<1>2. UNCHANGED <<claims, head, granted>> /\ HeadCalm /\ Zero \in Epochs
  BY ZeroFacts DEF Authorised, HeadCalm
<1>3. CASE Finish(r) /\ UNCHANGED <<row, markers>>
  BY <1>2, <1>3, FinishStands DEF RowCalm
<1>4. CASE Set(r, Read([Idle EXCEPT !.kind = q.kind], "revoke")) /\ UNCHANGED <<row, markers>>
  <2>1. PICK d : d = [Idle EXCEPT !.kind = q.kind]
    OBVIOUS
  <2>2. d \in Request /\ d.inc = 0 /\ d.verified = Zero
    BY <1>2, <2>1 DEF Idle, Request, Places, Purposes
  <2>3. PICK n : n = Read(d, "revoke")
    OBVIOUS
  <2>4. "head" \in Places /\ "revoke" \in Purposes
    BY DEF Places, Purposes
  <2>5. n.at = "head" /\ n.then = "revoke" /\ n.epoch = Zero /\ n.verified = Zero /\ n.inc = 0
    BY <2>2, <2>3 DEF Read, Request
  <2>6. n \in Request
    BY <1>2, <2>2, <2>3, <2>4 DEF Read, Request
  <2>7. QED
    BY <1>2, <1>4, <2>1, <2>3, <2>5, <2>6, StartStands
<1>5. CASE /\ row.state = "live" /\ UNCHANGED <<row, markers>>
           /\ Set(r, Read([Idle EXCEPT !.kind = q.kind, !.inc = row.inc, !.verified = q.verified], "change"))
  <2>1. PICK i \in Incarnations : i = row.inc /\ i \in Nat
    BY EpochFacts
  <2>2. PICK d : d = [Idle EXCEPT !.kind = q.kind, !.inc = i, !.verified = q.verified]
    OBVIOUS
  <2>3. d \in Request /\ d.inc = i /\ d.verified = q.verified
    BY <1>2, <2>1, <2>2 DEF Idle, Request, Places, Purposes
  <2>4. KnownTo(Top, d.verified) /\ "change" \in Purposes /\ d.inc <= row.inc
    BY <1>1, <2>1, <2>3 DEF RequestStands, Informed, Purposes
  <2>5. RequestStands(Read(d, "change"))
    BY <2>1, <2>3, <2>4, ReadStands
  <2>6. PICK n : n = Read(d, "change")
    OBVIOUS
  <2>7. Calm(r, q, n)
    BY <1>1, <1>2, <1>5, <2>1, <2>2, <2>6 DEF Calm, RowCalm, ChangeCalm
  <2>8. QED
    BY <1>1, <2>5, <2>6, <2>7, CalmStands
<1>6. CASE Set(r, Cleanup(q)) /\ MarkDeleting
  BY <1>2, <1>6, CleanupStands
<1>7. QED
  BY <1>1, <1>3, <1>4, <1>5, <1>6 DEF Authorised

(* The claims.  The last generation has no policy of one that is gone, and *)
(* that of a deletion none at all.                                         *)
LEMMA TopFacts ==
  ASSUME EpochInv, EpochInv', Standing
  PROVE  /\ Top.name \in {0, row.inc}
         /\ Top.deleting => row.state # "live" /\ Shut /\ Top.generation < Top.revision
<1>1. Latest(claims, Top) /\ head \in Epochs /\ Revisions \subseteq Nat /\ head.revision <= Top.revision
  BY Tops, EpochFacts, ReadBelow
<1>2. CASE Top = Zero
  BY <1>2, ZeroFacts
<1>3. CASE Top # Zero
  <2>1. PICK t \in Revisions : t = Top.revision /\ claims[t] = Top
    BY <1>1, <1>3 DEF Latest
  <2>2. ~(t < head.revision) /\ HistoryStands
    BY <1>1, <2>1 DEF Standing, Epochs
  <2>3. QED
    BY <2>1, <2>2 DEF HistoryStands, SealedTop, Sealed
<1>4. QED
  BY <1>2, <1>3

(* No policy comes into force by a request that does not change it.        *)
LEMMA ShutStays ==
  ASSUME EpochInv, EpochInv', Standing, NEW r \in Requests, NEW n, Set(r, n), n.then # "change",
         Top'.name = 0, Top.fence <= Top'.fence, Shut \/ Top.fence < Top'.fence
  PROVE  Shut'
<1>1. Top.fence \in Nat /\ Top'.fence \in Nat /\ req \in [Requests -> Request]
  BY EpochFacts DEF Epochs, EpochInv
<1>2. req' = [req EXCEPT ![r] = n]
  BY DEF Set
<1>3. ASSUME NEW s \in Requests, req'[s].then = "change" PROVE req'[s].verified.fence < Top'.fence
  <2>1. s # r /\ req'[s] = req[s]
    BY <1>1, <1>2, <1>3
  <2>2. PICK q \in Request : q = req[s] /\ RequestStands(q)
    BY OfRequest
  <2>3. q.verified.fence \in Nat /\ q.verified.fence <= Top.fence
    BY <2>2 DEF RequestStands, Informed, KnownTo, Request, Epochs
  <2>4. Shut => q.verified.fence < Top.fence
    BY <1>3, <2>1, <2>2 DEF Shut
  <2>5. QED
    BY <1>1, <2>1, <2>2, <2>3, <2>4
<1>4. QED
  BY <1>3 DEF Shut

(* A revocation and an activation keep the policy they read.               *)
LEMMA KeptAdvances ==
  ASSUME EpochInv, EpochInv', Standing, NEW r \in Requests, NEW n, Set(r, n), n.then # "change",
         UNCHANGED <<head, row, markers>>, granted'.changes = granted.changes,
         NEW e \in Epochs, e.revision = Top.revision + 1, e.revision \in Revisions,
         claims' = [claims EXCEPT ![e.revision] = e],
         e.name = Top.name, e.factor = Top.factor, e.fence = Top.fence, e.deleting => Top.deleting,
         e.deleting => e.generation = Top.generation
  PROVE  Advances
<1>1. /\ Top \in Epochs /\ Top' = e /\ row.inc \in Nat
  BY EpochFacts, ClaimTop
<1>2. /\ e.name \in {0, row.inc}
      /\ Top.deleting => row.state # "live" /\ Shut /\ Top.generation < Top.revision
  BY TopFacts
<1>3. e.deleting => e.name = 0 /\ e.generation < e.revision
  BY <1>1, <1>2 DEF Shut, Epochs
<1>4. Top.fence \in Nat /\ e.fence \in Nat /\ Top.fence <= e.fence
  BY <1>1 DEF Epochs
<1>5. e.deleting => Shut'
  BY <1>1, <1>2, <1>3, <1>4, ShutStays
<1>6. \A y \in Epochs : KnownTo(Top, y) => KnownTo(e, y)
  BY DEF KnownTo
<1>7. PolicyStands'
  BY <1>1 DEF Standing, RowStands, PolicyStands
<1>8. Shut => e.name = 0
  BY DEF Shut
<1>9. QED
  BY <1>2, <1>3, <1>4, <1>5, <1>6, <1>7, <1>8, ClaimAdvances

LEMMA OnTop == ASSUME NEW e \in Epochs, NEW c PROVE KnownTo(e, e) /\ (e.revision \in Revisions /\ c[e.revision] = e => Remembered(c, e))
BY DEF KnownTo, Remembered, Epochs

LEMMA RevokeStands ==
  ASSUME EpochInv, EpochInv', Standing, NEW r \in Requests, Revoke(r), ~granted'.late PROVE Standing'
<1>1. PICK q \in Request : q = req[r] /\ RequestHolds(claims, q) /\ RequestStands(q)
  BY OfRequest
<1>2. PICK e \in Epochs : e = Successor(q.epoch) /\ e.revision = q.epoch.revision + 1
  BY <1>1, SuccessorHolds DEF RequestHolds, Request
<1>3. q.then = "revoke" /\ UNCHANGED <<head, row, markers>>
  BY <1>1 DEF Revoke
<1>4. CASE Lost(r) /\ UNCHANGED granted
  BY <1>3, <1>4, LostStands
<1>5. CASE Free(e.revision) /\ Won(r, e, "publish") /\ Noted(e)
  <2>1. PICK n : n = [q EXCEPT !.at = "publish", !.epoch = e, !.tries = 0, !.seen = Zero, !.looked = 0]
    OBVIOUS
  <2>2. e.revision \in Revisions /\ claims' = [claims EXCEPT ![e.revision] = e] /\ Set(r, n)
    BY <1>1, <1>5, <2>1 DEF Won
  <2>3. /\ n.at = "publish" /\ n.epoch = e /\ n.then = "revoke" /\ n.inc = q.inc /\ n.verified = q.verified
    BY <1>3, <2>1 DEF Request
  <2>4. ~TooLate(e) /\ granted'.changes = granted.changes
    BY <1>5 DEF Noted, EpochInv, EpochShapes
  <2>5. q.epoch = Top
    BY <1>1, <1>2, <1>5, <2>4, ClaimsOnTop
  <2>6. e.name = Top.name /\ e.factor = Top.factor /\ e.fence = Top.fence /\ e.deleting = Top.deleting /\ e.generation = Top.generation
    BY <1>2, <2>5 DEF Successor, Epochs, Request
  <2>7. Top' = e /\ claims'[e.revision] = e
    BY <1>2, <2>2, <2>5, ClaimTop
  <2>8. Advances
    BY <1>2, <1>3, <2>2, <2>3, <2>4, <2>5, <2>6, KeptAdvances
  <2>9. KnownTo(Top', e) /\ Remembered(claims', e) /\ KnownTo(Top', q.verified) /\ row' = row /\ (Sealed(0) => Sealed(0)')
    BY <1>1, <1>3, <2>2, <2>7, <2>8, OnTop DEF Advances, TopAdvances, RequestStands, Informed, Request
  <2>10. ~Scans(n) /\ ~Scanned(n) /\ ~Fencing(n) /\ ~Eliding(n) /\ (Removing(n) => Removing(q))
    BY <1>3, <2>3 DEF Scans, Scanned, Fencing, Eliding, Removing
  <2>11. Informed(n)' /\ Enabling(n)' /\ Deleting(n)'
    BY <1>1, <2>3, <2>9, <2>10 DEF RequestStands, Informed, Enabling, Deleting
  <2>12. QED
    BY <2>2, <2>8, <2>11, AllGoOn DEF RequestStands
<1>6. QED
  BY <1>1, <1>2, <1>4, <1>5 DEF Revoke

LEMMA ActivateStands ==
  ASSUME EpochInv, EpochInv', Standing, NEW r \in Requests, Activate(r), ~granted'.late PROVE Standing'
<1>1. PICK q \in Request : q = req[r] /\ RequestHolds(claims, q) /\ RequestStands(q)
  BY OfRequest
<1>2. PICK e : e = Activated(q.epoch)
  OBVIOUS
<1>3. q.at = "read" /\ q.then = "activate" /\ UNCHANGED <<head, row, markers>> /\ q.epoch \in Epochs
  BY <1>1 DEF Activate, Request
<1>4. CASE Lost(r) /\ UNCHANGED granted
  BY <1>3, <1>4, LostStands
<1>5. CASE ~q.epoch.deleting /\ UNCHANGED <<claims, granted>> /\ Set(r, [q EXCEPT !.at = "enable", !.seen = Zero, !.looked = 0])
  <2>1. PICK n : n = [q EXCEPT !.at = "enable", !.seen = Zero, !.looked = 0]
    OBVIOUS
  <2>2. n.at = "enable" /\ n.epoch = q.epoch /\ n.then = "activate" /\ n.inc = q.inc /\ n.verified = q.verified
    BY <1>3, <2>1 DEF Request
  <2>3. Calm(r, q, n)
    BY <1>1, <1>3, <1>5, <2>1, <2>2 DEF Calm, RowCalm, HeadCalm, ChangeCalm
  <2>4. Scanned(q) /\ ~Scans(n) /\ ~Scanned(n) /\ ~Fencing(n) /\ ~Eliding(n) /\ ~Removing(n)
    BY <1>3, <2>2 DEF Scans, Scanned, Fencing, Eliding, Removing
  <2>5. Informed(n) /\ Enabling(n) /\ Deleting(n)
    BY <1>1, <1>3, <1>5, <2>2, <2>4 DEF RequestStands, Informed, Enabling, Deleting
  <2>6. QED
    BY <1>1, <2>3, <2>5, CalmStands DEF RequestStands
<1>6. CASE Free(e.revision) /\ Won(r, e, "enable") /\ Noted(e) /\ q.epoch.deleting
  <2>1. PICK n : n = [q EXCEPT !.at = "enable", !.epoch = e, !.tries = 0, !.seen = Zero, !.looked = 0]
    OBVIOUS
  <2>2. /\ e \in Epochs /\ e.revision = q.epoch.revision + 1 /\ ~e.deleting
        /\ e.name = q.epoch.name /\ e.factor = q.epoch.factor /\ e.fence = q.epoch.fence
    <3>1. PICK k \in Nat : k = q.epoch.revision + 1
      BY <1>3 DEF Epochs
    <3>2. e = [q.epoch EXCEPT !.revision = k, !.deleting = FALSE, !.generation = 0]
      BY <1>2, <1>3, <3>1 DEF Activated, Successor, Epochs
    <3>3. QED
      BY <1>3, <3>1, <3>2 DEF Epochs
  <2>3. e.revision \in Revisions /\ claims' = [claims EXCEPT ![e.revision] = e] /\ Set(r, n)
    BY <1>1, <1>6, <2>1 DEF Won
  <2>4. /\ n.at = "enable" /\ n.epoch = e /\ n.then = "activate" /\ n.inc = q.inc /\ n.verified = q.verified
    BY <1>3, <2>1 DEF Request
  <2>5. ~TooLate(e) /\ granted'.changes = granted.changes
    BY <1>6 DEF Noted, EpochInv, EpochShapes
  <2>6. q.epoch = Top
    BY <1>1, <1>6, <2>2, <2>5, ClaimsOnTop
  <2>7. Top' = e /\ claims'[e.revision] = e
    BY <2>2, <2>3, <2>6, ClaimTop
  <2>8. Advances
    BY <1>3, <2>2, <2>3, <2>4, <2>5, <2>6, KeptAdvances
  <2>9. KnownTo(Top', e) /\ Remembered(claims', e) /\ KnownTo(Top', q.verified) /\ row' = row /\ ~Top'.deleting
    BY <1>1, <1>3, <2>2, <2>3, <2>7, <2>8, OnTop DEF Advances, TopAdvances, RequestStands, Informed, Request
  <2>10. ~Scans(n) /\ ~Scanned(n) /\ ~Fencing(n) /\ ~Eliding(n) /\ ~Removing(n)
    BY <2>4 DEF Scans, Scanned, Fencing, Eliding, Removing
  <2>11. Informed(n)' /\ Enabling(n)' /\ Deleting(n)'
    BY <1>1, <2>4, <2>9, <2>10 DEF RequestStands, Informed, Enabling, Deleting
  <2>12. QED
    BY <2>3, <2>8, <2>11, AllGoOn DEF RequestStands
<1>7. QED
  BY <1>1, <1>2, <1>4, <1>5, <1>6 DEF Activate

LEMMA BeginDeletionStands ==
  ASSUME EpochInv, EpochInv', Standing, NEW r \in Requests, BeginDeletion(r), ~granted'.late PROVE Standing'
<1>1. PICK q \in Request : q = req[r] /\ RequestHolds(claims, q) /\ RequestStands(q)
  BY OfRequest
<1>2. PICK e : e = Fenced(q.epoch)
  OBVIOUS
<1>3. q.at = "read" /\ q.then = "fence" /\ UNCHANGED <<head, row, markers>> /\ q.epoch \in Epochs
  BY <1>1 DEF BeginDeletion, Request
<1>4. CASE Lost(r) /\ UNCHANGED granted
  BY <1>3, <1>4, LostStands
<1>5. CASE q.epoch.deleting /\ Set(r, [q EXCEPT !.at = "publish", !.tries = 0]) /\ UNCHANGED <<claims, granted>>
  <2>1. PICK n : n = [q EXCEPT !.at = "publish", !.tries = 0]
    OBVIOUS
  <2>2. n.at = "publish" /\ n.epoch = q.epoch /\ n.then = "fence" /\ n.inc = q.inc /\ n.verified = q.verified
    BY <1>3, <2>1 DEF Request
  <2>3. Calm(r, q, n)
    BY <1>1, <1>3, <1>5, <2>1, <2>2 DEF Calm, RowCalm, HeadCalm, ChangeCalm
  <2>4. /\ Fencing(q) /\ (Threatens(n) => Threatens(q))
        /\ ~Scans(n) /\ ~Eliding(n) /\ ~Removing(n)
    BY <1>3, <1>5, <2>2 DEF Scans, Scanned, Fencing, Eliding, Removing, Threatens
  <2>5. Informed(n) /\ Enabling(n) /\ Deleting(n)
    BY <1>1, <1>3, <1>5, <2>2, <2>4 DEF RequestStands, Informed, Enabling, Deleting
  <2>6. QED
    BY <1>1, <2>3, <2>5, CalmStands DEF RequestStands
<1>6. CASE /\ Free(e.revision) /\ Won(r, e, "publish")
           /\ granted' = [granted EXCEPT !.late = @ \/ TooLate(e)
                                                   \/ row # [inc |-> q.inc, state |-> "deleting"]]
  <2>1. PICK n : n = [q EXCEPT !.at = "publish", !.epoch = e, !.tries = 0, !.seen = Zero, !.looked = 0]
    OBVIOUS
  <2>2. PICK k \in Nat, f \in Nat : k = q.epoch.revision /\ f = q.epoch.fence
    BY <1>3 DEF Epochs
  <2>3. e = [revision |-> k + 1, name |-> 0, factor |-> 0, fence |-> f + 1, deleting |-> TRUE, generation |-> k]
    BY <1>2, <2>2 DEF Fenced, Zero
  <2>4. /\ e \in Epochs /\ e.revision = k + 1 /\ e.deleting /\ e.name = 0 /\ e.fence = f + 1 /\ e.generation = k
    BY <2>2, <2>3 DEF Epochs
  <2>5. e.revision \in Revisions /\ claims' = [claims EXCEPT ![e.revision] = e] /\ Set(r, n)
    BY <1>1, <1>6, <2>1 DEF Won
  <2>6. /\ n.at = "publish" /\ n.epoch = e /\ n.then = "fence" /\ n.inc = q.inc /\ n.verified = q.verified
    BY <1>3, <2>1 DEF Request
  <2>7. ~TooLate(e) /\ row = [inc |-> q.inc, state |-> "deleting"]
    BY <1>6 DEF EpochInv, EpochShapes
  <2>8. q.epoch = Top /\ e.revision = q.epoch.revision + 1 /\ e.fence = q.epoch.fence + 1
    BY <1>1, <1>6, <2>2, <2>4, <2>7, ClaimsOnTop
  <2>9. Top' = e /\ claims'[e.revision] = e
    BY <2>4, <2>5, <2>8, ClaimTop
  <2>10. Top.fence < e.fence /\ Top.fence <= e.fence /\ e.generation < e.revision /\ e # Top
    BY <1>3, <2>2, <2>4, <2>8
  <2>11. Shut'
    BY <2>4, <2>5, <2>6, <2>9, <2>10, ShutStays
  <2>12. ASSUME NEW y \in Epochs, KnownTo(Top, y) PROVE KnownTo(e, y)
    <3>1. y.fence \in Nat /\ y.fence <= f /\ e.fence = f + 1
      BY <2>2, <2>4, <2>8, <2>12 DEF KnownTo, Epochs
    <3>2. y.fence <= e.fence /\ y.fence # e.fence
      BY <2>2, <3>1
    <3>3. QED
      BY <3>2 DEF KnownTo
  <2>13. PolicyStands'
    BY <1>3, <2>7 DEF PolicyStands
  <2>14. row.state = "deleting" /\ row.inc = q.inc
    BY <2>7
  <2>15. e.revision = Top.revision + 1
    BY <2>8
  <2>16. Advances
    BY <1>3, <2>4, <2>5, <2>6, <2>10, <2>11, <2>12, <2>13, <2>14, <2>15, ClaimAdvances
  <2>17. KnownTo(Top', e) /\ Remembered(claims', e) /\ KnownTo(Top', q.verified) /\ row' = row
    BY <1>1, <1>3, <2>4, <2>5, <2>9, <2>16, OnTop DEF Advances, TopAdvances, RequestStands, Informed, Request
  <2>18. Sealed(e.revision)'
    <3>1. PICK m \in Nat : m = e.revision
      BY <2>4
    <3>2. SealedTop'
      BY <2>4, <2>9, <2>10, <2>16 DEF Advances, TopAdvances
    <3>3. Sealed(m)'
      BY <2>9, <3>1, <3>2 DEF SealedTop, Sealed
    <3>4. QED
      BY <3>1, <3>3
  <2>19. ~Scans(n) /\ ~Eliding(n) /\ ~Removing(n)
    BY <2>6 DEF Scans, Eliding, Removing
  <2>20. Informed(n)' /\ Enabling(n)'
    BY <1>1, <2>6, <2>17, <2>19 DEF RequestStands, Informed, Enabling
  <2>21. Deleting(n)'
    BY <2>6, <2>14, <2>17, <2>18, <2>19 DEF Deleting
  <2>22. QED
    BY <2>5, <2>16, <2>20, <2>21, AllGoOn DEF RequestStands
<1>7. QED
  BY <1>1, <1>2, <1>4, <1>5, <1>6 DEF BeginDeletion

LEMMA ChangeFactorStands ==
  ASSUME EpochInv, EpochInv', Standing, NEW r \in Requests, ChangeFactor(r), ~granted'.late PROVE Standing'
<1>1. PICK q \in Request : q = req[r] /\ RequestHolds(claims, q) /\ RequestStands(q)
  BY OfRequest
<1>2. PICK x \in Nat : x = IF q.verified.name = q.inc THEN q.verified.factor ELSE 0
  BY DEF Request, Epochs
<1>3. PICK e : e = Changed(q.epoch, q.inc, x + 1)
  OBVIOUS
<1>4. /\ UNCHANGED <<head, row, markers>> /\ q.then = "change" /\ q.epoch \in Epochs /\ q.verified \in Epochs
      /\ q.inc \in {0} \cup Incarnations
  BY <1>1 DEF ChangeFactor, Request
<1>5. CASE Finish(r) /\ UNCHANGED <<claims, granted>>
  BY <1>4, <1>5, FinishStands DEF RowCalm, HeadCalm
<1>6. CASE Lost(r) /\ UNCHANGED granted
  BY <1>4, <1>6, LostStands
<1>7. CASE /\ ~Stale(q) /\ Free(e.revision) /\ e.revision \in Revisions /\ Finish(r)
           /\ claims' = [claims EXCEPT ![e.revision] = e]
           /\ granted' = [changes |-> granted.changes + IF row.inc = q.inc THEN 1 ELSE 0,
                           late |-> granted.late \/ TooLate(e)]
  <2>1. /\ ~q.epoch.deleting /\ q.epoch.fence = q.verified.fence
        /\ q.epoch.name = q.inc => q.epoch.factor = x
    BY <1>2, <1>7 DEF Stale
  <2>2. PICK y \in Nat, k \in Nat, f \in Nat : y = x + 1 /\ k = q.epoch.revision + 1 /\ f = q.epoch.fence
    <3>1. x + 1 \in Nat /\ q.epoch.revision + 1 \in Nat /\ q.epoch.fence \in Nat
      BY <1>2, <1>4 DEF Epochs
    <3>2. QED
      BY <3>1
  <2>3. e = [q.epoch EXCEPT !.revision = k, !.name = q.inc, !.factor = y]
    BY <1>3, <1>4, <2>2 DEF Changed, Successor, Epochs
  <2>4. /\ e \in Epochs /\ e.revision = q.epoch.revision + 1 /\ ~e.deleting /\ e.name = q.inc /\ e.factor = y
        /\ e.fence = f
    <3>1. q.inc \in Nat
      BY <1>4 DEF Incarnations
    <3>2. QED
      BY <1>4, <2>1, <2>2, <2>3, <3>1 DEF Epochs
  <2>5. ~TooLate(e)
    BY <1>7
  <2>6. q.epoch = Top
    BY <1>1, <1>7, <2>4, <2>5, ClaimsOnTop
  <2>7. f = Top.fence /\ q.verified.fence = f /\ ~(f < f)
    BY <2>1, <2>2, <2>6
  <2>8. q.inc = row.inc
    BY <1>1, <1>4, <2>7 DEF RequestStands, Informed
  <2>9. ~Shut
    BY <1>1, <1>4, <2>7 DEF Shut
  <2>10. row.inc # 0 /\ row.inc \in Nat /\ Top \in Epochs
    BY EpochFacts DEF Incarnations
  <2>11. Top.name \in {0, row.inc}
    BY TopFacts
  <2>12. ASSUME NEW z \in Epochs, KnownTo(Top, z) PROVE KnownTo(e, z)
    BY <2>4, <2>7, <2>8, <2>11, <2>12 DEF KnownTo
  <2>13. Top' = e
    BY <1>7, <2>4, <2>6, ClaimTop
  <2>14. PolicyStands'
    <3>1. SUFFICES ASSUME row.state \in {"live", "registering"} PROVE granted'.changes = y
      BY <1>4, <2>4, <2>8, <2>13 DEF PolicyStands
    <3>2. granted.changes = IF Top.name = row.inc THEN Top.factor ELSE 0
      BY <3>1 DEF Standing, RowStands, PolicyStands
    <3>3. granted'.changes = granted.changes + 1
      BY <1>7, <2>8
    <3>4. CASE Top.name = row.inc
      BY <2>1, <2>2, <2>6, <2>8, <3>2, <3>3, <3>4
    <3>5. CASE Top.name = 0
      <4>1. KnownTo(Top, q.verified)
        BY <1>1 DEF RequestStands, Informed
      <4>2. q.verified.name # q.inc
        BY <2>7, <2>8, <2>10, <3>5, <4>1 DEF KnownTo
      <4>3. x = 0 /\ granted.changes = 0
        BY <1>2, <2>10, <3>2, <3>5, <4>2
      <4>4. QED
        BY <2>2, <3>3, <4>3
    <3>6. QED
      BY <2>11, <3>4, <3>5
  <2>15. PICK n : n = Idle
    OBVIOUS
  <2>16. Set(r, n) /\ n.then # "change" /\ RequestStands(n)'
    BY <1>7, <2>15, IdleStands DEF Finish
  <2>17. Top.fence <= e.fence /\ e.name \in {0, row.inc} /\ e.revision = Top.revision + 1
    BY <2>4, <2>6, <2>7, <2>8
  <2>18. Advances
    BY <1>4, <1>7, <2>4, <2>9, <2>12, <2>14, <2>16, <2>17, ClaimAdvances
  <2>19. QED
    BY <2>16, <2>18, AllGoOn
<1>8. QED
  BY <1>1, <1>2, <1>3, <1>5, <1>6, <1>7 DEF ChangeFactor

(* The head after a claim.                                                 *)
LEMMA PublishedStands ==
  ASSUME EpochInv, EpochInv', Standing, NEW r \in Requests, NEW q \in Request, q = req[r],
         RequestHolds(claims, q), RequestStands(q), q.at \in {"publish", "swap"}, Set(r, Published(q)),
         UNCHANGED <<claims, row, markers, granted>>,
         head' = head \/ (head' = q.epoch /\ head.revision <= head'.revision),
         q.then = "fence" => q.epoch.revision <= head'.revision
  PROVE  Standing'
<1>1. RowCalm /\ HeadCalm /\ Informed(q) /\ Deleting(q) /\ EraseHolds(q)
  BY DEF RowCalm, HeadCalm, RequestStands, Informed, RequestHolds
<1>2. CASE q.then = "fence"
  <2>1. PICK n : n = [q EXCEPT !.at = "erase", !.cursor = q.mark]
    OBVIOUS
  <2>2. Published(q) = n
    BY <1>2, <2>1 DEF Published
  <2>3. n.at = "erase" /\ n.then = "fence" /\ n.epoch = q.epoch /\ n.inc = q.inc /\ n.verified = q.verified
    BY <1>2, <2>1 DEF Request
  <2>4. Calm(r, q, n)
    BY <1>1, <2>2, <2>3 DEF Calm, ChangeCalm
  <2>5. Advances
    BY <2>4, CalmAdvances
  <2>6. ~Scans(n) /\ ~Fencing(n) /\ ~Removing(n) /\ Fencing(q)
    BY <1>1, <1>2, <2>3 DEF Scans, Scanned, Fencing, Removing, EraseHolds
  <2>7. Top' = Top
    BY TopSame
  <2>8. Informed(n)' /\ Enabling(n)'
    BY <1>1, <2>3, <2>6, <2>7 DEF Informed, Enabling
  <2>9. ASSUME Threatens(n)' PROVE Sealed(0)'
    <3>1. Threatens(q)
      BY <2>3, <2>9 DEF Threatens
    <3>2. PICK m \in Nat : m = q.epoch.revision
      BY DEF Request, Epochs
    <3>3. Sealed(m)
      BY <1>1, <2>6, <3>1, <3>2 DEF Deleting
    <3>4. Sealed(m)'
      BY <2>5, <3>3 DEF Advances
    <3>5. head'.revision \in Nat /\ Revisions \subseteq Nat /\ m <= head'.revision
      BY <1>2, <3>2, EpochFacts DEF Epochs
    <3>6. \A k \in Revisions : k < m => k < head'.revision
      BY <3>2, <3>5
    <3>7. QED
      BY <3>4, <3>6 DEF Sealed
  <2>10. Deleting(n)'
    BY <1>1, <1>2, <2>3, <2>6, <2>9 DEF Deleting
  <2>11. RequestStands(n)'
    BY <2>8, <2>10 DEF RequestStands
  <2>12. QED
    BY <2>4, <2>11, CalmStands
<1>3. CASE q.then = "revoke" /\ q.kind \in {"delete", "job", "register"}
  <2>1. PICK n : n = [Idle EXCEPT !.kind = q.kind, !.inc = q.inc, !.born = q.born, !.at = "remove"]
    OBVIOUS
  <2>2. Published(q) = n
    BY <1>3, <2>1 DEF Published
  <2>3. /\ n \in Request /\ n.at = "remove" /\ n.then = "none" /\ n.epoch = Zero /\ n.inc = q.inc /\ n.verified = Zero
    BY <2>1, ZeroFacts DEF Idle, Request, Places, Purposes
  <2>4. Calm(r, q, n)
    BY <1>1, <2>2, <2>3 DEF Calm, ChangeCalm
  <2>5. ~Scans(n) /\ ~Eliding(n) /\ (q.inc = row.inc => Removing(q))
    <3>1. row.inc # 0
      BY EpochFacts DEF Incarnations
    <3>2. QED
      BY <1>3, <2>3, <3>1 DEF Scans, Eliding, Removing
  <2>6. Top \in Epochs
    BY EpochFacts
  <2>7. RequestStands(n)
    BY <1>1, <2>3, <2>5, <2>6, PlainStands, ZeroKnown DEF Informed, Deleting
  <2>8. QED
    BY <2>2, <2>4, <2>7, CalmStands
<1>4. CASE ~(q.then = "fence") /\ ~(q.then = "revoke" /\ q.kind \in {"delete", "job", "register"})
  <2>1. Published(q) = Idle
    BY <1>4 DEF Published
  <2>2. QED
    BY <1>1, <2>1, FinishStands DEF Finish
<1>5. QED
  BY <1>2, <1>3, <1>4

(* A request that goes from one attempt to publish to the next.            *)
LEMMA MoveStands ==
  ASSUME EpochInv, EpochInv', Standing, NEW r \in Requests, NEW q \in Request, q = req[r], RequestStands(q),
         NEW n, Set(r, n), q.at \in {"publish", "swap"}, n.at \in {"publish", "swap"},
         n.then = q.then, n.epoch = q.epoch, n.inc = q.inc, n.verified = q.verified,
         n.at = "swap" => n.seen.revision < q.epoch.revision, UNCHANGED <<claims, head, row, markers, granted>>
  PROVE  Standing'
<1>1. Calm(r, q, n)
  BY DEF Calm, RowCalm, HeadCalm, ChangeCalm
<1>2. /\ ~Scans(n) /\ ~Scanned(n) /\ ~Eliding(n) /\ (Removing(n) => Removing(q))
      /\ (Fencing(n) => Fencing(q)) /\ (Threatens(n) => Threatens(q))
  BY DEF Scans, Scanned, Eliding, Removing, Fencing, Threatens
<1>3. Informed(n) /\ Enabling(n)
  BY <1>2 DEF RequestStands, Informed, Enabling
<1>4. Deleting(n)
  BY <1>2 DEF RequestStands, Deleting
<1>5. QED
  BY <1>1, <1>3, <1>4, CalmStands DEF RequestStands

LEMMA PublishHeadStands == ASSUME EpochInv, EpochInv', Standing, NEW r \in Requests, PublishHead(r) PROVE Standing'
<1>1. PICK q \in Request : q = req[r] /\ RequestHolds(claims, q) /\ RequestStands(q)
  BY OfRequest
<1>2. q.at = "publish" /\ UNCHANGED <<claims, head, row, markers, granted>>
  BY <1>1 DEF PublishHead
<1>3. head.revision \in Nat /\ q.epoch.revision \in Nat /\ head'.revision = head.revision
  BY <1>2, EpochFacts DEF Request, Epochs
<1>4. CASE head.revision >= q.epoch.revision /\ Set(r, Published(q))
  BY <1>1, <1>2, <1>3, <1>4, PublishedStands
<1>5. CASE ~(head.revision >= q.epoch.revision) /\ Set(r, [q EXCEPT !.at = "swap", !.seen = head])
  <2>1. PICK n : n = [q EXCEPT !.at = "swap", !.seen = head]
    OBVIOUS
  <2>2. /\ n.at = "swap" /\ n.seen = head /\ n.then = q.then /\ n.epoch = q.epoch /\ n.inc = q.inc /\ n.verified = q.verified
    BY <2>1 DEF Request
  <2>3. n.seen.revision < q.epoch.revision
    BY <1>3, <1>5, <2>2
  <2>4. QED
    BY <1>1, <1>2, <1>5, <2>1, <2>2, <2>3, MoveStands
<1>6. QED
  BY <1>1, <1>4, <1>5 DEF PublishHead

LEMMA SwapHeadStands == ASSUME EpochInv, EpochInv', Standing, NEW r \in Requests, SwapHead(r) PROVE Standing'
<1>1. PICK q \in Request : q = req[r] /\ RequestHolds(claims, q) /\ RequestStands(q)
  BY OfRequest
<1>2. q.at = "swap" /\ UNCHANGED <<claims, row, markers, granted>> /\ q.seen.revision < q.epoch.revision
  BY <1>1 DEF SwapHead, RequestStands, Deleting
<1>3. q.seen.revision \in Nat /\ q.epoch.revision \in Nat
  BY DEF Request, Epochs
<1>4. CASE head = q.seen /\ head' = q.epoch /\ Set(r, Published(q))
  <2>1. head.revision <= head'.revision /\ q.epoch.revision <= head'.revision
    BY <1>2, <1>3, <1>4
  <2>2. QED
    BY <1>1, <1>2, <1>4, <2>1, PublishedStands
<1>5. CASE q.then = "revoke" /\ Set(r, Published(q)) /\ UNCHANGED head
  BY <1>1, <1>2, <1>5, PublishedStands
<1>6. CASE Finish(r) /\ UNCHANGED head
  BY <1>2, <1>6, FinishStands DEF RowCalm, HeadCalm
<1>7. CASE Set(r, [q EXCEPT !.at = "publish", !.tries = @ + 1]) /\ UNCHANGED head
  <2>1. PICK n : n = [q EXCEPT !.at = "publish", !.tries = @ + 1]
    OBVIOUS
  <2>2. /\ n.at = "publish" /\ n.then = q.then /\ n.epoch = q.epoch /\ n.inc = q.inc /\ n.verified = q.verified
    BY <2>1 DEF Request
  <2>3. QED
    BY <1>1, <1>2, <1>7, <2>1, <2>2, MoveStands
<1>8. QED
  BY <1>1, <1>4, <1>5, <1>6, <1>7 DEF SwapHead

(* The erasure.                                                            *)
LEMMA ElidingStands ==
  ASSUME EpochInv, NEW q \in Request, RequestStands(q), Eliding(q), NEW n, Eliding(n),
         n.then = q.then, n.epoch = q.epoch, n.inc = q.inc, n.verified = q.verified
  PROVE  RequestStands(n) /\ n.then # "change"
<1>1. q.then = "fence"
  BY DEF RequestStands, Deleting
<1>2. /\ ~Scans(n) /\ ~Fencing(n) /\ ~Removing(n) /\ n.at \notin {"swap", "enable"}
      /\ (Threatens(n) => Threatens(q))
  BY <1>1 DEF Scans, Scanned, Fencing, Removing, Eliding, Threatens
<1>3. Informed(n) /\ Enabling(n)
  BY <1>1, <1>2 DEF RequestStands, Informed, Enabling
<1>4. Deleting(n)
  BY <1>1, <1>2 DEF RequestStands, Deleting
<1>5. QED
  BY <1>1, <1>3, <1>4 DEF RequestStands

LEMMA EraseLookStands == ASSUME EpochInv, EpochInv', Standing, NEW r \in Requests, EraseLook(r) PROVE Standing'
<1>1. PICK q \in Request : q = req[r] /\ RequestHolds(claims, q) /\ RequestStands(q)
  BY OfRequest
<1>2. q.at = "erase" /\ UNCHANGED <<claims, head, row, markers, granted>>
  BY <1>1 DEF EraseLook
<1>3. PICK n : /\ n \in {[q EXCEPT !.at = "fill"], [q EXCEPT !.cursor = @ + 1],
                         [q EXCEPT !.at = "release", !.seen = claims[q.cursor]]}
               /\ Set(r, n)
  BY <1>1 DEF EraseLook
<1>4. /\ Eliding(n) /\ n.then = q.then /\ n.epoch = q.epoch /\ n.inc = q.inc /\ n.verified = q.verified
  BY <1>2, <1>3 DEF Request, Eliding
<1>5. Eliding(q)
  BY <1>2 DEF Eliding
<1>6. RequestStands(n) /\ n.then # "change"
  BY <1>1, <1>4, <1>5, ElidingStands
<1>7. Calm(r, q, n)
  BY <1>1, <1>2, <1>3, <1>6 DEF Calm, RowCalm, HeadCalm, ChangeCalm
<1>8. QED
  BY <1>1, <1>6, <1>7, CalmStands

LEMMA EraseReleaseStands == ASSUME EpochInv, EpochInv', Standing, NEW r \in Requests, EraseRelease(r) PROVE Standing'
<1>1. PICK q \in Request : q = req[r] /\ RequestHolds(claims, q) /\ RequestStands(q)
  BY OfRequest
<1>2. q.at = "release" /\ UNCHANGED <<head, row, markers, granted>>
  BY <1>1 DEF EraseRelease
<1>3. CASE Finish(r) /\ UNCHANGED claims
  BY <1>2, <1>3, FinishStands DEF RowCalm, HeadCalm
<1>4. CASE /\ claims[q.cursor] \in {q.seen, Zero} /\ claims' = [claims EXCEPT ![q.cursor] = Zero]
           /\ Set(r, [q EXCEPT !.at = "fill"])
  <2>1. PICK n : n = [q EXCEPT !.at = "fill"]
    OBVIOUS
  <2>2. /\ n \in Request /\ Eliding(n) /\ Eliding(q)
        /\ n.then = q.then /\ n.epoch = q.epoch /\ n.inc = q.inc /\ n.verified = q.verified
    BY <1>2, <2>1 DEF Request, Eliding, Places
  <2>3. RequestStands(n) /\ n.then # "change"
    BY <1>1, <2>2, ElidingStands
  <2>4. Advances
    BY <1>1, <1>2, <1>4, <2>1, <2>3, ReleaseAdvances
  <2>5. n.epoch.revision <= Top.revision
    BY <1>1, <2>2, ReadBelow
  <2>6. RequestStands(n)'
    BY <2>2, <2>3, <2>4, <2>5, RequestGoesOn
  <2>7. QED
    BY <1>4, <2>1, <2>4, <2>6, AllGoOn
<1>5. QED
  BY <1>1, <1>3, <1>4 DEF EraseRelease

LEMMA EraseFillStands == ASSUME EpochInv, EpochInv', Standing, NEW r \in Requests, EraseFill(r) PROVE Standing'
<1>1. PICK q \in Request : q = req[r] /\ RequestHolds(claims, q) /\ RequestStands(q)
  BY OfRequest
<1>2. q.at = "fill" /\ UNCHANGED <<head, row, markers, granted>>
  BY <1>1 DEF EraseFill
<1>3. CASE Finish(r) /\ UNCHANGED claims
  BY <1>2, <1>3, FinishStands DEF RowCalm, HeadCalm
<1>4. CASE /\ Free(q.cursor) /\ claims' = [claims EXCEPT ![q.cursor] = Anonymous(q.cursor, q.epoch)]
           /\ Set(r, [q EXCEPT !.at = "erase", !.cursor = @ + 1])
  <2>1. PICK c \in Nat : c = q.cursor + 1
    BY DEF Request
  <2>2. PICK n : n = [q EXCEPT !.at = "erase", !.cursor = c]
    OBVIOUS
  <2>3. /\ n \in Request /\ Eliding(n) /\ Eliding(q)
        /\ n.then = q.then /\ n.epoch = q.epoch /\ n.inc = q.inc /\ n.verified = q.verified
    BY <1>2, <2>2 DEF Request, Eliding, Places
  <2>4. Set(r, n)
    BY <1>4, <2>1, <2>2
  <2>5. RequestStands(n) /\ n.then # "change"
    BY <1>1, <2>3, ElidingStands
  <2>6. Advances
    BY <1>1, <1>2, <1>4, <2>4, <2>5, FillAdvances
  <2>7. n.epoch.revision <= Top.revision
    BY <1>1, <2>3, ReadBelow
  <2>8. RequestStands(n)'
    BY <2>3, <2>5, <2>6, <2>7, RequestGoesOn
  <2>9. QED
    BY <2>4, <2>6, <2>8, AllGoOn
<1>5. QED
  BY <1>1, <1>3, <1>4 DEF EraseFill

LEMMA ErasePauseStands == ASSUME EpochInv, EpochInv', Standing, NEW r \in Requests, ErasePause(r) PROVE Standing'
<1>1. PICK i, c : i = req[r].inc /\ c = req[r].cursor
  OBVIOUS
<1>2. /\ Finish(r) /\ UNCHANGED <<claims, head, row, granted>>
      /\ markers' = [markers EXCEPT ![i].cursor = c] \/ markers' = markers
  BY <1>1 DEF ErasePause
<1>3. \A j \in Incarnations : markers'[j].erased = markers[j].erased
  BY <1>2 DEF EpochInv, EpochShapes
<1>4. RowCalm /\ HeadCalm
  BY <1>2, <1>3 DEF RowCalm, HeadCalm
<1>5. QED
  BY <1>2, <1>4, FinishStands

LEMMA EraseDoneStands == ASSUME EpochInv, EpochInv', Standing, NEW r \in Requests, EraseDone(r) PROVE Standing'
<1>1. PICK q \in Request : q = req[r] /\ RequestHolds(claims, q) /\ RequestStands(q)
  BY OfRequest
<1>2. q.at = "erase" /\ UNCHANGED <<claims, head, row, granted>> /\ HeadCalm
  BY <1>1 DEF EraseDone, HeadCalm
<1>3. q.then = "fence" /\ (q.inc = row.inc => row.state \in {"deleting", "none"} /\ Sealed(0)) /\ q.inc <= row.inc
  BY <1>1, <1>2 DEF RequestStands, Deleting, Eliding, Threatens, Informed
<1>4. CASE Finish(r) /\ UNCHANGED markers
  BY <1>2, <1>4, FinishStands DEF RowCalm
<1>5. CASE /\ markers' = [markers EXCEPT ![q.inc] = [cursor |-> q.cursor, erased |-> TRUE]]
           /\ Set(r, Read(q, "revoke"))
  <2>1. \A j \in Incarnations : markers'[j] = markers[j] \/ j = q.inc
    BY <1>5 DEF EpochInv, EpochShapes
  <2>2. RowCalm
    BY <1>2, <1>3, <2>1 DEF RowCalm
  <2>3. PICK n : n = Read(q, "revoke")
    OBVIOUS
  <2>4. n.then # "change"
    BY <2>3 DEF Read, Request
  <2>5. Calm(r, q, n)
    BY <1>1, <1>2, <1>5, <2>2, <2>3, <2>4 DEF Calm, ChangeCalm
  <2>6. KnownTo(Top, q.verified) /\ "revoke" \in Purposes
    BY <1>1 DEF RequestStands, Informed, Purposes
  <2>7. RequestStands(Read(q, "revoke"))
    BY <1>3, <2>6, ReadStands
  <2>8. QED
    BY <1>1, <2>3, <2>5, <2>7, CalmStands
<1>6. QED
  BY <1>1, <1>4, <1>5 DEF EraseDone

LEMMA RemoveRowStands == ASSUME EpochInv, EpochInv', Standing, NEW r \in Requests, RemoveRow(r) PROVE Standing'
<1>1. PICK q \in Request : q = req[r] /\ RequestHolds(claims, q) /\ RequestStands(q)
  BY OfRequest
<1>2. q.at = "remove" /\ UNCHANGED <<claims, head, markers, granted>> /\ HeadCalm
  BY <1>1 DEF RemoveRow, HeadCalm
<1>3. Removing(q) /\ (q.inc = row.inc => Sealed(0))
  BY <1>1, <1>2 DEF Removing, RequestStands, Deleting
<1>4. RowCalm
  <2>1. CASE row' = row
    BY <1>2, <2>1 DEF RowCalm
  <2>2. CASE row = [inc |-> q.inc, state |-> "deleting"] /\ row' = [row EXCEPT !.state = "none"]
    <3>1. row.inc = q.inc /\ row' = [inc |-> q.inc, state |-> "none"]
      BY <2>2
    <3>2. row'.inc = row.inc /\ row'.state = "none"
      BY <3>1
    <3>3. QED
      BY <1>2, <1>3, <3>1, <3>2 DEF RowCalm
  <2>3. QED
    BY <1>1, <2>1, <2>2 DEF RemoveRow
<1>5. CASE Finish(r)
  BY <1>2, <1>4, <1>5, FinishStands
<1>6. CASE Set(r, [q EXCEPT !.at = "enrol"])
  <2>1. PICK n : n = [q EXCEPT !.at = "enrol"]
    OBVIOUS
  <2>2. /\ n \in Request /\ n.at = "enrol" /\ n.then = q.then /\ n.epoch = q.epoch /\ n.inc = q.inc /\ n.verified = q.verified
    BY <2>1 DEF Request, Places
  <2>3. Calm(r, q, n)
    BY <1>1, <1>2, <1>4, <1>6, <2>1, <2>2 DEF Calm, ChangeCalm
  <2>4. ~Scans(n) /\ ~Eliding(n)
    BY <2>2 DEF Scans, Eliding
  <2>5. RequestStands(n)
    BY <1>1, <1>3, <2>2, <2>4, PlainStands DEF RequestStands, Informed, Deleting
  <2>6. QED
    BY <1>1, <2>3, <2>5, CalmStands
<1>7. QED
  BY <1>1, <1>5, <1>6 DEF RemoveRow

(* The account is registered again: nothing of the one that is gone counts *)
(* any more.                                                               *)
LEMMA EnrolStands == ASSUME EpochInv, EpochInv', Standing, NEW r \in Requests, Enrol(r) PROVE Standing'
<1>1. PICK q \in Request : q = req[r] /\ RequestHolds(claims, q) /\ RequestStands(q)
  BY OfRequest
<1>2. UNCHANGED <<claims, head, markers>> /\ HeadCalm /\ Top' = Top
  BY TopSame DEF Enrol, HeadCalm
<1>3. CASE Finish(r) /\ UNCHANGED <<row, granted>>
  BY <1>2, <1>3, FinishStands DEF RowCalm
<1>4. CASE /\ row.state = "none" /\ row.inc + 1 \in Incarnations
           /\ row' = [inc |-> row.inc + 1, state |-> "registering"]
           /\ granted' = [granted EXCEPT !.changes = 0]
           /\ Set(r, Read([q EXCEPT !.inc = row.inc + 1, !.tries = 0], "activate"))
  <2>1. /\ claims \in [Revisions -> Epochs] /\ head \in Epochs /\ Top \in Epochs /\ row.inc \in Nat \ {0}
    BY EpochFacts DEF Incarnations
  <2>2. PICK i \in Nat \ {0}, j \in Incarnations : i = row.inc /\ j = i + 1 /\ j \in Nat /\ i < j /\ j # 0
    BY <1>4, <2>1
  <2>3. row'.inc = j /\ row'.state = "registering" /\ granted'.changes = 0
    BY <1>4, <2>2 DEF EpochInv, EpochShapes
  <2>4. HistoryStands /\ RowStands /\ Sealed(0) /\ Shut
    BY <1>4 DEF Standing, RowStands, Sealed
  <2>5. ASSUME NEW k \in Revisions PROVE claims[k].name <= i /\ claims[k].name # j /\ (claims[k].name # 0 => k < head.revision)
    <3>1. claims[k].name \in Nat /\ claims[k].name <= i
      BY <2>1, <2>2, <2>4 DEF HistoryStands, Epochs
    <3>2. ~(k < 0)
      BY Numbers
    <3>3. QED
      BY <2>2, <2>4, <3>1, <3>2 DEF Sealed
  <2>6. PICK d : d = [q EXCEPT !.inc = j, !.tries = 0]
    OBVIOUS
  <2>7. PICK n : n = Read(d, "activate")
    OBVIOUS
  <2>8. /\ Set(r, n) /\ n.at = "head" /\ n.then = "activate" /\ n.epoch = Zero /\ n.inc = j /\ n.verified = q.verified
    BY <1>4, <2>2, <2>6, <2>7 DEF Read, Request
  <2>9. req' = [req EXCEPT ![r] = n] /\ req \in [Requests -> Request]
    BY <2>8 DEF Set, EpochInv
  <2>10. Shut'
    <3>1. \A s \in Requests : req'[s].then = "change" => req'[s] = req[s]
      BY <2>8, <2>9
    <3>2. QED
      BY <1>2, <2>4, <3>1 DEF Shut
  <2>11. \A m \in Nat : Sealed(m)'
    BY <1>2, <2>3, <2>5, <2>10 DEF Sealed
  <2>12. HistoryStands'
    <3>1. ASSUME NEW k \in Revisions PROVE claims[k].name <= j
      <4>1. claims[k].name \in Nat /\ claims[k].name <= i
        BY <2>1, <2>5 DEF Epochs
      <4>2. QED
        BY <2>2, <4>1
    <3>2. SealedTop'
      <4>1. PICK m \in Nat : m = Top.revision /\ m = Top'.revision
        BY <1>2, <2>1 DEF Epochs
      <4>2. Sealed(m)'
        BY <2>11
      <4>3. QED
        BY <4>1, <4>2 DEF SealedTop, Sealed
    <3>3. \A k \in Revisions :
            /\ KnownTo(Top', claims'[k]) /\ (claims'[k].deleting => claims'[k].generation < Top'.revision)
            /\ claims'[k].name <= row'.inc
            /\ claims'[k].name \notin {0, row'.inc} => k < head'.revision
            /\ Gap(claims', k) => k < head'.revision
      BY <1>2, <2>3, <2>4, <2>5, <3>1 DEF HistoryStands
    <3>4. \A k, l \in Revisions : Gap(claims', k) /\ l < k /\ claims'[l].name = row'.inc => Sealed(0)'
      BY <2>11
    <3>5. KnownTo(Top', head') /\ Remembered(claims', head')
      BY <1>2, <2>4 DEF HistoryStands
    <3>6. QED
      BY <3>2, <3>3, <3>4, <3>5 DEF HistoryStands
  <2>13. RowStands'
    <3>1. ASSUME NEW x \in Incarnations, markers[x].erased PROVE x <= j /\ x # j
      <4>1. x \in Nat /\ x <= i
        BY <2>2, <2>4, <3>1 DEF RowStands, Incarnations
      <4>2. QED
        BY <2>2, <4>1
    <3>2. PolicyStands'
      BY <1>2, <2>2, <2>3, <2>4 DEF PolicyStands, Shut
    <3>3. QED
      BY <1>2, <2>2, <2>3, <2>5, <2>11, <3>1, <3>2 DEF RowStands
  <2>14. ASSUME NEW s \in Requests, s # r, NEW p \in Request, p = req[s] PROVE RequestStands(p)'
    <3>1. RequestStands(p)
      BY <2>14 DEF Standing, RequestsStand
    <3>2. p.inc <= j /\ p.inc # j
      <4>1. p.inc \in Nat /\ p.inc <= i
        BY <2>2, <3>1 DEF RequestStands, Informed, Request, Incarnations
      <4>2. QED
        BY <2>2, <4>1
    <3>3. p.then = "change" => p.verified.fence < Top.fence
      BY <2>4, <2>14 DEF Shut
    <3>4. Informed(p)' /\ Enabling(p)'
      BY <1>2, <2>3, <3>1, <3>2, <3>3 DEF RequestStands, Informed, Enabling
    <3>5. Sealed(0)' /\ Sealed(p.epoch.revision)'
      <4>1. PICK m \in Nat : m = p.epoch.revision
        BY DEF Request, Epochs
      <4>2. QED
        BY <2>11, <4>1
    <3>6. Deleting(p)'
      BY <1>2, <2>3, <3>1, <3>2, <3>5 DEF RequestStands, Deleting
    <3>7. QED
      BY <3>4, <3>6 DEF RequestStands
  <2>15. RequestStands(n)'
    <3>1. ~Scans(n) /\ ~Scanned(n) /\ ~Fencing(n) /\ ~Eliding(n) /\ ~Removing(n)
      BY <2>8 DEF Scans, Scanned, Fencing, Eliding, Removing
    <3>2. KnownTo(Top, q.verified)
      BY <1>1 DEF RequestStands, Informed
    <3>3. Informed(n)' /\ Enabling(n)' /\ Deleting(n)'
      BY <1>2, <2>1, <2>2, <2>3, <2>8, <3>1, <3>2, ZeroKnown DEF Informed, Enabling, Deleting
    <3>4. QED
      BY <3>3 DEF RequestStands
  <2>16. RequestsStand'
    <3>1. ASSUME NEW s \in Requests, NEW p \in Request, p = req'[s] PROVE RequestStands(p)'
      <4>1. s = r => p = n
        BY <2>9, <3>1
      <4>2. s # r => p = req[s]
        BY <2>9, <3>1
      <4>3. QED
        BY <2>14, <2>15, <4>1, <4>2
    <3>2. QED
      BY <3>1 DEF RequestsStand
  <2>17. QED
    BY <2>12, <2>13, <2>16 DEF Standing
<1>5. QED
  BY <1>1, <1>3, <1>4 DEF Enrol

(* The account goes live: nothing of it is in the history yet.             *)
LEMMA EnableStands == ASSUME EpochInv, EpochInv', Standing, NEW r \in Requests, Enable(r) PROVE Standing'
<1>1. PICK q \in Request : q = req[r] /\ RequestHolds(claims, q) /\ RequestStands(q)
  BY OfRequest
<1>2. q.at = "enable" /\ Finish(r) /\ UNCHANGED <<claims, head, markers, granted>> /\ HeadCalm /\ Top' = Top
  BY <1>1, TopSame DEF Enable, HeadCalm
<1>3. CASE row' = row
  BY <1>2, <1>3, FinishStands DEF RowCalm
<1>4. CASE row = [inc |-> q.inc, state |-> "registering"] /\ row' = [row EXCEPT !.state = "live"]
  <2>1. row.inc = q.inc /\ row.state = "registering" /\ row' = [inc |-> q.inc, state |-> "live"]
    BY <1>4
  <2>2. row'.inc = row.inc /\ row'.state = "live"
    BY <2>1
  <2>3. ~Top.deleting /\ HistoryStands /\ RowStands
    BY <1>1, <1>2, <2>1 DEF RequestStands, Enabling, Standing
  <2>4. \A k \in Revisions : claims[k].name # row.inc
    BY <2>1, <2>3 DEF RowStands
  <2>5. HistoryStands'
    BY <1>2, <2>2, <2>3, <2>4 DEF HistoryStands
  <2>6. ~markers[row.inc].erased /\ PolicyStands'
    BY <1>2, <2>1, <2>2, <2>3 DEF RowStands, PolicyStands
  <2>7. RowStands'
    BY <1>2, <2>2, <2>3, <2>4, <2>6 DEF RowStands
  <2>8. ASSUME NEW p \in Request, RequestStands(p) PROVE RequestStands(p)'
    <3>1. Informed(p)' /\ Enabling(p)'
      BY <1>2, <2>2, <2>8 DEF RequestStands, Informed, Enabling
    <3>2. ~(p.inc = row.inc /\ (p.then = "fence" \/ Removing(p))) /\ ~(p.then = "fence" /\ Threatens(p)')
      BY <1>2, <2>1, <2>2, <2>4, <2>8 DEF RequestStands, Deleting, Threatens
    <3>3. Fencing(p) => p.then = "fence"
      BY DEF Fencing
    <3>4. Deleting(p)'
      BY <1>2, <2>2, <2>8, <3>2, <3>3 DEF RequestStands, Deleting
    <3>5. QED
      BY <3>1, <3>4 DEF RequestStands
  <2>9. RequestsStand'
    <3>1. PICK n : n = Idle
      OBVIOUS
    <3>2. req' = [req EXCEPT ![r] = n] /\ req \in [Requests -> Request] /\ RequestStands(n)'
      BY <1>2, <3>1, IdleStands DEF Finish, Set, EpochInv
    <3>3. ASSUME NEW s \in Requests, NEW p \in Request, p = req'[s] PROVE RequestStands(p)'
      <4>1. s = r => p = n
        BY <3>2, <3>3
      <4>2. s # r => p = req[s]
        BY <3>2, <3>3
      <4>3. s # r => RequestStands(p)
        BY <4>2 DEF Standing, RequestsStand
      <4>4. QED
        BY <2>8, <3>2, <4>1, <4>3
    <3>4. QED
      BY <3>3 DEF RequestsStand
  <2>10. QED
    BY <2>5, <2>7, <2>9 DEF Standing
<1>5. QED
  BY <1>1, <1>3, <1>4 DEF Enable

LEMMA FactorStart == EpochInit => FactorInv
<1> SUFFICES ASSUME EpochInit PROVE Standing
  BY DEF FactorInv
<1>1. /\ claims = [k \in Revisions |-> Zero] /\ head = Zero /\ row = [inc |-> 1, state |-> "live"]
      /\ markers = [i \in Incarnations |-> [cursor |-> 0, erased |-> FALSE]]
      /\ req = [r \in Requests |-> Idle] /\ granted.changes = 0
  BY DEF EpochInit
<1>2. Top = Zero
  <2>1. {k \in Revisions : ~Free(k)} = {}
    BY <1>1 DEF Free
  <2>2. QED
    BY <2>1 DEF Top
<1>3. /\ row.inc = 1 /\ row.state = "live" /\ \A i \in Incarnations : ~markers[i].erased
      /\ 1 \in Incarnations
  BY <1>1, EpochAssumption DEF EpochAssumption, Incarnations
<1>4. /\ Zero.name = 0 /\ Zero.revision = 0 /\ Zero.fence = 0 /\ Zero.generation = 0 /\ ~Zero.deleting /\ Zero \in Epochs
      /\ \A k \in Revisions : claims[k] = Zero
  BY <1>1, ZeroFacts
<1>5. KnownTo(Top, Zero) /\ \A c : Remembered(c, Zero)
  BY <1>2, <1>4, ZeroKnown
<1>6. HistoryStands
  <2>1. \A k \in Revisions : ~Gap(claims, k)
    BY <1>4 DEF Gap
  <2>2. QED
    BY <1>1, <1>2, <1>3, <1>4, <1>5, <2>1 DEF HistoryStands
<1>7. RowStands
  <2>1. PolicyStands
    BY <1>1, <1>2, <1>3, <1>4 DEF PolicyStands
  <2>2. QED
    BY <1>3, <1>4, <2>1 DEF RowStands
<1>8. RequestStands(Idle)
  <2>1. /\ Idle.inc = 0 /\ Idle.epoch = Zero /\ Idle.verified = Zero /\ Idle.then = "none" /\ Idle.at = "idle"
    BY DEF Idle
  <2>2. ~Scans(Idle) /\ ~Scanned(Idle) /\ ~Fencing(Idle) /\ ~Eliding(Idle) /\ ~Removing(Idle)
    BY <2>1 DEF Scans, Scanned, Fencing, Eliding, Removing
  <2>3. QED
    BY <1>3, <1>5, <2>1, <2>2 DEF RequestStands, Informed, Enabling, Deleting
<1>9. RequestsStand
  BY <1>1, <1>8 DEF RequestsStand
<1>10. QED
  BY <1>6, <1>7, <1>9 DEF Standing

(* A claim that came too late is never forgotten.                          *)
LEMMA LateStays ==
  ASSUME EpochInv, NEW r \in Requests, EpochStep(r), granted.late
  PROVE  granted'.late
<1>1. granted \in [changes : Nat, late : BOOLEAN]
  BY DEF EpochInv, EpochShapes
<1>2. CASE UNCHANGED granted
  BY <1>2
<1>3. CASE Revoke(r) \/ Activate(r)
  BY <1>1, <1>3 DEF Revoke, Activate, Noted
<1>4. CASE ChangeFactor(r)
  BY <1>1, <1>4 DEF ChangeFactor
<1>5. CASE BeginDeletion(r)
  BY <1>1, <1>5 DEF BeginDeletion
<1>6. CASE Enrol(r)
  BY <1>1, <1>6 DEF Enrol
<1>7. CASE Begin(r) \/ ReadHead(r) \/ Probe(r) \/ Repair(r) \/ ReadOnly(r) \/ Verify(r) \/ Authorised(r) \/ Mint(r)
  BY <1>2, <1>7 DEF Begin, ReadHead, Probe, Repair, ReadOnly, Verify, Authorised, Mint
<1>8. CASE PublishHead(r) \/ SwapHead(r) \/ Erasing(r) \/ RemoveRow(r) \/ Enable(r) \/ Die(r)
  BY <1>2, <1>8 DEF PublishHead, SwapHead, Erasing, EraseLook, EraseRelease, EraseFill, ErasePause, EraseDone,
                    RemoveRow, Enable, Die
<1>9. QED
  BY <1>3, <1>4, <1>5, <1>6, <1>7, <1>8 DEF EpochStep, Reading, Claiming

LEMMA FactorSteps == EpochInv /\ EpochInv' /\ FactorInv /\ [EpochNext]_epochVars => FactorInv'
<1> SUFFICES ASSUME EpochInv, EpochInv', FactorInv, [EpochNext]_epochVars, ~granted'.late PROVE Standing'
  BY DEF FactorInv
<1>1. CASE UNCHANGED epochVars
  <2>1. /\ claims' = claims /\ head' = head /\ row' = row /\ markers' = markers /\ req' = req /\ granted' = granted
    BY <1>1 DEF epochVars
  <2>2. Standing /\ Top' = Top
    BY <2>1, TopSame DEF FactorInv
  <2>3. Shut' = Shut
    BY <2>1, <2>2 DEF Shut
  <2>4. PICK t \in Nat : t = Top.revision /\ t = Top'.revision
    BY <2>2, EpochFacts DEF Epochs
  <2>5. \A m \in Nat : Sealed(m)' <=> Sealed(m)
    BY <2>1, <2>3 DEF Sealed
  <2>6. SealedTop' <=> SealedTop
    <3>1. (SealedTop <=> Sealed(t)) /\ (SealedTop' <=> Sealed(t)')
      BY <2>4 DEF SealedTop, Sealed
    <3>2. QED
      BY <2>5, <3>1
  <2>7. HistoryStands'
    BY <2>1, <2>2, <2>5, <2>6 DEF Standing, HistoryStands
  <2>8. RowStands'
    BY <2>1, <2>2, <2>5 DEF Standing, RowStands, PolicyStands
  <2>9. ASSUME NEW q \in Request, RequestStands(q) PROVE RequestStands(q)'
    <3>1. PICK m \in Nat : m = q.epoch.revision
      BY DEF Request, Epochs
    <3>2. Informed(q)' /\ Enabling(q)'
      BY <2>1, <2>2, <2>9 DEF RequestStands, Informed, Enabling
    <3>3. Sealed(q.epoch.revision)' <=> Sealed(q.epoch.revision)
      BY <2>5, <3>1
    <3>4. Threatens(q)' <=> Threatens(q)
      BY <2>1 DEF Threatens
    <3>5. Deleting(q)'
      BY <2>1, <2>5, <2>9, <3>3, <3>4 DEF RequestStands, Deleting
    <3>6. QED
      BY <3>2, <3>5 DEF RequestStands
  <2>10. RequestsStand'
    BY <2>1, <2>2, <2>9 DEF Standing, RequestsStand
  <2>11. QED
    BY <2>7, <2>8, <2>10 DEF Standing
<1>2. ASSUME NEW r \in Requests, EpochStep(r) PROVE Standing'
  <2>1. Standing
    BY <1>2, LateStays DEF FactorInv
  <2>2. CASE Begin(r)
    BY <2>1, <2>2, BeginStands
  <2>3. CASE Reading(r)
    BY <2>1, <2>3, ReadHeadStands, ProbeStands, RepairStands DEF Reading
  <2>4. CASE Verify(r) \/ Authorised(r) \/ Mint(r)
    BY <2>1, <2>4, VerifyStands, AuthorisedStands, MintStands
  <2>5. CASE Claiming(r)
    BY <2>1, <2>5, RevokeStands, ChangeFactorStands, BeginDeletionStands, ActivateStands DEF Claiming
  <2>6. CASE PublishHead(r) \/ SwapHead(r)
    BY <2>1, <2>6, PublishHeadStands, SwapHeadStands
  <2>7. CASE Erasing(r)
    BY <2>1, <2>7, EraseLookStands, EraseReleaseStands, EraseFillStands, ErasePauseStands, EraseDoneStands
       DEF Erasing
  <2>8. CASE RemoveRow(r) \/ Enrol(r) \/ Enable(r) \/ Die(r)
    BY <2>1, <2>8, RemoveRowStands, EnrolStands, EnableStands, DieStands
  <2>9. QED
    BY <1>2, <2>2, <2>3, <2>4, <2>5, <2>6, <2>7, <2>8 DEF EpochStep
<1>3. QED
  BY <1>1, <1>2 DEF EpochNext

(* While the account lives, the policy in force is the last acknowledged   *)
(* factor change, none was lost and none answered twice, unless a claim    *)
(* once came too late (SessionEpochs.changeFactor, beginDeletion).         *)
THEOREM PolicyNeverLost == EpochSpec => []FactorStands
<1>1. FactorInv => FactorStands
  BY DEF FactorInv, Standing, RowStands, PolicyStands, FactorStands
<1>2. QED
  BY <1>1, EpochStart, EpochSteps, FactorStart, FactorSteps, PTL DEF EpochSpec

-----------------------------------------------------------------------------
(* Signing in to one account                                               *)

Enrollments == {0} \cup Calls
Codes == [id : Nat, epoch : Nat, inc : {0} \cup Lives, key : Nat, method : Methods, factor : Nat,
          enrol : Enrollments, target : Methods, attempts : Nat]
Errands == {"none", "verify", "setup", "switch", "confirm", "request", "reset", "logout"}
Handled ==
  [at : Stages, job : Errands, id : Enrollments, inc : {0} \cup Lives, key : Nat, seen : Codes,
   epoch : Nat, fence : Nat, factor : Nat, method : Methods, enrol : Enrollments,
   target : Methods, step : Nat, last : Nat, token : Nat]

(* What the next call of a request says of its errand.                     *)
StagesFit(q) ==
  /\ q.at \in {"challenge", "signature", "settings"} => q.job = "none" /\ q.inc # 0
  /\ q.at \in {"wrong", "consume"} => q.job \in {"verify", "confirm"}
  /\ q.at \in {"counter", "count"} => q.job \in {"verify", "confirm", "switch"}
  /\ q.at \in {"recheck", "mint"} => q.job = "verify"
  /\ q.at = "subject" => q.job \in {"setup", "confirm"}
  /\ q.at = "store" =>
       q.job \in {"setup", "switch"} /\ q.inc # 0 /\ (q.target = "none" => q.method # "none")
  /\ q.at = "open" => q.job = "confirm" /\ q.inc # 0
  /\ q.at = "change" => q.job = "confirm"
  /\ q.at \in {"previous", "drop", "rollback", "token", "point"} => q.job = "request" /\ q.inc # 0
  /\ q.at \in {"row", "rekey"} => q.job = "reset" /\ q.inc # 0
  /\ q.at \notin {"still", "open", "subject"} /\ q.job \in {"verify", "confirm"} =>
       /\ q.inc = q.seen.inc /\ q.inc # 0 /\ q.enrol = q.seen.enrol /\ q.target = q.seen.target
       /\ q.at \in {"counter", "count"} => q.seen.method = "totp"
  /\ q.at \in {"counter", "count", "store"} /\ q.job \in {"setup", "switch"} => q.inc # 0
  /\ q.at \in {"counter", "count"} /\ q.job = "switch" => q.method = "totp" /\ q.target # "none"

CodeFit(c) == (c.target = "totp" => c.method = "totp") /\ (c.inc # 0 => c.method # "none")

AccountFit ==
  /\ account \in [inc : Lives, state : {"live", "deleting", "none"}, key : Nat]
  /\ policy \in [epoch : Nat, inc : {0} \cup Lives, factor : Nat, method : Methods,
                 enrol : Enrollments, fence : Nat]
  /\ policy.inc = 0 => policy.method = "none"

PendingFit(c) ==
  c \in Codes /\ c.method # "none" /\ c.target = "none" /\ c.inc # 0 /\ c.attempts < MaxAttempts

SetupFit(i, c) ==
  /\ c \in Codes /\ CodeFit(c) /\ c.attempts < MaxAttempts
  /\ c = NoCode \/ c.inc = i

ChallengesFit ==
  /\ logins \subseteq [id : Nat, epoch : Nat, inc : Lives]
  /\ \A c \in pending : PendingFit(c)
  /\ setup \in [Lives -> Codes] /\ \A i \in Lives : SetupFit(i, setup[i])
  /\ counters \in [Enrollments -> Nat]

LinksFit ==
  /\ tokens \subseteq [id : Nat, inc : Lives] /\ stray \subseteq Nat
  /\ pointer \in [Lives -> SUBSET Nat] /\ \A i \in Lives : \A m, n \in pointer[i] : m = n

SessionsFit ==
  /\ cookies \subseteq [epoch : Nat, inc : Nat, key : Nat, method : Methods]
  /\ started \in 0..MaxHandlers /\ acked \in Nat

HandlersFit ==
  /\ handlers \in [Handlers -> Handled]
  /\ \A h \in Handlers : StagesFit(handlers[h]) /\ CodeFit(handlers[h].seen)

SignInShapes == AccountFit /\ ChallengesFit /\ LinksFit /\ SessionsFit /\ HandlersFit

(* What a password that was checked is good for: while the generation of   *)
(* its challenge lasts, for the account that is there and under a key that *)
(* no acknowledged reset has replaced.                                     *)
Current(a, p, k, c) ==
  /\ c.epoch <= p.epoch
  /\ c.epoch = p.epoch /\ a.state = "live" => c.inc = a.inc /\ c.key >= k

SessionOf(a, p, k, q) ==
  /\ q.inc <= a.inc
  /\ q.at \in {"signature", "settings"} => q.epoch <= p.epoch
  /\ q.at = "settings" => Current(a, p, k, q)
  /\ q.job = "verify" => Current(a, p, k, q.seen)
  /\ q.at \in {"rekey", "signOut"} /\ q.job = "reset" /\ q.inc = a.inc => q.key <= a.key

SessionCurrent(a, p, k, s) ==
  /\ Current(a, p, k, s)
  /\ s.epoch = p.epoch /\ a.state = "live" => s.method = SettingsOf(p, a.inc).method

SessionsHold ==
  /\ acked <= account.key
  /\ policy.inc <= account.inc
  /\ \A c \in logins : c.epoch <= policy.epoch /\ c.inc <= account.inc
  /\ \A c \in pending : Current(account, policy, acked, c) /\ c.inc <= account.inc
  /\ \A i \in Lives : setup[i].inc <= account.inc
  /\ \A t \in tokens : t.inc <= account.inc
  /\ \A h \in Handlers : SessionOf(account, policy, acked, handlers[h])
  /\ \A s \in cookies : SessionCurrent(account, policy, acked, s)

(* A link that was mailed is under the pointer of its incarnation, or in   *)
(* the hands of a request that replaces it.                                *)
Handing(q, t) ==
  q.at \in {"drop", "point", "rollback"} /\ q.inc = t.inc /\ q.token = t.id

LinksHeld ==
  \A t \in tokens : t.id \notin stray =>
    t.id \in pointer[t.inc] \/ \E h \in Handlers : Handing(handlers[h], t)

(* An enrollment is of one incarnation.                                    *)
Owns(own, c) == c.method = "totp" => own[c.enrol] = c.inc /\ c.inc # 0

CodesOf(own, n, q) ==
  /\ q.at # "still" => q.id \in 1..n
  /\ q.job \in {"verify", "confirm"} => Owns(own, q.seen)
  /\ q.at = "subject" /\ q.job = "setup" => own[q.id] = 0 /\ Owns(own, q)
  /\ q.at \in {"counter", "count", "store"} /\ q.job \in {"setup", "switch"} =>
       own[q.id] = q.inc /\ Owns(own, q)
  /\ q.at \in {"subject", "open"} => q.last = 0
  /\ q.at = "count" => q.last < q.step

(* A code that let somebody in, or changed a factor, is behind the counter *)
(* of its enrollment while that account is there.                          *)
Behind(own, a, last, c) ==
  c.live => /\ c.enrol \in Enrollments /\ c.step \in Nat /\ own[c.enrol] \in 1..a.inc
            /\ own[c.enrol] = a.inc /\ a.state # "none" => last[c.enrol] >= c.step

Apart(q, r) == q.at # "still" /\ r.at # "still" => q.id # r.id

CodesBehind(own) == CodeOnce /\ \A c \in accepted : Behind(own, account, counters, c)

CodesHold(own) ==
  /\ own \in [Enrollments -> {0} \cup Lives] /\ \A n \in Enrollments : n > started => own[n] = 0
  /\ Owns(own, policy) /\ \A c \in pending : Owns(own, c)
  /\ \A i \in Lives : Owns(own, setup[i])
  /\ \A h \in Handlers : CodesOf(own, started, handlers[h])
  /\ \A g, h \in Handlers : g # h => Apart(handlers[g], handlers[h])
  /\ CodesBehind(own)

(* The policies so far, by generation.  Between two deletions the factor's *)
(* revision only grows, and tells the policy of the account that is there. *)
Policies == [epoch : Nat, inc : {0} \cup Lives, factor : Nat, method : Methods,
             enrol : Enrollments, fence : Nat]

Before(p, s) ==
  /\ p.fence <= s.fence
  /\ p.fence = s.fence =>
       LET i == s.fence + 1 IN
         /\ SettingsOf(p, i).factor <= SettingsOf(s, i).factor
         /\ SettingsOf(p, i).factor = SettingsOf(s, i).factor =>
              SettingsOf(p, i).method = SettingsOf(s, i).method /\ SettingsOf(p, i).enrol = SettingsOf(s, i).enrol

Proved(codes, n) == \E c \in codes : c.enrol = n /\ c.for = "proof"

(* A setup was made under the policy of its generation: to remove or to    *)
(* replace an authenticator takes a code of it.                            *)
MadeUnder(was, p, codes, c) ==
  c.inc # 0 =>
    /\ c.epoch <= p.epoch
    /\ LET s == SettingsOf(was[c.epoch], c.inc) IN
         /\ c.factor = s.factor
         /\ s.method = "totp" => IF c.target = "none" THEN c.method = "totp" /\ c.enrol = s.enrol
                                                      ELSE Proved(codes, s.enrol)

FactorOf(was, a, p, codes, q) ==
  /\ q.job \in {"setup", "switch", "confirm"} /\ q.at # "still" =>
       q.epoch <= p.epoch /\ q.fence = was[q.epoch].fence
  /\ q.at = "subject" => LET s == was[q.epoch] IN
       q.inc = s.inc /\ q.factor = s.factor /\ q.method = s.method /\ q.enrol = s.enrol
  /\ q.at \in {"counter", "count", "store"} /\ q.job \in {"setup", "switch"} =>
       LET s == SettingsOf(was[q.epoch], q.inc) IN
         q.factor = s.factor /\ q.method = s.method /\ q.enrol = s.enrol
  /\ q.at = "store" /\ q.method = "totp" /\ q.target # "none" => Proved(codes, q.enrol)
  /\ q.job = "confirm" /\ q.at \notin {"still", "subject"} => q.fence < q.inc /\ q.inc <= a.inc
  /\ q.job = "confirm" /\ q.at \notin {"still", "subject", "open"} =>
       q.epoch = q.seen.epoch /\ MadeUnder(was, p, codes, q.seen)
  /\ q.job = "confirm" /\ q.at \in {"consume", "change"} /\ q.seen.method = "totp" /\ q.target = "none" =>
       Proved(codes, q.seen.enrol)

FenceOf(a) == IF a.state = "none" THEN a.inc ELSE a.inc - 1

FactorsHold(was) ==
  /\ was \in [Nat -> Policies] /\ was[policy.epoch] = policy
  /\ \A e \in 0..policy.epoch : Before(was[e], policy)
  /\ policy.fence = FenceOf(account)
  /\ \A i \in Lives : MadeUnder(was, policy, accepted, setup[i])
  /\ \A h \in Handlers : FactorOf(was, account, policy, accepted, handlers[h])

LEMMA SignInBounds ==
  /\ MaxHandlers \in Nat /\ MaxStep \in Nat /\ MaxLives \in Nat \ {0} /\ MaxAttempts \in Nat \ {0}
  /\ \A n \in Lives : n \in Nat /\ n # 0
  /\ \A n \in Steps : n \in Nat /\ n # 0
  /\ \A n \in Enrollments : n \in Nat
  /\ 0 \in Enrollments /\ 1 \in Lives /\ Calls = 1..MaxHandlers
BY SignInAssumption DEF SignInAssumption, Calls, Lives, Steps, Enrollments

LEMMA StillFits ==
  /\ NoCode \in Codes /\ CodeFit(NoCode) /\ NoCode.attempts = 0 /\ NoCode.inc = 0 /\ NoCode.target = "none"
  /\ Still \in Handled /\ StagesFit(Still) /\ Still.at = "still" /\ Still.job = "none" /\ Still.seen = NoCode
  /\ Still.enrol = 0 /\ Still.target = "none"
BY SignInBounds DEF NoCode, Codes, CodeFit, Methods, Still, Handled, Stages, Errands, StagesFit, Enrollments

(* A request goes on, and the others stay where they are.                  *)
LEMMA HandlerGoes ==
  ASSUME HandlersFit, NEW h \in Handlers, NEW q \in Handled, StagesFit(q), CodeFit(q.seen), Hold(h, q)
  PROVE  /\ HandlersFit' /\ handlers'[h] = q /\ \A g \in Handlers \ {h} : handlers'[g] = handlers[g]
<1>1. handlers'[h] = q /\ (\A g \in Handlers \ {h} : handlers'[g] = handlers[g]) /\ handlers' \in [Handlers -> Handled]
  BY DEF Hold, HandlersFit
<1>2. QED
  BY <1>1 DEF HandlersFit

LEMMA HandlerFit ==
  ASSUME HandlersFit, NEW h \in Handlers
  PROVE  handlers[h] \in Handled /\ StagesFit(handlers[h]) /\ CodeFit(handlers[h].seen) /\ handlers[h].seen \in Codes
BY DEF HandlersFit, Handled

(* A request that ends, and one that begins.                               *)
LEMMA HandlerEnds ==
  ASSUME HandlersFit, NEW h \in Handlers, Done(h)
  PROVE  HandlersFit' /\ handlers'[h] = Still /\ \A g \in Handlers \ {h} : handlers'[g] = handlers[g]
BY HandlerGoes, StillFits DEF Done

LEMMA HandlerStarts ==
  ASSUME SessionsFit, HandlersFit, NEW h \in Handlers, NEW q \in Handled, StagesFit(q), CodeFit(q.seen), Started(h, q)
  PROVE  /\ HandlersFit' /\ \A g \in Handlers \ {h} : handlers'[g] = handlers[g]
         /\ handlers'[h] \in Handled /\ StagesFit(handlers'[h])
         /\ handlers[h].at = "still" /\ started < MaxHandlers /\ started' = started + 1
         /\ started' \in 0..MaxHandlers /\ UNCHANGED <<accepted, acked, stray>>
         /\ handlers'[h] = [q EXCEPT !.id = started + 1]
<1>1. PICK r : r = [q EXCEPT !.id = started + 1]
  OBVIOUS
<1>2. started + 1 \in Enrollments /\ started < MaxHandlers /\ started + 1 \in 0..MaxHandlers /\ started' = started + 1
  BY SignInBounds DEF Started, SessionsFit, Enrollments, Calls
<1>3. r \in Handled /\ r.seen = q.seen
  BY <1>1, <1>2 DEF Handled
<1>4. StagesFit(r)
  <2>1. r.at = q.at /\ r.job = q.job /\ r.inc = q.inc /\ r.enrol = q.enrol /\ r.target = q.target /\ r.method = q.method
    BY <1>1 DEF Handled
  <2>2. QED
    BY <1>3, <2>1 DEF StagesFit
<1>5. Hold(h, r)
  BY <1>1 DEF Started
<1>6. HandlersFit' /\ handlers'[h] = r /\ \A g \in Handlers \ {h} : handlers'[g] = handlers[g]
  BY <1>3, <1>4, <1>5, HandlerGoes
<1>7. QED
  BY <1>1, <1>2, <1>3, <1>4, <1>6 DEF Started

(* A step that moves a request only, and one that begins a request.        *)
LEMMA MovesFit ==
  ASSUME SignInShapes, NEW h \in Handlers, NEW q \in Handled, StagesFit(q), CodeFit(q.seen), Hold(h, q),
         UNCHANGED <<stores, rest>>
  PROVE  SignInShapes'
<1>1. HandlersFit'
  BY HandlerGoes DEF SignInShapes
<1>2. QED
  BY <1>1 DEF SignInShapes, AccountFit, ChallengesFit, LinksFit, SessionsFit, stores, rest

LEMMA EndsFit ==
  ASSUME SignInShapes, NEW h \in Handlers, Done(h), UNCHANGED <<stores, rest>>
  PROVE  SignInShapes'
BY MovesFit, StillFits DEF Done

LEMMA StartsFit ==
  ASSUME SignInShapes, NEW h \in Handlers, NEW q \in Handled, StagesFit(q), CodeFit(q.seen), Started(h, q),
         UNCHANGED stores
  PROVE  SignInShapes'
<1>1. HandlersFit' /\ SessionsFit' /\ UNCHANGED stray
  BY HandlerStarts DEF SignInShapes, SessionsFit, stores
<1>2. QED
  BY <1>1 DEF SignInShapes, AccountFit, ChallengesFit, LinksFit, stores

LEMMA LoginStartFits == ASSUME SignInShapes, NEW h \in Handlers, LoginStart(h) PROVE SignInShapes'
<1>1. PICK q : q = [Still EXCEPT !.at = "challenge", !.inc = account.inc]
  OBVIOUS
<1>2. account.inc \in Lives /\ account.inc # 0
  BY SignInBounds DEF SignInShapes, AccountFit
<1>3. q \in Handled /\ StagesFit(q) /\ CodeFit(q.seen)
  BY <1>1, <1>2, StillFits DEF Handled, StagesFit, Stages
<1>4. Started(h, q) /\ UNCHANGED stores
  BY <1>1 DEF LoginStart
<1>5. QED
  BY <1>3, <1>4, StartsFit

LEMMA CreateChallengeFits == ASSUME SignInShapes, NEW h \in Handlers, CreateChallenge(h) PROVE SignInShapes'
<1>1. PICK q \in Handled : q = handlers[h] /\ StagesFit(q) /\ q.at = "challenge"
  BY HandlerFit DEF SignInShapes, CreateChallenge
<1>2. q.id \in Nat /\ policy.epoch \in Nat /\ q.inc \in Lives
  BY <1>1, SignInBounds DEF SignInShapes, AccountFit, Handled, StagesFit
<1>3. HandlersFit'
  BY HandlerEnds DEF CreateChallenge, SignInShapes
<1>4. ChallengesFit'
  BY <1>1, <1>2 DEF CreateChallenge, SignInShapes, ChallengesFit
<1>5. QED
  BY <1>3, <1>4 DEF CreateChallenge, SignInShapes, AccountFit, SessionsFit, LinksFit, rest

LEMMA LoginFinishFits == ASSUME SignInShapes, NEW h \in Handlers, LoginFinish(h) PROVE SignInShapes'
<1>1. PICK c \in logins : logins' = logins \ {c} /\ Started(h, [Still EXCEPT !.at = "signature", !.epoch = c.epoch, !.inc = c.inc])
  BY DEF LoginFinish
<1>2. PICK q : q = [Still EXCEPT !.at = "signature", !.epoch = c.epoch, !.inc = c.inc]
  OBVIOUS
<1>3. q \in Handled /\ StagesFit(q) /\ CodeFit(q.seen)
  <2>1. c.epoch \in Nat /\ c.inc \in Lives /\ c.inc # 0 /\ "signature" \in Stages
    BY SignInBounds DEF Stages, SignInShapes, ChallengesFit
  <2>2. q \in Handled
    BY <1>2, <2>1, StillFits DEF Handled
  <2>3. q.at = "signature" /\ q.job = "none" /\ q.inc = c.inc /\ q.seen = NoCode
    BY <1>2, StillFits DEF Handled
  <2>4. StagesFit(q)
    BY <2>1, <2>3 DEF StagesFit
  <2>5. QED
    BY <2>2, <2>3, <2>4, StillFits
<1>4. HandlersFit' /\ SessionsFit' /\ UNCHANGED stray
  BY <1>1, <1>2, <1>3, HandlerStarts DEF SignInShapes, SessionsFit, LoginFinish
<1>5. ChallengesFit'
  BY <1>1 DEF SignInShapes, ChallengesFit, LoginFinish
<1>6. QED
  BY <1>4, <1>5 DEF LoginFinish, SignInShapes, AccountFit, LinksFit

LEMMA VerifyLoginFits == ASSUME SignInShapes, NEW h \in Handlers, VerifyLogin(h) PROVE SignInShapes'
<1>1. PICK q \in Handled : q = handlers[h] /\ StagesFit(q) /\ CodeFit(q.seen) /\ q.at = "signature"
  BY HandlerFit DEF SignInShapes, VerifyLogin
<1>2. PICK n : n = [q EXCEPT !.at = "settings", !.key = account.key]
  OBVIOUS
<1>3. n \in Handled /\ StagesFit(n) /\ CodeFit(n.seen)
  <2>1. account.key \in Nat /\ "settings" \in Stages
    BY DEF SignInShapes, AccountFit, Stages
  <2>2. n \in Handled /\ n.at = "settings" /\ n.job = q.job /\ n.inc = q.inc /\ n.seen = q.seen
    BY <1>1, <1>2, <2>1 DEF Handled
  <2>3. q.job = "none" /\ q.inc # 0
    BY <1>1 DEF StagesFit
  <2>4. QED
    BY <1>1, <2>2, <2>3 DEF StagesFit
<1>4. UNCHANGED <<stores, rest>> /\ (Hold(h, n) \/ Done(h))
  BY <1>1, <1>2 DEF VerifyLogin
<1>5. QED
  BY <1>3, <1>4, MovesFit, EndsFit

LEMMA FinishLoginFits == ASSUME SignInShapes, NEW h \in Handlers, FinishLogin(h) PROVE SignInShapes'
<1>1. PICK q \in Handled : q = handlers[h] /\ StagesFit(q) /\ q.at = "settings"
  BY HandlerFit DEF SignInShapes, FinishLogin
<1>2. PICK s : s = SettingsOf(policy, q.inc)
  OBVIOUS
<1>3. s.method \in Methods /\ s.factor \in Nat /\ s.enrol \in Enrollments
  BY <1>2 DEF SettingsOf, SignInShapes, AccountFit, Methods, Enrollments
<1>4. HandlersFit'
  BY HandlerEnds DEF FinishLogin, SignInShapes
<1>5. q.inc # 0 /\ q.inc \in Lives /\ q.inc \in Nat /\ q.id \in Nat /\ q.epoch \in Nat /\ q.key \in Nat
  BY <1>1, SignInBounds DEF Handled, StagesFit
<1>6. CASE s.method = "none"
  <2>1. Cookie(q, "none") \in [epoch : Nat, inc : Nat, key : Nat, method : Methods]
    BY <1>5 DEF Cookie, Methods
  <2>2. cookies' = cookies \cup {Cookie(q, "none")} /\ UNCHANGED pending
    BY <1>1, <1>2, <1>6 DEF FinishLogin
  <2>3. SessionsFit'
    BY <2>1, <2>2 DEF FinishLogin, SignInShapes, SessionsFit, rest
  <2>4. QED
    BY <1>4, <2>2, <2>3 DEF FinishLogin, SignInShapes, AccountFit, ChallengesFit, LinksFit, rest
<1>7. CASE s.method # "none"
  <2>1. PICK c : c = [NoCode EXCEPT !.id = q.id, !.epoch = q.epoch, !.inc = q.inc, !.key = q.key,
                        !.method = s.method, !.factor = s.factor, !.enrol = s.enrol]
    OBVIOUS
  <2>2. PendingFit(c)
    <3>1. c \in Codes
      BY <1>3, <1>5, <2>1, StillFits DEF Codes
    <3>2. c.method = s.method /\ c.target = "none" /\ c.inc = q.inc /\ c.attempts = 0
      BY <2>1, StillFits DEF Codes
    <3>3. QED
      BY <1>5, <1>7, <3>1, <3>2, SignInBounds DEF PendingFit
  <2>3. pending' = pending \cup {c} /\ UNCHANGED cookies
    BY <1>1, <1>2, <1>7, <2>1 DEF FinishLogin
  <2>4. ChallengesFit'
    BY <2>2, <2>3 DEF FinishLogin, SignInShapes, ChallengesFit
  <2>5. QED
    BY <1>4, <2>3, <2>4 DEF FinishLogin, SignInShapes, AccountFit, SessionsFit, LinksFit, rest
<1>8. QED
  BY <1>6, <1>7

(* A code is typed for a challenge.                                        *)
LEMMA ChecksFit ==
  ASSUME NEW q \in Handled, NEW c \in Codes, CodeFit(c), c.inc # 0, NEW t \in {0} \cup Steps,
         q.job \in {"verify", "confirm"}, NEW n, n = Checks(q, c, t)
  PROVE  /\ n \in Handled /\ StagesFit(n) /\ CodeFit(n.seen) /\ n.seen = c /\ n.inc = c.inc /\ n.enrol = c.enrol
         /\ n.at \in {"wrong", "consume", "count", "counter"} /\ n.job = q.job /\ n.target = c.target
         /\ n.epoch = q.epoch /\ n.fence = q.fence /\ n.id = q.id /\ n.last = q.last
         /\ n.at = "consume" => c.method # "totp"
         /\ n.at \in {"count", "counter"} => n.step = t /\ t # 0
         /\ n.at = "count" <=> c.target = "totp" /\ t # 0 /\ c.method # "email"
<1>1. c.method \in Methods /\ c.inc \in {0} \cup Lives /\ c.key \in Nat /\ c.enrol \in Enrollments /\ c.target \in Methods
  BY DEF Codes
<1>2. PICK at : at = CASE t = 0              -> "wrong"
                       [] c.method = "email" -> "consume"
                       [] OTHER              -> IF c.target = "totp" THEN "count" ELSE "counter"
  OBVIOUS
<1>3. PICK s : s = IF c.method = "totp" THEN t ELSE 0
  OBVIOUS
<1>a. n = [q EXCEPT !.seen = c, !.inc = c.inc, !.key = c.key, !.enrol = c.enrol, !.target = c.target,
                    !.step = s, !.at = at]
  BY <1>2, <1>3 DEF Checks
<1>4. at \in {"wrong", "consume", "count", "counter"}
  BY <1>2
<1>5. t \in Nat /\ s \in Nat /\ at \in Stages
  BY <1>3, <1>4, SignInBounds DEF Stages
<1>6. n \in Handled
  <2>1. c \in Codes /\ q \in Handled
    OBVIOUS
  <2>2. PICK r : r = [q EXCEPT !.seen = c, !.inc = c.inc, !.key = c.key, !.enrol = c.enrol]
    OBVIOUS
  <2>3. r \in Handled
    BY <1>1, <2>1, <2>2 DEF Handled
  <2>4. n = [r EXCEPT !.target = c.target, !.step = s, !.at = at]
    BY <1>a, <2>2
  <2>5. QED
    BY <1>1, <1>5, <2>3, <2>4 DEF Handled
<1>7. /\ n.at = at /\ n.seen = c /\ n.inc = c.inc /\ n.enrol = c.enrol /\ n.target = c.target /\ n.job = q.job
      /\ n.epoch = q.epoch /\ n.fence = q.fence /\ n.id = q.id /\ n.last = q.last
      /\ n.step = s
  BY <1>a DEF Handled
<1>8. at \in {"count", "counter"} => c.method = "totp" /\ t # 0
  BY <1>1, <1>2 DEF Methods, CodeFit
<1>9. QED
  BY <1>2, <1>3, <1>4, <1>6, <1>7, <1>8 DEF StagesFit

LEMMA TwoFaVerifyFits == ASSUME SignInShapes, NEW h \in Handlers, TwoFaVerify(h) PROVE SignInShapes'
<1>1. PICK c \in pending, t \in {0} \cup Steps :
        Started(h, Checks([Still EXCEPT !.job = "verify"], c, t)) /\ UNCHANGED stores
  BY DEF TwoFaVerify
<1>2. PICK s : s = [Still EXCEPT !.job = "verify"]
  OBVIOUS
<1>3. s \in Handled /\ s.job = "verify"
  BY <1>2, StillFits DEF Handled, Errands
<1>4. c \in Codes /\ CodeFit(c) /\ c.inc # 0
  BY DEF SignInShapes, ChallengesFit, PendingFit, CodeFit
<1>5. PICK n : n = Checks(s, c, t)
  OBVIOUS
<1>6. n \in Handled /\ StagesFit(n) /\ CodeFit(n.seen)
  BY <1>3, <1>4, <1>5, ChecksFit
<1>7. QED
  BY <1>1, <1>2, <1>5, <1>6, StartsFit

LEMMA WrongFits == ASSUME SignInShapes, NEW h \in Handlers, Wrong(h) PROVE SignInShapes'
<1>1. PICK q \in Handled : q = handlers[h] /\ StagesFit(q) /\ CodeFit(q.seen) /\ q.seen \in Codes /\ q.at = "wrong"
  BY HandlerFit DEF SignInShapes, Wrong
<1>2. PICK c : c = [q.seen EXCEPT !.attempts = @ + 1]
  OBVIOUS
<1>3. c \in Codes /\ CodeFit(c) /\ c.method = q.seen.method /\ c.target = q.seen.target /\ c.inc = q.seen.inc
  BY <1>1, <1>2 DEF Codes, CodeFit
<1>4. ~Spent(c) => c.attempts < MaxAttempts
  BY <1>3, SignInBounds DEF Spent, Codes
<1>5. HandlersFit'
  BY HandlerEnds DEF Wrong, SignInShapes
<1>6. CASE q.job = "verify" /\ UNCHANGED setup /\ pending' = IF q.seen \notin pending THEN pending
                         ELSE (pending \ {q.seen}) \cup IF Spent(c) THEN {} ELSE {c}
  <2>1. q.seen \in pending => PendingFit(c) \/ Spent(c)
    BY <1>3, <1>4 DEF SignInShapes, ChallengesFit, PendingFit
  <2>2. \A p \in pending' : PendingFit(p)
    BY <1>6, <2>1 DEF SignInShapes, ChallengesFit
  <2>3. QED
    BY <1>5, <1>6, <2>2 DEF Wrong, SignInShapes, AccountFit, ChallengesFit, SessionsFit, LinksFit, rest
<1>7. CASE q.job = "confirm" /\ UNCHANGED pending /\ setup' = IF setup[q.inc] # q.seen THEN setup
                       ELSE [setup EXCEPT ![q.inc] = IF Spent(c) THEN NoCode ELSE c]
  <2>1. PICK p : p = IF Spent(c) THEN NoCode ELSE c
    OBVIOUS
  <2>2. q.inc \in Lives /\ q.inc = c.inc
    BY <1>1, <1>3, <1>7 DEF StagesFit, Handled
  <2>3. SetupFit(q.inc, p)
    BY <1>3, <1>4, <2>1, <2>2, StillFits, SignInBounds DEF SetupFit
  <2>4. setup' \in [Lives -> Codes] /\ \A i \in Lives : SetupFit(i, setup'[i])
    <3>1. setup \in [Lives -> Codes] /\ \A i \in Lives : SetupFit(i, setup[i])
      BY DEF SignInShapes, ChallengesFit
    <3>2. p \in Codes
      BY <2>3 DEF SetupFit
    <3>3. QED
      BY <1>7, <2>1, <2>2, <2>3, <3>1, <3>2
  <2>5. QED
    BY <1>5, <1>7, <2>4 DEF Wrong, SignInShapes, AccountFit, ChallengesFit, SessionsFit, LinksFit, rest
<1>8. QED
  BY <1>1, <1>2, <1>6, <1>7 DEF Wrong

LEMMA ReadCounterFits == ASSUME SignInShapes, NEW h \in Handlers, ReadCounter(h) PROVE SignInShapes'
<1>1. PICK q \in Handled : q = handlers[h] /\ StagesFit(q) /\ CodeFit(q.seen) /\ q.at = "counter"
  BY HandlerFit DEF SignInShapes, ReadCounter
<1>2. PICK n : n = [q EXCEPT !.at = "count", !.last = counters[q.enrol]]
  OBVIOUS
<1>3. n \in Handled /\ StagesFit(n) /\ CodeFit(n.seen)
  <2>1. counters[q.enrol] \in Nat
    BY DEF Handled, SignInShapes, ChallengesFit
  <2>2. n \in Handled
    <3>1. "count" \in Stages
      BY DEF Stages
    <3>2. QED
      BY <1>1, <1>2, <2>1, <3>1 DEF Handled
  <2>3. /\ n.at = "count" /\ n.job = q.job /\ n.seen = q.seen /\ n.inc = q.inc /\ n.enrol = q.enrol
        /\ n.target = q.target /\ n.method = q.method
    BY <1>1, <1>2 DEF Handled
  <2>4. QED
    BY <1>1, <2>2, <2>3 DEF StagesFit
<1>4. UNCHANGED <<stores, rest>> /\ (Hold(h, n) \/ Done(h))
  BY <1>1, <1>2 DEF ReadCounter
<1>5. QED
  BY <1>3, <1>4, MovesFit, EndsFit

LEMMA CountFits == ASSUME SignInShapes, NEW h \in Handlers, Count(h) PROVE SignInShapes'
<1>1. PICK q \in Handled : q = handlers[h] /\ StagesFit(q) /\ CodeFit(q.seen) /\ q.at = "count"
  BY HandlerFit DEF SignInShapes, Count
<1>2. PICK n : n = [q EXCEPT !.at = IF q.job = "switch" THEN "store" ELSE "consume"]
  OBVIOUS
<1>3. n \in Handled /\ StagesFit(n) /\ CodeFit(n.seen)
  BY <1>1, <1>2 DEF Handled, StagesFit, Stages
<1>4. \/ Hold(h, n) /\ counters' = [counters EXCEPT ![q.enrol] = q.step]
      \/ Done(h) /\ UNCHANGED counters
  BY <1>1, <1>2 DEF Count, Counted, Goes
<1>5. HandlersFit'
  BY <1>3, <1>4, HandlerGoes, HandlerEnds DEF SignInShapes
<1>6. counters' \in [Enrollments -> Nat]
  BY <1>1, <1>4 DEF SignInShapes, ChallengesFit, Handled
<1>7. QED
  BY <1>5, <1>6 DEF Count, SignInShapes, AccountFit, ChallengesFit, SessionsFit, LinksFit

LEMMA ConsumeFits == ASSUME SignInShapes, NEW h \in Handlers, Consume(h) PROVE SignInShapes'
<1>1. PICK q \in Handled : q = handlers[h] /\ StagesFit(q) /\ CodeFit(q.seen) /\ q.at = "consume"
  BY HandlerFit DEF SignInShapes, Consume
<1>2. PICK n : n = [q EXCEPT !.at = IF q.job = "verify" THEN "recheck" ELSE "change"]
  OBVIOUS
<1>3. n \in Handled /\ StagesFit(n) /\ CodeFit(n.seen)
  BY <1>1, <1>2 DEF Handled, StagesFit, Stages
<1>4. Hold(h, n) \/ Done(h)
  BY <1>1, <1>2 DEF Consume, Goes
<1>5. HandlersFit'
  BY <1>3, <1>4, HandlerGoes, HandlerEnds DEF SignInShapes
<1>6. pending' \subseteq pending /\ (UNCHANGED setup \/ setup' = [setup EXCEPT ![q.inc] = NoCode])
  BY <1>1 DEF Consume
<1>7. setup' \in [Lives -> Codes] /\ \A i \in Lives : SetupFit(i, setup'[i])
  <2>1. \A i \in Lives : SetupFit(i, NoCode)
    BY StillFits, SignInBounds DEF SetupFit
  <2>2. QED
    BY <1>6, <2>1, StillFits DEF SignInShapes, ChallengesFit
<1>8. QED
  BY <1>5, <1>6, <1>7 DEF Consume, SignInShapes, AccountFit, ChallengesFit, SessionsFit, LinksFit, rest

LEMMA RecheckFits == ASSUME SignInShapes, NEW h \in Handlers, Recheck(h) PROVE SignInShapes'
<1>1. PICK q \in Handled : q = handlers[h] /\ StagesFit(q) /\ CodeFit(q.seen) /\ q.at = "recheck"
  BY HandlerFit DEF SignInShapes, Recheck
<1>2. PICK n : n = [q EXCEPT !.at = "mint"]
  OBVIOUS
<1>3. n \in Handled /\ StagesFit(n) /\ CodeFit(n.seen)
  BY <1>1, <1>2 DEF Handled, StagesFit, Stages
<1>4. UNCHANGED <<stores, rest>> /\ (Hold(h, n) \/ Done(h))
  BY <1>1, <1>2 DEF Recheck, Goes
<1>5. QED
  BY <1>3, <1>4, MovesFit, EndsFit

LEMMA MintSecondFits == ASSUME SignInShapes, NEW h \in Handlers, MintSecond(h) PROVE SignInShapes'
<1>1. PICK q \in Handled : q = handlers[h] /\ StagesFit(q) /\ q.seen \in Codes /\ q.at = "mint"
  BY HandlerFit DEF SignInShapes, MintSecond
<1>2. PICK s : s = Cookie(q.seen, q.seen.method)
  OBVIOUS
<1>3. s \in [epoch : Nat, inc : Nat, key : Nat, method : Methods]
  BY <1>1, <1>2, SignInBounds DEF Cookie, Codes
<1>4. cookies' \in {cookies, cookies \cup {s}}
  BY <1>1, <1>2 DEF MintSecond
<1>5. HandlersFit'
  BY HandlerEnds DEF MintSecond, SignInShapes
<1>6. QED
  BY <1>3, <1>4, <1>5 DEF MintSecond, SignInShapes, AccountFit, ChallengesFit, SessionsFit, LinksFit, rest

(* What a request knows of the policy when it begins.                      *)
LEMMA VerifiedFits ==
  ASSUME AccountFit, NEW v, v = Verified(Still)
  PROVE  /\ v \in Handled /\ v.at = "still" /\ v.target = "none" /\ v.seen = NoCode /\ v.epoch = policy.epoch
         /\ v.fence = policy.fence /\ v.inc = policy.inc /\ v.factor = policy.factor
         /\ v.method = policy.method /\ v.enrol = policy.enrol
<1>1. v \in Handled
  BY StillFits DEF Verified, Handled, AccountFit
<1>2. QED
  BY <1>1, StillFits DEF Verified, Handled

LEMMA TwoFaSetupFits == ASSUME SignInShapes, NEW h \in Handlers, TwoFaSetup(h) PROVE SignInShapes'
<1>1. PICK v \in Handled : v = Verified(Still) /\ v.seen = NoCode
  BY VerifiedFits DEF SignInShapes
<1>2. PICK m \in Methods : Started(h, [v EXCEPT !.at = "subject", !.job = "setup", !.target = m])
  BY <1>1 DEF TwoFaSetup
<1>3. PICK q : q = [v EXCEPT !.at = "subject", !.job = "setup", !.target = m]
  OBVIOUS
<1>a. "subject" \in Stages /\ "setup" \in Errands
  BY DEF Stages, Errands
<1>4. q \in Handled /\ q.at = "subject" /\ q.job = "setup" /\ q.seen = NoCode
  <2>1. q \in Handled
    BY <1>1, <1>2, <1>3, <1>a DEF Handled
  <2>2. q.at = "subject" /\ q.job = "setup"
    BY <1>1, <1>3 DEF Handled
  <2>3. q.seen = v.seen
    BY <1>1, <1>3 DEF Handled
  <2>4. QED
    BY <1>1, <2>1, <2>2, <2>3
<1>5. StagesFit(q) /\ CodeFit(q.seen)
  BY <1>4, StillFits DEF StagesFit
<1>6. UNCHANGED stores
  BY DEF TwoFaSetup
<1>7. QED
  BY <1>2, <1>3, <1>4, <1>5, <1>6, StartsFit

LEMMA TwoFaSetupVerifyFits == ASSUME SignInShapes, NEW h \in Handlers, TwoFaSetupVerify(h) PROVE SignInShapes'
<1>1. PICK v \in Handled : v = Verified(Still) /\ v.seen = NoCode
  BY VerifiedFits DEF SignInShapes
<1>2. PICK q : q = [v EXCEPT !.at = "subject", !.job = "confirm"]
  OBVIOUS
<1>a. "subject" \in Stages /\ "confirm" \in Errands
  BY DEF Stages, Errands
<1>b. q \in Handled
  BY <1>1, <1>2, <1>a DEF Handled
<1>c. q.at = "subject" /\ q.job = "confirm"
  BY <1>1, <1>2 DEF Handled
<1>d. q.seen = v.seen
  BY <1>1, <1>2 DEF Handled
<1>3. q \in Handled /\ q.at = "subject" /\ q.job = "confirm" /\ q.seen = NoCode
  BY <1>1, <1>b, <1>c, <1>d
<1>4. StagesFit(q) /\ CodeFit(q.seen)
  BY <1>3, StillFits DEF StagesFit
<1>5. UNCHANGED stores /\ Started(h, q)
  BY <1>1, <1>2 DEF TwoFaSetupVerify
<1>6. QED
  BY <1>3, <1>4, <1>5, StartsFit

(* The setup of a factor, once the account is known.                       *)
LEMMA SetupGoes ==
  ASSUME SignInShapes, NEW h \in Handlers, SetupAccount(h),
         NEW q \in Handled, q = handlers[h], NEW s, s = SettingsOf(q, account.inc)
  PROVE  \/ Done(h)
         \/ \E n \in Handled :
              /\ Hold(h, n) /\ account.state = "live"
              /\ n.job \in {"setup", "switch"} /\ n.inc = account.inc /\ n.id = q.id /\ n.epoch = q.epoch
              /\ n.fence = q.fence /\ n.seen = q.seen /\ n.target = q.target
              /\ n.factor = s.factor /\ n.method = s.method /\ n.enrol = s.enrol
              /\ \/ n.at = "counter" /\ n.job = "switch" /\ n.target # "none" /\ n.method = "totp"
                 \/ n.at = "store" /\ n.job = q.job /\ (n.target = "none" => n.method # "none") /\ (n.target # "none" => n.method = "none")
<1>1. q.at = "subject" /\ q.job = "setup" /\ account.inc \in Lives
  BY DEF SetupAccount, SignInShapes, AccountFit
<1>2. PICK m : m = [q EXCEPT !.inc = account.inc, !.factor = s.factor, !.method = s.method, !.enrol = s.enrol]
  OBVIOUS
<1>3. s.method \in Methods /\ s.factor \in Nat /\ s.enrol \in Enrollments
  BY SignInBounds DEF SettingsOf, Handled, Methods
<1>4. /\ m \in Handled /\ m.inc = account.inc /\ m.factor = s.factor /\ m.method = s.method /\ m.enrol = s.enrol
      /\ m.at = q.at /\ m.job = q.job /\ m.id = q.id /\ m.epoch = q.epoch /\ m.fence = q.fence
      /\ m.seen = q.seen /\ m.target = q.target
  BY <1>1, <1>2, <1>3 DEF Handled
<1>5. \/ /\ account.state = "live" /\ q.target # "none" /\ s.method = "totp"
         /\ \E t \in Steps : Hold(h, [m EXCEPT !.at = "counter", !.job = "switch", !.step = t])
      \/ /\ account.state = "live" /\ (q.target = "none" => s.method # "none") /\ (q.target # "none" => s.method = "none")
         /\ Hold(h, [m EXCEPT !.at = "store"])
      \/ Done(h)
  BY <1>2 DEF SetupAccount
<1>6. ASSUME account.state = "live", q.target # "none", s.method = "totp", NEW t \in Steps,
             Hold(h, [m EXCEPT !.at = "counter", !.job = "switch", !.step = t])
      PROVE  \E n \in Handled :
              /\ Hold(h, n) /\ account.state = "live"
              /\ n.job \in {"setup", "switch"} /\ n.inc = account.inc /\ n.id = q.id /\ n.epoch = q.epoch
              /\ n.fence = q.fence /\ n.seen = q.seen /\ n.target = q.target
              /\ n.factor = s.factor /\ n.method = s.method /\ n.enrol = s.enrol
              /\ n.at = "counter" /\ n.job = "switch" /\ n.target # "none" /\ n.method = "totp"
  <2>1. PICK n : n = [m EXCEPT !.at = "counter", !.job = "switch", !.step = t]
    OBVIOUS
  <2>2. t \in Nat /\ "counter" \in Stages /\ "switch" \in Errands
    BY SignInBounds DEF Stages, Errands
  <2>3. n \in Handled
    BY <1>4, <2>1, <2>2 DEF Handled
  <2>4. /\ n.inc = m.inc /\ n.factor = m.factor /\ n.method = m.method /\ n.enrol = m.enrol
        /\ n.at = "counter" /\ n.job = "switch" /\ n.id = m.id /\ n.epoch = m.epoch /\ n.fence = m.fence
        /\ n.seen = m.seen /\ n.target = m.target
    BY <1>4, <2>1 DEF Handled
  <2>5. n.inc = account.inc /\ n.id = q.id /\ n.epoch = q.epoch /\ n.fence = q.fence /\ n.seen = q.seen /\ n.target = q.target
    BY <1>4, <2>4
  <2>6. n.factor = s.factor /\ n.method = s.method /\ n.enrol = s.enrol
    BY <1>4, <2>4
  <2>7. n.job \in {"setup", "switch"} /\ n.at = "counter" /\ n.job = "switch" /\ n.target # "none" /\ n.method = "totp"
    BY <1>6, <2>4, <2>5, <2>6
  <2>8. Hold(h, n)
    BY <1>6, <2>1
  <2>9. QED
    BY <1>6, <2>3, <2>5, <2>6, <2>7, <2>8
<1>7. ASSUME account.state = "live", q.target = "none" => s.method # "none", q.target # "none" => s.method = "none", Hold(h, [m EXCEPT !.at = "store"])
      PROVE  \E n \in Handled :
              /\ Hold(h, n) /\ account.state = "live"
              /\ n.job \in {"setup", "switch"} /\ n.inc = account.inc /\ n.id = q.id /\ n.epoch = q.epoch
              /\ n.fence = q.fence /\ n.seen = q.seen /\ n.target = q.target
              /\ n.factor = s.factor /\ n.method = s.method /\ n.enrol = s.enrol
              /\ n.at = "store" /\ n.job = q.job /\ (n.target = "none" => n.method # "none") /\ (n.target # "none" => n.method = "none")
  <2>1. PICK n : n = [m EXCEPT !.at = "store"]
    OBVIOUS
  <2>2. n \in Handled
    BY <1>4, <2>1 DEF Handled, Stages
  <2>3. /\ n.inc = m.inc /\ n.factor = m.factor /\ n.method = m.method /\ n.enrol = m.enrol
        /\ n.at = "store" /\ n.job = m.job /\ n.id = m.id /\ n.epoch = m.epoch /\ n.fence = m.fence
        /\ n.seen = m.seen /\ n.target = m.target
    BY <1>4, <2>1 DEF Handled
  <2>4. n.job \in {"setup", "switch"} /\ n.inc = account.inc /\ n.id = q.id /\ n.epoch = q.epoch
    BY <1>1, <1>4, <2>3
  <2>5. /\ n.fence = q.fence /\ n.seen = q.seen /\ n.target = q.target
        /\ n.factor = s.factor /\ n.method = s.method /\ n.enrol = s.enrol
    BY <1>4, <2>3
  <2>6. (n.target = "none" => n.method # "none") /\ (n.target # "none" => n.method = "none")
    BY <1>7, <2>5
  <2>7. n.at = "store" /\ n.job = q.job
    BY <1>4, <2>3
  <2>8. Hold(h, n)
    BY <1>7, <2>1
  <2>9. QED
    BY <1>7, <2>2, <2>4, <2>5, <2>6, <2>7, <2>8
<1>8. QED
  BY <1>5, <1>6, <1>7

LEMMA SetupAccountFits == ASSUME SignInShapes, NEW h \in Handlers, SetupAccount(h) PROVE SignInShapes'
<1>1. PICK q \in Handled : q = handlers[h] /\ StagesFit(q) /\ CodeFit(q.seen)
  BY HandlerFit DEF SignInShapes
<1>2. UNCHANGED <<stores, rest>> /\ account.inc \in Lives /\ account.inc # 0
  BY SignInBounds DEF SetupAccount, SignInShapes, AccountFit
<1>3. CASE Done(h)
  BY <1>2, <1>3, EndsFit
<1>4. ASSUME ~Done(h) PROVE SignInShapes'
  <2>1. PICK n \in Handled :
              /\ Hold(h, n) /\ n.job \in {"setup", "switch"} /\ n.inc = account.inc /\ n.seen = q.seen
              /\ \/ n.at = "counter" /\ n.job = "switch" /\ n.target # "none" /\ n.method = "totp"
                 \/ n.at = "store" /\ (n.target = "none" => n.method # "none")
    BY <1>1, <1>4, SetupGoes
  <2>2. StagesFit(n) /\ CodeFit(n.seen)
    BY <1>1, <1>2, <2>1 DEF StagesFit
  <2>3. QED
    BY <1>2, <2>1, <2>2, MovesFit
<1>5. QED
  BY <1>3, <1>4

(* The setup that is stored.                                               *)
ProofOf(q) == IF q.target = "none" THEN q.method ELSE q.target
EnrolOf(q) == IF ProofOf(q) # "totp" THEN 0 ELSE IF q.target = "totp" THEN q.id ELSE q.enrol
SetupOf(q) == [NoCode EXCEPT !.id = q.id, !.epoch = q.epoch, !.inc = q.inc, !.method = ProofOf(q),
                             !.factor = q.factor, !.target = q.target, !.enrol = EnrolOf(q)]

LEMMA SetupMade ==
  ASSUME NEW q \in Handled, StagesFit(q), q.at = "store", NEW c, c = SetupOf(q)
  PROVE  /\ SetupFit(q.inc, c) /\ q.inc \in Lives /\ c.inc = q.inc /\ c.epoch = q.epoch /\ c.method = ProofOf(q)
         /\ c.factor = q.factor /\ c.target = q.target /\ c.inc # 0 /\ c.enrol = EnrolOf(q)
<1>1. PICK e, p : e = EnrolOf(q) /\ p = ProofOf(q)
  OBVIOUS
<1>2. p \in Methods /\ p # "none" /\ (q.target = "totp" => p = "totp")
  BY <1>1 DEF ProofOf, Handled, StagesFit
<1>3. e \in Enrollments
  BY <1>1, SignInBounds DEF EnrolOf, Handled
<1>4. q.inc # 0 /\ q.inc \in Lives /\ q.id \in Nat /\ q.epoch \in Nat /\ q.factor \in Nat /\ q.target \in Methods
  BY SignInBounds DEF Handled, StagesFit
<1>5. c = [NoCode EXCEPT !.id = q.id, !.epoch = q.epoch, !.inc = q.inc, !.method = p,
                         !.factor = q.factor, !.target = q.target, !.enrol = e]
  BY <1>1 DEF SetupOf
<1>6. c \in Codes
  BY <1>2, <1>3, <1>4, <1>5, StillFits DEF Codes
<1>7. /\ c.inc = q.inc /\ c.epoch = q.epoch /\ c.method = p /\ c.factor = q.factor /\ c.target = q.target
      /\ c.enrol = e /\ c.attempts = 0
  BY <1>5, StillFits DEF Codes
<1>8. SetupFit(q.inc, c)
  BY <1>2, <1>4, <1>6, <1>7, SignInBounds DEF SetupFit, CodeFit
<1>9. QED
  BY <1>1, <1>4, <1>7, <1>8

LEMMA StoreSetupFits == ASSUME SignInShapes, NEW h \in Handlers, StoreSetup(h) PROVE SignInShapes'
<1>1. PICK q \in Handled : q = handlers[h] /\ StagesFit(q) /\ q.at = "store"
  BY HandlerFit DEF SignInShapes, StoreSetup
<1>2. PICK c : c = SetupOf(q)
  OBVIOUS
<1>3. SetupFit(q.inc, c) /\ q.inc \in Lives
  BY <1>1, <1>2, SetupMade
<1>4. setup' = [setup EXCEPT ![q.inc] = c]
  BY <1>1, <1>2 DEF StoreSetup, SetupOf, ProofOf, EnrolOf
<1>5. HandlersFit'
  BY HandlerEnds DEF StoreSetup, SignInShapes
<1>6. setup' \in [Lives -> Codes] /\ \A i \in Lives : SetupFit(i, setup'[i])
  BY <1>3, <1>4 DEF SignInShapes, ChallengesFit, SetupFit
<1>7. QED
  BY <1>5, <1>6 DEF StoreSetup, SignInShapes, AccountFit, ChallengesFit, SessionsFit, LinksFit, rest

LEMMA ConfirmAccountFits == ASSUME SignInShapes, NEW h \in Handlers, ConfirmAccount(h) PROVE SignInShapes'
<1>1. PICK q \in Handled : q = handlers[h] /\ StagesFit(q) /\ CodeFit(q.seen) /\ q.at = "subject" /\ q.job = "confirm"
  BY HandlerFit DEF SignInShapes, ConfirmAccount
<1>2. PICK n : n = [q EXCEPT !.at = "open", !.inc = account.inc]
  OBVIOUS
<1>3. account.inc \in Lives /\ account.inc # 0
  BY SignInBounds DEF SignInShapes, AccountFit
<1>4. n \in Handled /\ StagesFit(n) /\ CodeFit(n.seen)
  <2>1. "open" \in Stages
    BY DEF Stages
  <2>2. n \in Handled /\ n.at = "open" /\ n.job = "confirm" /\ n.inc = account.inc /\ n.seen = q.seen
    BY <1>1, <1>2, <1>3, <2>1 DEF Handled
  <2>3. StagesFit(n)
    BY <1>3, <2>2 DEF StagesFit
  <2>4. QED
    BY <1>1, <2>2, <2>3
<1>5. UNCHANGED <<stores, rest>> /\ (Hold(h, n) \/ Done(h))
  BY <1>1, <1>2 DEF ConfirmAccount
<1>6. QED
  BY <1>4, <1>5, MovesFit, EndsFit

LEMMA OpenSetupFits == ASSUME SignInShapes, NEW h \in Handlers, OpenSetup(h) PROVE SignInShapes'
<1>1. PICK q \in Handled : q = handlers[h] /\ StagesFit(q) /\ CodeFit(q.seen) /\ q.at = "open" /\ q.job = "confirm" /\ q.inc \in Lives
  BY HandlerFit DEF SignInShapes, OpenSetup, StagesFit, Handled
<1>2. PICK c \in Codes : c = setup[q.inc] /\ CodeFit(c) /\ (c = NoCode \/ c.inc = q.inc)
  BY <1>1 DEF SignInShapes, ChallengesFit, SetupFit
<1>3. UNCHANGED <<stores, rest>> /\ (Done(h) \/ \E t \in {0} \cup Steps : c # NoCode /\ Hold(h, Checks(q, c, t)))
  BY <1>1, <1>2 DEF OpenSetup
<1>4. CASE Done(h)
  BY <1>3, <1>4, EndsFit
<1>5. ASSUME NEW t \in {0} \cup Steps, c # NoCode, Hold(h, Checks(q, c, t)) PROVE SignInShapes'
  <2>1. PICK n : n = Checks(q, c, t)
    OBVIOUS
  <2>2. c.inc # 0
    BY <1>1, <1>2, <1>5, SignInBounds
  <2>3. n \in Handled /\ StagesFit(n) /\ CodeFit(n.seen)
    BY <1>1, <1>2, <2>1, <2>2, ChecksFit
  <2>4. QED
    BY <1>3, <1>5, <2>1, <2>3, MovesFit
<1>6. QED
  BY <1>3, <1>4, <1>5

LEMMA SetFactorFits == ASSUME SignInShapes, NEW h \in Handlers, SetFactor(h) PROVE SignInShapes'
<1>1. PICK q \in Handled : q = handlers[h] /\ StagesFit(q) /\ q.seen \in Codes /\ q.at = "change"
  BY HandlerFit DEF SignInShapes, SetFactor
<1>2. q.inc # 0 /\ q.inc \in Lives /\ q.target \in Methods /\ q.enrol \in Enrollments /\ q.seen.factor + 1 \in Nat
  BY <1>1 DEF StagesFit, Handled, Codes
<1>3. PICK e : e = IF q.target = "totp" THEN q.enrol ELSE 0
  OBVIOUS
<1>4. policy' \in {policy, [policy EXCEPT !.epoch = @ + 1, !.inc = q.inc, !.factor = q.seen.factor + 1,
                          !.method = q.target, !.enrol = e]}
  BY <1>1, <1>3 DEF SetFactor
<1>5. AccountFit'
  <2>1. policy.epoch + 1 \in Nat /\ e \in Enrollments
    BY <1>2, <1>3, SignInBounds DEF SignInShapes, AccountFit
  <2>2. QED
    BY <1>2, <1>4, <2>1 DEF SignInShapes, AccountFit, SetFactor
<1>6. HandlersFit'
  BY HandlerEnds DEF SetFactor, SignInShapes
<1>7. QED
  BY <1>5, <1>6 DEF SetFactor, SignInShapes, ChallengesFit, SessionsFit, LinksFit, rest

LEMMA ResetRequestFits == ASSUME SignInShapes, NEW h \in Handlers, ResetRequest(h) PROVE SignInShapes'
<1>1. PICK q : q = [Still EXCEPT !.at = "previous", !.job = "request", !.inc = account.inc]
  OBVIOUS
<1>2. account.inc \in Lives /\ account.inc # 0
  BY SignInBounds DEF SignInShapes, AccountFit
<1>3. q \in Handled /\ q.at = "previous" /\ q.job = "request" /\ q.inc = account.inc /\ q.seen = NoCode
  BY <1>1, <1>2, StillFits DEF Handled, Stages, Errands
<1>4. StagesFit(q) /\ CodeFit(q.seen)
  BY <1>2, <1>3, StillFits DEF StagesFit
<1>5. Started(h, q) /\ UNCHANGED stores
  BY <1>1 DEF ResetRequest
<1>6. QED
  BY <1>3, <1>4, <1>5, StartsFit

LEMMA TakePointerFits == ASSUME SignInShapes, NEW h \in Handlers, TakePointer(h) PROVE SignInShapes'
<1>1. PICK q \in Handled : q = handlers[h] /\ StagesFit(q) /\ CodeFit(q.seen) /\ q.at = "previous" /\ q.inc \in Lives
  BY HandlerFit DEF SignInShapes, TakePointer, StagesFit, Handled
<1>2. pointer' = [pointer EXCEPT ![q.inc] = {}] /\ pointer \in [Lives -> SUBSET Nat]
  BY <1>1 DEF TakePointer, SignInShapes, LinksFit
<1>3. \/ Hold(h, [q EXCEPT !.at = "token"])
      \/ \E t \in Nat : Hold(h, [q EXCEPT !.at = "drop", !.token = t])
  BY <1>1, <1>2 DEF TakePointer, Goes
<1>4. HandlersFit'
  <2>1. CASE Hold(h, [q EXCEPT !.at = "token"])
    <3>1. PICK n : n = [q EXCEPT !.at = "token"]
      OBVIOUS
    <3>2. n \in Handled /\ StagesFit(n) /\ CodeFit(n.seen)
      BY <1>1, <3>1 DEF Handled, StagesFit, Stages
    <3>3. QED
      BY <2>1, <3>1, <3>2, HandlerGoes DEF SignInShapes
  <2>2. ASSUME NEW t \in Nat, Hold(h, [q EXCEPT !.at = "drop", !.token = t]) PROVE HandlersFit'
    <3>1. PICK n : n = [q EXCEPT !.at = "drop", !.token = t]
      OBVIOUS
    <3>2. n \in Handled /\ StagesFit(n) /\ CodeFit(n.seen)
      <4>1. "drop" \in Stages /\ q.job = "request" /\ q.inc # 0
        BY <1>1 DEF Stages, StagesFit
      <4>2. n \in Handled /\ n.at = "drop" /\ n.job = q.job /\ n.inc = q.inc /\ n.seen = q.seen
        BY <1>1, <2>2, <3>1, <4>1 DEF Handled
      <4>3. StagesFit(n)
        BY <4>1, <4>2 DEF StagesFit
      <4>4. QED
        BY <1>1, <4>2, <4>3
    <3>3. QED
      BY <2>2, <3>1, <3>2, HandlerGoes DEF SignInShapes
  <2>3. QED
    BY <1>3, <2>1, <2>2
<1>5. pointer' \in [Lives -> SUBSET Nat] /\ \A i \in Lives : \A m, n \in pointer'[i] : m = n
  BY <1>1, <1>2 DEF SignInShapes, LinksFit
<1>6. QED
  BY <1>4, <1>5 DEF TakePointer, SignInShapes, AccountFit, ChallengesFit, SessionsFit, LinksFit, rest

LEMMA DropTokenFits == ASSUME SignInShapes, NEW h \in Handlers, DropToken(h) PROVE SignInShapes'
<1>1. PICK q \in Handled : q = handlers[h] /\ StagesFit(q) /\ CodeFit(q.seen) /\ q.at \in {"drop", "rollback"}
  BY HandlerFit DEF SignInShapes, DropToken
<1>2. PICK n : n = [q EXCEPT !.at = "token"]
  OBVIOUS
<1>3. n \in Handled /\ StagesFit(n) /\ CodeFit(n.seen)
  BY <1>1, <1>2 DEF Handled, StagesFit, Stages
<1>4. Hold(h, n) \/ Done(h)
  BY <1>1, <1>2 DEF DropToken, Goes
<1>5. HandlersFit'
  BY <1>3, <1>4, HandlerGoes, HandlerEnds DEF SignInShapes
<1>6. tokens' \subseteq tokens
  BY DEF DropToken
<1>7. QED
  BY <1>5, <1>6 DEF DropToken, SignInShapes, AccountFit, ChallengesFit, SessionsFit, LinksFit, rest

LEMMA CreateTokenFits == ASSUME SignInShapes, NEW h \in Handlers, CreateToken(h) PROVE SignInShapes'
<1>1. PICK q \in Handled : q = handlers[h] /\ StagesFit(q) /\ CodeFit(q.seen) /\ q.at = "token"
  BY HandlerFit DEF SignInShapes, CreateToken
<1>2. PICK n : n = [q EXCEPT !.at = "point", !.token = q.id]
  OBVIOUS
<1>3. q.id \in Nat /\ q.inc \in Lives
  BY <1>1, SignInBounds DEF Handled, StagesFit
<1>4. n \in Handled /\ StagesFit(n) /\ CodeFit(n.seen)
  <2>1. n \in Handled
    BY <1>2, <1>3 DEF Handled, Stages
  <2>2. n.at = "point" /\ n.job = q.job /\ n.inc = q.inc /\ n.seen = q.seen
    BY <1>2 DEF Handled
  <2>3. QED
    BY <1>1, <2>1, <2>2 DEF StagesFit
<1>5. Hold(h, n)
  BY <1>1, <1>2 DEF CreateToken
<1>6. HandlersFit'
  BY <1>4, <1>5, HandlerGoes DEF SignInShapes
<1>7. tokens' \subseteq [id : Nat, inc : Lives]
  BY <1>1, <1>3 DEF CreateToken, SignInShapes, LinksFit
<1>8. QED
  BY <1>6, <1>7 DEF CreateToken, SignInShapes, AccountFit, ChallengesFit, SessionsFit, LinksFit, rest

LEMMA PointTokenFits == ASSUME SignInShapes, NEW h \in Handlers, PointToken(h) PROVE SignInShapes'
<1>1. PICK q \in Handled : q = handlers[h] /\ StagesFit(q) /\ CodeFit(q.seen) /\ q.at = "point" /\ q.inc \in Lives /\ q.token \in Nat
  BY HandlerFit DEF SignInShapes, PointToken, StagesFit, Handled
<1>2. PICK n : n = [q EXCEPT !.at = "rollback"]
  OBVIOUS
<1>3. n \in Handled /\ StagesFit(n) /\ CodeFit(n.seen)
  BY <1>1, <1>2 DEF Handled, StagesFit, Stages
<1>4. (Hold(h, n) /\ UNCHANGED pointer) \/ (Done(h) /\ pointer' = [pointer EXCEPT ![q.inc] = {q.token}])
  BY <1>1, <1>2 DEF PointToken, Goes
<1>5. HandlersFit'
  BY <1>3, <1>4, HandlerGoes, HandlerEnds DEF SignInShapes
<1>6. pointer' \in [Lives -> SUBSET Nat] /\ \A i \in Lives : \A m, l \in pointer'[i] : m = l
  BY <1>1, <1>4 DEF SignInShapes, LinksFit
<1>7. QED
  BY <1>5, <1>6 DEF PointToken, SignInShapes, AccountFit, ChallengesFit, SessionsFit, LinksFit, rest

LEMMA ResetFinishFits == ASSUME SignInShapes, NEW h \in Handlers, ResetFinish(h) PROVE SignInShapes'
<1>1. PICK t \in tokens : /\ tokens' = tokens \ {t}
                          /\ Started(h, [Still EXCEPT !.at = "row", !.job = "reset", !.inc = t.inc])
  BY DEF ResetFinish
<1>2. PICK q : q = [Still EXCEPT !.at = "row", !.job = "reset", !.inc = t.inc]
  OBVIOUS
<1>3. t.inc \in Lives /\ t.inc # 0
  BY SignInBounds DEF SignInShapes, LinksFit
<1>4. q \in Handled /\ q.at = "row" /\ q.job = "reset" /\ q.inc = t.inc /\ q.seen = NoCode
  BY <1>2, <1>3, StillFits DEF Handled, Stages, Errands
<1>5. StagesFit(q) /\ CodeFit(q.seen)
  BY <1>3, <1>4, StillFits DEF StagesFit
<1>6. HandlersFit' /\ SessionsFit' /\ UNCHANGED stray
  BY <1>1, <1>2, <1>4, <1>5, HandlerStarts DEF SignInShapes, SessionsFit, ResetFinish
<1>7. QED
  BY <1>1, <1>6 DEF ResetFinish, SignInShapes, AccountFit, ChallengesFit, LinksFit

LEMMA ResetRowFits == ASSUME SignInShapes, NEW h \in Handlers, ResetRow(h) PROVE SignInShapes'
<1>1. PICK q \in Handled : q = handlers[h] /\ StagesFit(q) /\ CodeFit(q.seen) /\ q.at = "row"
  BY HandlerFit DEF SignInShapes, ResetRow
<1>2. PICK n : n = [q EXCEPT !.at = "rekey", !.key = account.key]
  OBVIOUS
<1>a. account.key \in Nat /\ "rekey" \in Stages
  BY DEF SignInShapes, AccountFit, Stages
<1>b. n \in Handled
  BY <1>1, <1>2, <1>a DEF Handled
<1>c. n.at = "rekey" /\ n.job = q.job /\ n.inc = q.inc /\ n.seen = q.seen
  BY <1>1, <1>2 DEF Handled
<1>3. n \in Handled /\ StagesFit(n) /\ CodeFit(n.seen)
  BY <1>1, <1>b, <1>c DEF StagesFit
<1>4. UNCHANGED <<stores, rest>> /\ (Hold(h, n) \/ Done(h))
  BY <1>1, <1>2 DEF ResetRow
<1>5. QED
  BY <1>3, <1>4, MovesFit, EndsFit

LEMMA RekeyFits == ASSUME SignInShapes, NEW h \in Handlers, Rekey(h) PROVE SignInShapes'
<1>1. PICK q \in Handled : q = handlers[h] /\ StagesFit(q) /\ CodeFit(q.seen) /\ q.at = "rekey"
  BY HandlerFit DEF SignInShapes, Rekey
<1>2. PICK n : n = [q EXCEPT !.at = "signOut", !.key = @ + 1]
  OBVIOUS
<1>3. n \in Handled /\ StagesFit(n) /\ CodeFit(n.seen)
  <2>1. q.key + 1 \in Nat
    BY DEF Handled
  <2>2. n \in Handled
    BY <1>2, <2>1 DEF Handled, Stages
  <2>3. n.at = "signOut" /\ n.job = q.job /\ n.inc = q.inc /\ n.seen = q.seen
    BY <1>2 DEF Handled
  <2>4. QED
    BY <1>1, <2>2, <2>3 DEF StagesFit
<1>4. (Hold(h, n) /\ account' = [account EXCEPT !.key = @ + 1]) \/ (Done(h) /\ UNCHANGED account)
  BY <1>1, <1>2 DEF Rekey
<1>5. HandlersFit'
  BY <1>3, <1>4, HandlerGoes, HandlerEnds DEF SignInShapes
<1>6. AccountFit'
  BY <1>4 DEF Rekey, SignInShapes, AccountFit
<1>7. QED
  BY <1>5, <1>6 DEF Rekey, SignInShapes, ChallengesFit, SessionsFit, LinksFit, rest

LEMMA LogoutAllFits == ASSUME SignInShapes, NEW h \in Handlers, LogoutAll(h) PROVE SignInShapes'
<1>1. PICK q : q = [Still EXCEPT !.at = "signOut", !.job = "logout"]
  OBVIOUS
<1>2. q \in Handled /\ StagesFit(q) /\ CodeFit(q.seen)
  BY <1>1, StillFits DEF Handled, StagesFit, Stages, Errands
<1>3. Started(h, q) /\ UNCHANGED stores
  BY <1>1 DEF LogoutAll
<1>4. QED
  BY <1>2, <1>3, StartsFit

LEMMA SignOutFits == ASSUME SignInShapes, NEW h \in Handlers, SignOut(h) PROVE SignInShapes'
<1>1. PICK q \in Handled : q = handlers[h] /\ q.at = "signOut"
  BY HandlerFit DEF SignInShapes, SignOut
<1>2. HandlersFit'
  BY HandlerEnds DEF SignOut, SignInShapes
<1>3. acked' \in Nat
  BY <1>1 DEF SignOut, SignInShapes, SessionsFit, Handled
<1>4. AccountFit'
  BY DEF SignOut, SignInShapes, AccountFit
<1>5. QED
  BY <1>2, <1>3, <1>4 DEF SignOut, SignInShapes, ChallengesFit, SessionsFit, LinksFit

LEMMA LogoutFits == ASSUME SignInShapes, Logout PROVE SignInShapes'
<1>1. SessionsFit'
  BY SignInBounds DEF Logout, Once, SignInShapes, SessionsFit
<1>2. QED
  BY <1>1 DEF Logout, SignInShapes, AccountFit, ChallengesFit, LinksFit, HandlersFit

LEMMA DeleteAccountFits == ASSUME SignInShapes, DeleteAccount PROVE SignInShapes'
<1>1. HandlersFit' /\ UNCHANGED <<logins, pending, cookies, handlers, accepted, stray>>
  BY DEF DeleteAccount, SignInShapes, HandlersFit
<1>2. CASE /\ Once /\ account.state = "live" /\ account' = [account EXCEPT !.state = "deleting"]
           /\ UNCHANGED <<policy, acked, setup, counters, tokens, pointer>>
  <2>1. AccountFit'
    BY <1>2 DEF SignInShapes, AccountFit
  <2>2. SessionsFit'
    BY <1>1, <1>2, SignInBounds DEF Once, SignInShapes, SessionsFit
  <2>3. QED
    BY <1>1, <1>2, <2>1, <2>2 DEF SignInShapes, ChallengesFit, LinksFit
<1>3. CASE /\ account.state = "deleting" /\ account' = [account EXCEPT !.state = "none"]
           /\ policy' = [policy EXCEPT !.epoch = @ + 2, !.inc = 0, !.factor = 0, !.method = "none",
                                       !.enrol = 0, !.fence = @ + 1]
           /\ tokens' = {t \in tokens : t.id \notin pointer[account.inc]}
           /\ pointer' = [pointer EXCEPT ![account.inc] = {}]
           /\ setup' = [setup EXCEPT ![account.inc] = NoCode]
           /\ counters' = [n \in DOMAIN counters |-> 0]
           /\ UNCHANGED <<acked, started>>
  <2>1. AccountFit'
    <3>1. policy.epoch + 2 \in Nat /\ policy.fence + 1 \in Nat /\ 0 \in Enrollments /\ "none" \in Methods
      BY SignInBounds DEF SignInShapes, AccountFit, Methods
    <3>2. policy' \in [epoch : Nat, inc : {0} \cup Lives, factor : Nat, method : Methods,
                       enrol : Enrollments, fence : Nat] /\ policy'.method = "none"
      BY <1>3, <3>1 DEF SignInShapes, AccountFit
    <3>3. account' \in [inc : Lives, state : {"live", "deleting", "none"}, key : Nat]
      BY <1>3 DEF SignInShapes, AccountFit
    <3>4. QED
      BY <3>2, <3>3 DEF AccountFit
  <2>2. ChallengesFit'
    <3>1. \A i \in Lives : SetupFit(i, NoCode)
      BY StillFits, SignInBounds DEF SetupFit
    <3>2. setup' \in [Lives -> Codes] /\ \A i \in Lives : SetupFit(i, setup'[i])
      BY <1>3, <3>1, StillFits DEF SignInShapes, ChallengesFit
    <3>3. QED
      BY <1>1, <1>3, <3>2 DEF SignInShapes, ChallengesFit
  <2>3. LinksFit'
    BY <1>1, <1>3 DEF SignInShapes, LinksFit
  <2>4. QED
    BY <1>1, <1>3, <2>1, <2>2, <2>3 DEF SignInShapes, SessionsFit
<1>4. CASE /\ Once /\ account.state = "none" /\ account.inc < MaxLives
           /\ account' = [inc |-> account.inc + 1, state |-> "live", key |-> 1]
           /\ policy' = [policy EXCEPT !.epoch = @ + 1] /\ acked' = 0
           /\ UNCHANGED <<setup, counters, tokens, pointer>>
  <2>1. account.inc + 1 \in Lives
    BY <1>4, SignInBounds DEF SignInShapes, AccountFit, Lives
  <2>2. AccountFit'
    BY <1>4, <2>1 DEF SignInShapes, AccountFit
  <2>3. SessionsFit'
    BY <1>1, <1>4, SignInBounds DEF Once, SignInShapes, SessionsFit
  <2>4. QED
    BY <1>1, <1>4, <2>2, <2>3 DEF SignInShapes, ChallengesFit, LinksFit
<1>5. QED
  BY <1>2, <1>3, <1>4 DEF DeleteAccount

LEMMA FailFits == ASSUME SignInShapes, NEW h \in Handlers, Fail(h) PROVE SignInShapes'
<1>1. PICK q \in Handled : q = handlers[h] /\ q.token \in Nat
  BY HandlerFit DEF SignInShapes, Handled
<1>2. HandlersFit'
  BY HandlerEnds DEF Fail, SignInShapes
<1>3. stray' \subseteq Nat
  BY <1>1 DEF Fail, SignInShapes, LinksFit
<1>4. QED
  BY <1>2, <1>3 DEF Fail, stores, SignInShapes, AccountFit, ChallengesFit, SessionsFit, LinksFit

LEMMA SignInShapesStep == SignInShapes /\ [SignInNext]_signInVars => SignInShapes'
<1> SUFFICES ASSUME SignInShapes, [SignInNext]_signInVars PROVE SignInShapes'
  OBVIOUS
<1>1. ASSUME NEW h \in Handlers, Signing(h) PROVE SignInShapes'
  BY <1>1, LoginStartFits, CreateChallengeFits, LoginFinishFits, VerifyLoginFits, FinishLoginFits DEF Signing
<1>2. ASSUME NEW h \in Handlers, Coding(h) PROVE SignInShapes'
  BY <1>2, TwoFaVerifyFits, WrongFits, ReadCounterFits, CountFits, ConsumeFits, RecheckFits, MintSecondFits DEF Coding
<1>3. ASSUME NEW h \in Handlers, SettingUp(h) PROVE SignInShapes'
  BY <1>3, TwoFaSetupFits, SetupAccountFits, StoreSetupFits, TwoFaSetupVerifyFits, ConfirmAccountFits,
     OpenSetupFits, SetFactorFits DEF SettingUp
<1>4. ASSUME NEW h \in Handlers, Resetting(h) PROVE SignInShapes'
  BY <1>4, ResetRequestFits, TakePointerFits, DropTokenFits, CreateTokenFits, PointTokenFits, ResetFinishFits,
     ResetRowFits, RekeyFits, LogoutAllFits, SignOutFits DEF Resetting
<1>5. CASE UNCHANGED signInVars
  BY <1>5 DEF signInVars, SignInShapes, AccountFit, ChallengesFit, SessionsFit, LinksFit, HandlersFit
<1>6. QED
  BY <1>1, <1>2, <1>3, <1>4, <1>5, FailFits, LogoutFits, DeleteAccountFits DEF SignInNext

LEMMA SignInShapesStart == SignInInit => SignInShapes
<1> SUFFICES ASSUME SignInInit PROVE SignInShapes
  OBVIOUS
<1>1. PICK m \in Methods :
       /\ policy = [epoch |-> 1, inc |-> 1, factor |-> 1, method |-> m, enrol |-> 0, fence |-> 0]
       /\ cookies = {[epoch |-> 1, inc |-> 1, key |-> 1, method |-> m]}
       /\ pending = IF m = "none" THEN {}
                    ELSE {[NoCode EXCEPT !.epoch = 1, !.inc = 1, !.key = 1, !.method = m, !.factor = 1]}
       /\ setup = [i \in Lives |->
            IF i = 1 /\ m = "none"
            THEN [NoCode EXCEPT !.epoch = 1, !.inc = 1, !.method = "totp", !.target = "totp", !.factor = 1]
            ELSE NoCode]
  BY DEF SignInInit
<1>2. AccountFit
  BY <1>1, SignInBounds DEF SignInInit, AccountFit
<1>3. ChallengesFit
  <2>1. PICK c : c = [NoCode EXCEPT !.epoch = 1, !.inc = 1, !.key = 1, !.method = m, !.factor = 1]
    OBVIOUS
  <2>2. m # "none" => PendingFit(c)
    <3>1. c \in Codes
      BY <2>1, StillFits, SignInBounds DEF Codes
    <3>2. c.method = m /\ c.target = "none" /\ c.inc = 1 /\ c.attempts = 0
      BY <2>1, StillFits DEF Codes
    <3>3. QED
      BY <3>1, <3>2, SignInBounds DEF PendingFit
  <2>3. PICK d : d = [NoCode EXCEPT !.epoch = 1, !.inc = 1, !.method = "totp", !.target = "totp", !.factor = 1]
    OBVIOUS
  <2>4. SetupFit(1, d) /\ d \in Codes
    <3>1. d \in Codes
      BY <2>3, StillFits, SignInBounds DEF Codes, Methods
    <3>2. d.method = "totp" /\ d.target = "totp" /\ d.inc = 1 /\ d.attempts = 0
      BY <2>3, StillFits DEF Codes
    <3>3. QED
      BY <3>1, <3>2, SignInBounds DEF SetupFit, CodeFit
  <2>5. \A i \in Lives : SetupFit(i, NoCode)
    BY StillFits, SignInBounds DEF SetupFit
  <2>6. \A i \in Lives : setup[i] = (IF i = 1 /\ m = "none" THEN d ELSE NoCode)
    BY <1>1, <2>3
  <2>7. setup \in [Lives -> Codes]
    BY <1>1, <2>3, <2>4, StillFits
  <2>8. \A i \in Lives : SetupFit(i, setup[i])
    BY <2>4, <2>5, <2>6
  <2>9. counters \in [Enrollments -> Nat]
    BY DEF SignInInit, Enrollments
  <2>10. \A p \in pending : PendingFit(p)
    BY <1>1, <2>1, <2>2
  <2>11. QED
    BY <2>7, <2>8, <2>9, <2>10 DEF SignInInit, ChallengesFit
<1>4. LinksFit
  BY SignInBounds DEF SignInInit, LinksFit
<1>5. SessionsFit
  BY <1>1, SignInBounds DEF SignInInit, SessionsFit
<1>6. HandlersFit
  BY StillFits DEF SignInInit, HandlersFit
<1>7. QED
  BY <1>2, <1>3, <1>4, <1>5, <1>6 DEF SignInShapes

(* The shapes, and every step keeps them.                                  *)
THEOREM SignInTypes == SignInSpec => []SignInTypeOK
<1>1. SignInSpec => []SignInShapes
  BY SignInShapesStart, SignInShapesStep, PTL DEF SignInSpec
<1>2. SignInShapes => SignInTypeOK
  <2> SUFFICES ASSUME SignInShapes PROVE SignInTypeOK
    OBVIOUS
  <2>1. \A n \in Lives : n \in Nat
    BY SignInBounds
  <2>2. \A n \in Enrollments : n \in Nat
    BY SignInBounds
  <2>3. ASSUME NEW h \in Handlers PROVE handlers[h] \in Handler
    <3>1. PICK q \in Handled : q = handlers[h] /\ q.seen \in Codes
      BY HandlerFit DEF SignInShapes
    <3>2. q.seen \in [id: Nat, epoch: Nat, inc: Nat, key: Nat, method: Methods,
            factor: Nat, enrol: Nat, target: Methods, attempts: Nat]
      BY <2>1, <2>2, <3>1 DEF Codes
    <3>3. q.at \in Stages /\ q.job \in {"none", "verify", "setup", "switch", "confirm", "request", "reset", "logout"}
      <4>1. q.at \in Stages /\ q.job \in Errands
        BY <3>1 DEF Handled
      <4>2. QED
        BY <4>1 DEF Errands
    <3>4. q.inc \in Nat /\ q.id \in Nat /\ q.enrol \in Nat
      BY <2>1, <2>2 DEF Handled
    <3>5. QED
      BY <3>1, <3>2, <3>3, <3>4 DEF Handler, Handled
  <2>4. account \in [inc: Lives, state: {"live", "deleting", "none"}, key: Nat]
    BY DEF SignInShapes, AccountFit
  <2>5. policy \in [epoch: Nat, inc: Nat, factor: Nat, method: Methods, enrol: Nat, fence: Nat]
    BY <2>1, <2>2 DEF SignInShapes, AccountFit
  <2>6. logins \subseteq [id: Nat, epoch: Nat, inc: Nat]
    BY <2>1 DEF SignInShapes, ChallengesFit
  <2>7. /\ \A c \in pending : c.method # "none" /\ c.attempts < MaxAttempts
        /\ \A i \in Lives : setup[i].attempts < MaxAttempts
        /\ counters \in [{0} \cup Calls -> Nat]
    BY DEF SignInShapes, ChallengesFit, PendingFit, SetupFit, Enrollments
  <2>8. QED
    BY <2>3, <2>4, <2>5, <2>6, <2>7 DEF SignInShapes, LinksFit, SessionsFit, SignInTypeOK
<1>3. QED
  BY <1>1, <1>2, PTL

-----------------------------------------------------------------------------
(* A generation that ends does not come back, and while one lasts the      *)
(* account and the last reset that was answered stay.                      *)
Onward ==
  /\ account'.inc >= account.inc /\ policy'.epoch >= policy.epoch
  /\ account'.inc = account.inc => account'.key >= account.key
  /\ policy'.epoch = policy.epoch =>
       /\ policy' = policy /\ acked' = acked
       /\ account'.state = "live" => account.state = "live" /\ account'.inc = account.inc

LEMMA AccountNumbers ==
  ASSUME AccountFit
  PROVE  /\ account.inc \in Nat /\ account.key \in Nat /\ policy.epoch \in Nat /\ policy.factor \in Nat
         /\ policy.inc \in Nat /\ policy.fence \in Nat /\ account.inc \in Lives
BY SignInBounds DEF AccountFit

LEMMA AccountNumbersNext ==
  ASSUME AccountFit'
  PROVE  /\ account'.inc \in Nat /\ account'.key \in Nat /\ policy'.epoch \in Nat /\ policy'.factor \in Nat
         /\ policy'.inc \in Nat /\ policy'.fence \in Nat /\ account'.inc \in Lives
BY SignInBounds DEF AccountFit

LEMMA SameOnward ==
  ASSUME AccountFit, UNCHANGED <<account, policy, acked>> PROVE Onward
BY AccountNumbers DEF Onward

LEMMA CurrentStays ==
  ASSUME AccountFit, AccountFit', Onward, NEW c, c.epoch \in Nat, Current(account, policy, acked, c)
  PROVE  Current(account', policy', acked', c)
<1>1. c.epoch <= policy'.epoch
  BY AccountNumbers, AccountNumbersNext DEF Onward, Current
<1>2. ASSUME c.epoch = policy'.epoch PROVE policy'.epoch = policy.epoch
  BY <1>2, AccountNumbers, AccountNumbersNext DEF Onward, Current
<1>3. QED
  BY <1>1, <1>2 DEF Onward, Current

LEMMA SessionOfStays ==
  ASSUME AccountFit, AccountFit', Onward, NEW q \in Handled, SessionOf(account, policy, acked, q)
  PROVE  SessionOf(account', policy', acked', q)
<1>1. q.inc \in Nat /\ q.key \in Nat /\ q.epoch \in Nat /\ q.seen.epoch \in Nat
  BY SignInBounds DEF Handled, Codes
<1>3. q.inc <= account'.inc
  BY <1>1, AccountNumbers, AccountNumbersNext DEF Onward, SessionOf
<1>4. q.at \in {"signature", "settings"} => q.epoch <= policy'.epoch
  BY <1>1, AccountNumbers, AccountNumbersNext DEF Onward, SessionOf
<1>5. q.at = "settings" => Current(account', policy', acked', q)
  BY <1>1, CurrentStays DEF SessionOf
<1>6. q.job = "verify" => Current(account', policy', acked', q.seen)
  BY <1>1, CurrentStays DEF SessionOf
<1>7. ASSUME q.at \in {"rekey", "signOut"}, q.job = "reset", q.inc = account'.inc PROVE q.key <= account'.key
  <2>1. q.inc = account.inc
    BY <1>1, <1>7, AccountNumbers, AccountNumbersNext DEF Onward, SessionOf
  <2>2. QED
    BY <1>1, <1>7, <2>1, AccountNumbers, AccountNumbersNext DEF Onward, SessionOf
<1>8. QED
  BY <1>3, <1>4, <1>5, <1>6, <1>7 DEF SessionOf

(* One request goes on; what it leaves behind is current when it does.     *)
LEMMA SessionsGo ==
  ASSUME SignInShapes, SignInShapes', SessionsHold, Onward, acked' <= account'.key, policy'.inc <= account'.inc,
         \A c \in logins' : c \in logins \/ (c.epoch <= policy'.epoch /\ c.inc <= account'.inc),
         \A c \in pending' : c \in pending \/ (Current(account', policy', acked', c) /\ c.inc <= account'.inc),
         \A i \in Lives : setup'[i].inc \in {0, setup[i].inc} \/ setup'[i].inc <= account'.inc,
         \A t \in tokens' : t \in tokens \/ t.inc <= account'.inc,
         \A s \in cookies' : s \in cookies \/ SessionCurrent(account', policy', acked', s),
         NEW h, \A g \in Handlers \ {h} : handlers'[g] = handlers[g],
         h \in Handlers => SessionOf(account', policy', acked', handlers'[h])
  PROVE  SessionsHold'
<1> USE DEF SignInShapes
<1>1. /\ account.inc \in Nat /\ account'.inc \in Nat /\ policy.epoch \in Nat /\ policy'.epoch \in Nat
      /\ account'.inc >= account.inc /\ policy'.epoch >= policy.epoch
  BY AccountNumbers, AccountNumbersNext DEF Onward
<1>2. ASSUME NEW c \in logins' PROVE c.epoch <= policy'.epoch /\ c.inc <= account'.inc
  <2>1. c.epoch \in Nat /\ c.inc \in Nat
    BY <1>2, SignInBounds DEF ChallengesFit
  <2>2. QED
    BY <1>1, <1>2, <2>1 DEF SessionsHold
<1>3. ASSUME NEW c \in pending' PROVE Current(account', policy', acked', c) /\ c.inc <= account'.inc
  <2>2. CASE c \in pending
    <3>1. c.epoch \in Nat /\ c.inc \in Nat
      BY <2>2, SignInBounds DEF ChallengesFit, PendingFit, Codes
    <3>2. QED
      BY <1>1, <2>2, <3>1, CurrentStays DEF SessionsHold
  <2>3. QED
    BY <1>3, <2>2
<1>4. ASSUME NEW i \in Lives PROVE setup'[i].inc <= account'.inc
  <2>1. setup[i].inc \in Nat /\ setup[i].inc <= account.inc
    BY SignInBounds DEF ChallengesFit, Codes, SessionsHold
  <2>2. QED
    BY <1>1, <2>1
<1>5. ASSUME NEW t \in tokens' PROVE t.inc <= account'.inc
  <2>1. t.inc \in Nat
    BY <1>5, SignInBounds DEF LinksFit
  <2>2. QED
    BY <1>1, <1>5, <2>1 DEF SessionsHold
<1>6. ASSUME NEW g \in Handlers PROVE SessionOf(account', policy', acked', handlers'[g])
  <2>1. CASE g # h
    <3>1. handlers'[g] = handlers[g] /\ handlers[g] \in Handled
      BY <2>1, HandlerFit
    <3>3. QED
      BY <3>1, SessionOfStays DEF SessionsHold
  <2>2. QED
    BY <2>1
<1>7. ASSUME NEW s \in cookies' PROVE SessionCurrent(account', policy', acked', s)
  <2>1. CASE s \in cookies
    <3>1. s.epoch \in Nat /\ Current(account, policy, acked, s)
      BY <2>1 DEF SessionsFit, SessionsHold, SessionCurrent
    <3>2. Current(account', policy', acked', s) /\ s.epoch <= policy.epoch
      BY <3>1, CurrentStays DEF Current
    <3>3. s.epoch = policy'.epoch => policy'.epoch = policy.epoch
      BY <1>1, <3>1, <3>2
    <3>4. s.epoch = policy'.epoch /\ account'.state = "live" => s.method = SettingsOf(policy', account'.inc).method
      BY <2>1, <3>3 DEF Onward, SessionsHold, SessionCurrent
    <3>5. QED
      BY <3>2, <3>4 DEF SessionCurrent
  <2>2. QED
    BY <1>7, <2>1
<1>8. QED
  BY <1>2, <1>3, <1>4, <1>5, <1>6, <1>7 DEF SessionsHold

(* What a request carries on to its next call.                             *)
Alike(q, n) ==
  /\ n.job = q.job /\ n.inc = q.inc /\ n.key = q.key /\ n.seen = q.seen /\ n.epoch = q.epoch /\ n.fence = q.fence
  /\ n.factor = q.factor /\ n.method = q.method /\ n.enrol = q.enrol /\ n.target = q.target
  /\ n.step = q.step /\ n.last = q.last /\ n.token = q.token

LEMMA HandlerMoves ==
  ASSUME HandlersFit, NEW h \in Handlers, NEW at \in Stages, Goes(h, at)
  PROVE  \E n \in Handled : /\ handlers'[h] = n /\ n.at = at /\ n.id = handlers[h].id /\ Alike(handlers[h], n)
                            /\ \A g \in Handlers \ {h} : handlers'[g] = handlers[g]
<1>1. PICK q \in Handled : q = handlers[h]
  BY HandlerFit
<1>2. PICK n : n = [q EXCEPT !.at = at]
  OBVIOUS
<1>3. n \in Handled
  BY <1>2 DEF Handled
<1>4. n.at = at /\ n.id = q.id /\ Alike(q, n)
  BY <1>2 DEF Handled, Alike
<1>5. handlers'[h] = n /\ \A g \in Handlers \ {h} : handlers'[g] = handlers[g]
  BY <1>1, <1>2 DEF Goes, Hold, HandlersFit
<1>6. QED
  BY <1>1, <1>3, <1>4, <1>5

LEMMA HandlerBegins ==
  ASSUME SessionsFit, HandlersFit, NEW h \in Handlers, NEW q \in Handled, Started(h, q)
  PROVE  \E n \in Handled : /\ handlers'[h] = n /\ n.at = q.at /\ n.id = started + 1 /\ Alike(q, n)
                            /\ \A g \in Handlers \ {h} : handlers'[g] = handlers[g]
<1>1. PICK n : n = [q EXCEPT !.id = started + 1]
  OBVIOUS
<1>2. started + 1 \in Enrollments
  BY SignInBounds DEF Started, SessionsFit, Enrollments, Calls
<1>3. n \in Handled
  BY <1>1, <1>2 DEF Handled
<1>4. n.id = started + 1 /\ n.at = q.at /\ Alike(q, n)
  BY <1>1 DEF Handled, Alike
<1>5. handlers'[h] = n /\ \A g \in Handlers \ {h} : handlers'[g] = handlers[g]
  BY <1>1 DEF Started, Hold, HandlersFit
<1>6. QED
  BY <1>3, <1>4, <1>5

LEMMA HandlerHolds ==
  ASSUME HandlersFit, NEW h \in Handlers, NEW n, Hold(h, n)
  PROVE  handlers'[h] = n /\ \A g \in Handlers \ {h} : handlers'[g] = handlers[g]
BY DEF Hold, HandlersFit

LEMMA HandlerStops ==
  ASSUME HandlersFit, NEW h \in Handlers, Done(h)
  PROVE  handlers'[h] = Still /\ \A g \in Handlers \ {h} : handlers'[g] = handlers[g]
BY DEF Done, Hold, HandlersFit

LEMMA StillSession == ASSUME AccountFit PROVE SessionOf(account, policy, acked, Still) /\ Still.inc = 0
BY AccountNumbers, StillFits DEF SessionOf, Still

(* Calls that say nothing of the session.                                  *)
LEMMA SessionQuiet ==
  ASSUME NEW q, NEW n, NEW a, NEW p, NEW k, SessionOf(a, p, k, q), n.inc = q.inc \/ n.inc <= a.inc, n.seen = q.seen,
         n.job = "verify" => q.job = "verify",
         n.at \notin {"signature", "settings"}, n.at \in {"rekey", "signOut"} => n.job # "reset"
  PROVE  SessionOf(a, p, k, n)
BY DEF SessionOf

LEMMA SessionsMove ==
  ASSUME SignInShapes, SignInShapes', SessionsHold, UNCHANGED <<account, policy, cookies, logins, pending, setup, acked>>,
         tokens' \subseteq tokens,
         NEW h \in Handlers, \A g \in Handlers \ {h} : handlers'[g] = handlers[g],
         SessionOf(account, policy, acked, handlers'[h])
  PROVE  SessionsHold'
<1>1. Onward /\ acked' <= account'.key /\ policy'.inc <= account'.inc
  BY SameOnward DEF SignInShapes, SessionsHold
<1>2. QED
  BY <1>1, SessionsGo

LEMMA SessionsEnd ==
  ASSUME SignInShapes, SignInShapes', SessionsHold, UNCHANGED <<account, policy, cookies, logins, pending, setup, acked>>,
         tokens' \subseteq tokens, NEW h \in Handlers, Done(h)
  PROVE  SessionsHold'
BY SessionsMove, HandlerStops, StillSession DEF SignInShapes

LEMMA SessionsStart ==
  ASSUME SignInShapes, SignInShapes', SessionsHold, NEW h \in Handlers, NEW q \in Handled, Started(h, q),
         UNCHANGED <<account, policy, cookies, pending, setup>>, tokens' \subseteq tokens, logins' \subseteq logins,
         SessionOf(account, policy, acked, q)
  PROVE  SessionsHold'
<1>1. PICK n \in Handled : /\ handlers'[h] = n /\ n.at = q.at /\ Alike(q, n)
                           /\ \A g \in Handlers \ {h} : handlers'[g] = handlers[g]
  BY HandlerBegins DEF SignInShapes
<1>2. SessionOf(account, policy, acked, n)
  BY <1>1 DEF Alike, SessionOf, Current
<1>3. Onward /\ UNCHANGED acked /\ acked' <= account'.key /\ policy'.inc <= account'.inc
  BY SameOnward DEF SignInShapes, SessionsHold, Started
<1>4. QED
  BY <1>1, <1>2, <1>3, SessionsGo

LEMMA SessionsGoOn ==
  ASSUME SignInShapes, SignInShapes', SessionsHold, UNCHANGED <<account, policy, cookies, logins, pending, setup, acked>>,
         tokens' \subseteq tokens, NEW h \in Handlers, NEW at \in Stages \ {"signature", "settings", "rekey", "signOut"},
         Goes(h, at)
  PROVE  SessionsHold'
<1>1. PICK n \in Handled : /\ handlers'[h] = n /\ n.at = at /\ Alike(handlers[h], n)
                           /\ \A g \in Handlers \ {h} : handlers'[g] = handlers[g]
  BY HandlerMoves DEF SignInShapes
<1>2. SessionOf(account, policy, acked, n)
  BY <1>1, SessionQuiet DEF Alike, SessionsHold
<1>3. QED
  BY <1>1, <1>2, SessionsMove

LEMMA LoginStartSessions ==
  ASSUME SignInShapes, SignInShapes', SessionsHold, NEW h \in Handlers, LoginStart(h) PROVE SessionsHold'
<1>1. PICK q : q = [Still EXCEPT !.at = "challenge", !.inc = account.inc]
  OBVIOUS
<1>2. account.inc \in Lives /\ account.inc <= account.inc
  BY AccountNumbers DEF SignInShapes
<1>3. q \in Handled /\ q.at = "challenge" /\ q.job = "none" /\ q.inc = account.inc /\ q.seen = NoCode
  BY <1>1, <1>2, StillFits DEF Handled, Stages
<1>4. SessionOf(account, policy, acked, q)
  BY <1>2, <1>3 DEF SessionOf
<1>5. Started(h, q) /\ UNCHANGED stores
  BY <1>1 DEF LoginStart
<1>6. QED
  BY <1>3, <1>4, <1>5, SessionsStart DEF stores

LEMMA CreateChallengeSessions ==
  ASSUME SignInShapes, SignInShapes', SessionsHold, NEW h \in Handlers, CreateChallenge(h) PROVE SessionsHold'
<1>1. PICK q \in Handled : q = handlers[h] /\ q.inc <= account.inc
  BY HandlerFit DEF SignInShapes, SessionsHold, SessionOf
<1>2. logins' = logins \cup {[id |-> q.id, epoch |-> policy.epoch, inc |-> q.inc]}
      /\ UNCHANGED <<account, policy, pending, setup, tokens, cookies, acked>> /\ Done(h)
  BY <1>1 DEF CreateChallenge, rest
<1>3. Onward /\ acked' <= account'.key /\ policy'.inc <= account'.inc
  BY <1>2, SameOnward DEF SignInShapes, SessionsHold
<1>4. policy.epoch <= policy.epoch
  BY AccountNumbers DEF SignInShapes
<1>5. handlers'[h] = Still /\ (\A g \in Handlers \ {h} : handlers'[g] = handlers[g]) /\ SessionOf(account, policy, acked, Still)
  BY <1>2, HandlerStops, StillSession DEF SignInShapes
<1>6. QED
  BY <1>1, <1>2, <1>3, <1>4, <1>5, SessionsGo

LEMMA LoginFinishSessions ==
  ASSUME SignInShapes, SignInShapes', SessionsHold, NEW h \in Handlers, LoginFinish(h) PROVE SessionsHold'
<1>1. PICK c \in logins : logins' = logins \ {c} /\ Started(h, [Still EXCEPT !.at = "signature", !.epoch = c.epoch, !.inc = c.inc])
  BY DEF LoginFinish
<1>2. PICK q : q = [Still EXCEPT !.at = "signature", !.epoch = c.epoch, !.inc = c.inc]
  OBVIOUS
<1>3. c.epoch \in Nat /\ c.inc \in Lives /\ c.epoch <= policy.epoch /\ c.inc <= account.inc /\ "signature" \in Stages
  BY DEF SignInShapes, ChallengesFit, SessionsHold, Stages
<1>4. q \in Handled
  BY <1>2, <1>3, StillFits DEF Handled
<1>5. q.at = "signature" /\ q.epoch = c.epoch /\ q.inc = c.inc /\ q.job = "none"
  BY <1>2, StillFits DEF Handled
<1>6. SessionOf(account, policy, acked, q)
  BY <1>3, <1>5 DEF SessionOf
<1>7. QED
  BY <1>1, <1>2, <1>4, <1>6, SessionsStart DEF LoginFinish

LEMMA VerifyLoginSessions ==
  ASSUME SignInShapes, SignInShapes', SessionsHold, NEW h \in Handlers, VerifyLogin(h) PROVE SessionsHold'
<1>1. PICK q \in Handled : /\ q = handlers[h] /\ q.at = "signature" /\ StagesFit(q) /\ SessionOf(account, policy, acked, q)
  BY HandlerFit DEF SignInShapes, SessionsHold, VerifyLogin
<1>2. UNCHANGED <<stores, rest>>
  BY DEF VerifyLogin
<1>3. CASE Done(h)
  BY <1>2, <1>3, SessionsEnd DEF stores, rest
<1>4. ASSUME ~Done(h) PROVE SessionsHold'
  <2>1. PICK n : n = [q EXCEPT !.at = "settings", !.key = account.key]
    OBVIOUS
  <2>2. IsLive(q.inc) /\ Hold(h, n)
    BY <1>1, <1>4, <2>1 DEF VerifyLogin
  <2>3. n.at = "settings" /\ n.key = account.key /\ n.inc = q.inc /\ n.epoch = q.epoch /\ n.job = q.job
    BY <2>1 DEF Handled
  <2>4. n.job = "none" /\ n.epoch <= policy.epoch /\ n.inc = account.inc
    BY <1>1, <2>2, <2>3 DEF StagesFit, SessionOf, IsLive
  <2>5. acked <= account.key /\ account.inc <= account.inc /\ account.key \in Nat /\ acked \in Nat
    BY AccountNumbers DEF SessionsHold, SignInShapes, SessionsFit
  <2>6. SessionOf(account, policy, acked, n)
    BY <2>3, <2>4, <2>5 DEF SessionOf, Current
  <2>7. QED
    BY <1>2, <2>2, <2>6, HandlerHolds, SessionsMove DEF SignInShapes, stores, rest
<1>5. QED
  BY <1>3, <1>4

LEMMA FinishLoginSessions ==
  ASSUME SignInShapes, SignInShapes', SessionsHold, NEW h \in Handlers, FinishLogin(h) PROVE SessionsHold'
<1>1. PICK q \in Handled : q = handlers[h] /\ q.at = "settings" /\ Current(account, policy, acked, q) /\ q.inc <= account.inc
  BY HandlerFit DEF SignInShapes, SessionsHold, FinishLogin, SessionOf
<1>2. PICK s : s = SettingsOf(policy, q.inc)
  OBVIOUS
<1>3. PICK c : c = [NoCode EXCEPT !.id = q.id, !.epoch = q.epoch, !.inc = q.inc, !.key = q.key,
                        !.method = s.method, !.factor = s.factor, !.enrol = s.enrol]
  OBVIOUS
<1>4. c.epoch = q.epoch /\ c.inc = q.inc /\ c.key = q.key
  BY <1>3, StillFits DEF Codes
<1>5. PICK k : k = Cookie(q, "none")
  OBVIOUS
<1>6. k.epoch = q.epoch /\ k.inc = q.inc /\ k.key = q.key /\ k.method = "none"
  BY <1>5 DEF Cookie
<1>7. \/ s.method = "none" /\ cookies' = cookies \cup {k} /\ UNCHANGED pending
      \/ pending' = pending \cup {c} /\ UNCHANGED cookies
  BY <1>1, <1>2, <1>3, <1>5 DEF FinishLogin
<1>8. UNCHANGED <<account, policy, logins, setup, tokens, acked>> /\ Done(h)
  BY DEF FinishLogin, rest
<1>9. Onward /\ acked' <= account'.key /\ policy'.inc <= account'.inc
  BY <1>8, SameOnward DEF SignInShapes, SessionsHold
<1>10. handlers'[h] = Still /\ (\A g \in Handlers \ {h} : handlers'[g] = handlers[g]) /\ SessionOf(account, policy, acked, Still)
  BY <1>8, HandlerStops, StillSession DEF SignInShapes
<1>11. Current(account, policy, acked, c) /\ c.inc <= account.inc
  BY <1>1, <1>4 DEF Current
<1>12. s.method = "none" => SessionCurrent(account, policy, acked, k)
  BY <1>1, <1>2, <1>6 DEF SessionCurrent, Current
<1>13. QED
  BY <1>7, <1>8, <1>9, <1>10, <1>11, <1>12, SessionsGo

LEMMA TwoFaVerifySessions ==
  ASSUME SignInShapes, SignInShapes', SessionsHold, NEW h \in Handlers, TwoFaVerify(h) PROVE SessionsHold'
<1>1. PICK c \in pending, t \in {0} \cup Steps :
        Started(h, Checks([Still EXCEPT !.job = "verify"], c, t)) /\ UNCHANGED stores
  BY DEF TwoFaVerify
<1>2. PICK s : s = [Still EXCEPT !.job = "verify"]
  OBVIOUS
<1>3. s \in Handled /\ s.job = "verify"
  BY <1>2, StillFits DEF Handled, Errands
<1>4. c \in Codes /\ CodeFit(c) /\ c.inc # 0 /\ Current(account, policy, acked, c) /\ c.inc <= account.inc
  BY DEF SignInShapes, ChallengesFit, PendingFit, CodeFit, SessionsHold
<1>5. PICK n : n = Checks(s, c, t)
  OBVIOUS
<1>6. n \in Handled /\ n.seen = c /\ n.inc = c.inc /\ n.at \in {"wrong", "consume", "count", "counter"}
  BY <1>3, <1>4, <1>5, ChecksFit
<1>7. SessionOf(account, policy, acked, n)
  BY <1>4, <1>6 DEF SessionOf
<1>8. QED
  BY <1>1, <1>2, <1>5, <1>6, <1>7, SessionsStart DEF stores

LEMMA WrongSessions ==
  ASSUME SignInShapes, SignInShapes', SessionsHold, NEW h \in Handlers, Wrong(h) PROVE SessionsHold'
<1>1. PICK q \in Handled : q = handlers[h] /\ q.seen \in Codes
  BY HandlerFit DEF SignInShapes
<1>2. PICK c : c = [q.seen EXCEPT !.attempts = @ + 1]
  OBVIOUS
<1>3. c.epoch = q.seen.epoch /\ c.inc = q.seen.inc /\ c.key = q.seen.key
  BY <1>1, <1>2 DEF Codes
<1>4. \/ UNCHANGED setup /\ pending' = IF q.seen \notin pending THEN pending
                         ELSE (pending \ {q.seen}) \cup IF Spent(c) THEN {} ELSE {c}
      \/ UNCHANGED pending /\ setup' = IF setup[q.inc] # q.seen THEN setup
                       ELSE [setup EXCEPT ![q.inc] = IF Spent(c) THEN NoCode ELSE c]
  BY <1>1, <1>2 DEF Wrong
<1>5. \A p \in pending' : p \in pending \/ (Current(account, policy, acked, p) /\ p.inc <= account.inc)
  BY <1>3, <1>4 DEF SessionsHold, Current
<1>6. \A i \in Lives : setup'[i].inc \in {0, setup[i].inc}
  BY <1>3, <1>4, StillFits DEF SignInShapes, ChallengesFit
<1>7. UNCHANGED <<account, policy, logins, cookies, tokens, acked>> /\ Done(h)
  BY DEF Wrong, rest
<1>8. Onward /\ acked' <= account'.key /\ policy'.inc <= account'.inc
  BY <1>7, SameOnward DEF SignInShapes, SessionsHold
<1>9. handlers'[h] = Still /\ (\A g \in Handlers \ {h} : handlers'[g] = handlers[g]) /\ SessionOf(account, policy, acked, Still)
  BY <1>7, HandlerStops, StillSession DEF SignInShapes
<1>10. QED
  BY <1>5, <1>6, <1>7, <1>8, <1>9, SessionsGo

LEMMA ReadCounterSessions ==
  ASSUME SignInShapes, SignInShapes', SessionsHold, NEW h \in Handlers, ReadCounter(h) PROVE SessionsHold'
<1>1. PICK q \in Handled : q = handlers[h] /\ SessionOf(account, policy, acked, q)
  BY HandlerFit DEF SignInShapes, SessionsHold
<1>2. PICK n : n = [q EXCEPT !.at = "count", !.last = counters[q.enrol]]
  OBVIOUS
<1>3. n.at = "count" /\ n.inc = q.inc /\ n.seen = q.seen /\ n.job = q.job
  BY <1>2 DEF Handled
<1>4. UNCHANGED <<stores, rest>> /\ (Hold(h, n) \/ Done(h))
  BY <1>1, <1>2 DEF ReadCounter
<1>5. SessionOf(account, policy, acked, n)
  BY <1>1, <1>3, SessionQuiet
<1>6. CASE Hold(h, n)
  BY <1>4, <1>5, <1>6, HandlerHolds, SessionsMove DEF SignInShapes, stores, rest
<1>7. QED
  BY <1>4, <1>6, SessionsEnd DEF stores, rest

LEMMA CountSessions ==
  ASSUME SignInShapes, SignInShapes', SessionsHold, NEW h \in Handlers, Count(h) PROVE SessionsHold'
<1>1. "store" \in Stages /\ "consume" \in Stages
  BY DEF Stages
<1>2. UNCHANGED <<account, policy, cookies, logins, pending, setup, tokens, acked>>
  BY DEF Count
<1>3. Goes(h, "store") \/ Goes(h, "consume") \/ Done(h)
  BY DEF Count, Counted
<1>4. QED
  BY <1>1, <1>2, <1>3, SessionsGoOn, SessionsEnd

LEMMA ConsumeSessions ==
  ASSUME SignInShapes, SignInShapes', SessionsHold, NEW h \in Handlers, Consume(h) PROVE SessionsHold'
<1>1. PICK q \in Handled : q = handlers[h]
  BY HandlerFit DEF SignInShapes
<1>2. UNCHANGED <<account, policy, logins, tokens, cookies, acked>> /\ pending' \subseteq pending
      /\ (UNCHANGED setup \/ setup' = [setup EXCEPT ![q.inc] = NoCode])
  BY <1>1 DEF Consume, rest
<1>3. \A i \in Lives : setup'[i].inc \in {0, setup[i].inc}
  BY <1>2, StillFits DEF SignInShapes, ChallengesFit
<1>4. Onward /\ acked' <= account'.key /\ policy'.inc <= account'.inc
  BY <1>2, SameOnward DEF SignInShapes, SessionsHold
<1>5. "recheck" \in Stages /\ "change" \in Stages
  BY DEF Stages
<1>6. Goes(h, "recheck") \/ Goes(h, "change") \/ Done(h)
  BY DEF Consume
<1>7. PICK n : handlers'[h] = n /\ (\A g \in Handlers \ {h} : handlers'[g] = handlers[g])
               /\ SessionOf(account, policy, acked, n)
  <2>1. CASE Done(h)
    BY <2>1, HandlerStops, StillSession DEF SignInShapes
  <2>2. ASSUME NEW at \in {"recheck", "change"}, Goes(h, at)
        PROVE  \E n : handlers'[h] = n /\ (\A g \in Handlers \ {h} : handlers'[g] = handlers[g])
                      /\ SessionOf(account, policy, acked, n)
    <3>1. PICK n \in Handled : /\ handlers'[h] = n /\ n.at = at /\ Alike(q, n)
                               /\ \A g \in Handlers \ {h} : handlers'[g] = handlers[g]
      BY <1>1, <1>5, <2>2, HandlerMoves DEF SignInShapes
    <3>2. SessionOf(account, policy, acked, q)
      BY <1>1 DEF SessionsHold
    <3>3. SessionOf(account, policy, acked, n)
      BY <3>1, <3>2, SessionQuiet DEF Alike
    <3>4. QED
      BY <3>1, <3>3
  <2>3. QED
    BY <1>6, <2>1, <2>2
<1>8. QED
  BY <1>2, <1>3, <1>4, <1>7, SessionsGo

LEMMA RecheckSessions ==
  ASSUME SignInShapes, SignInShapes', SessionsHold, NEW h \in Handlers, Recheck(h) PROVE SessionsHold'
<1>1. "mint" \in Stages /\ (Goes(h, "mint") \/ Done(h)) /\ UNCHANGED <<stores, rest>>
  BY DEF Stages, Recheck
<1>2. QED
  BY <1>1, SessionsGoOn, SessionsEnd DEF stores, rest

LEMMA MintSecondSessions ==
  ASSUME SignInShapes, SignInShapes', SessionsHold, NEW h \in Handlers, MintSecond(h) PROVE SessionsHold'
<1>1. PICK q \in Handled : q = handlers[h] /\ q.at = "mint" /\ StagesFit(q) /\ SessionOf(account, policy, acked, q)
  BY HandlerFit DEF SignInShapes, SessionsHold, MintSecond
<1>2. PICK c : c = q.seen
  OBVIOUS
<1>3. Current(account, policy, acked, c) /\ c.inc = q.inc
  BY <1>1, <1>2 DEF StagesFit, SessionOf
<1>4. PICK k : k = Cookie(c, c.method)
  OBVIOUS
<1>5. k.epoch = c.epoch /\ k.inc = c.inc /\ k.key = c.key /\ k.method = c.method
  BY <1>4 DEF Cookie
<1>6. cookies' = cookies \/ (cookies' = cookies \cup {k} /\ SettingsOf(policy, q.inc).method = c.method)
  BY <1>1, <1>2, <1>4 DEF MintSecond
<1>7. UNCHANGED <<account, policy, logins, pending, setup, tokens, acked>> /\ Done(h)
  BY DEF MintSecond, rest
<1>8. Onward /\ acked' <= account'.key /\ policy'.inc <= account'.inc
  BY <1>7, SameOnward DEF SignInShapes, SessionsHold
<1>9. handlers'[h] = Still /\ (\A g \in Handlers \ {h} : handlers'[g] = handlers[g]) /\ SessionOf(account, policy, acked, Still)
  BY <1>7, HandlerStops, StillSession DEF SignInShapes
<1>10. SettingsOf(policy, q.inc).method = c.method => SessionCurrent(account, policy, acked, k)
  BY <1>3, <1>5 DEF SessionCurrent, Current
<1>11. QED
  BY <1>6, <1>7, <1>8, <1>9, <1>10, SessionsGo

LEMMA TwoFaSetupSessions ==
  ASSUME SignInShapes, SignInShapes', SessionsHold, NEW h \in Handlers, TwoFaSetup(h) PROVE SessionsHold'
<1>1. PICK v \in Handled : v = Verified(Still) /\ v.inc = policy.inc
  BY VerifiedFits DEF SignInShapes
<1>2. PICK m \in Methods : Started(h, [v EXCEPT !.at = "subject", !.job = "setup", !.target = m])
  BY <1>1 DEF TwoFaSetup
<1>3. PICK q : q = [v EXCEPT !.at = "subject", !.job = "setup", !.target = m]
  OBVIOUS
<1>4. "subject" \in Stages /\ "setup" \in Errands
  BY DEF Stages, Errands
<1>5. q \in Handled
  BY <1>1, <1>2, <1>3, <1>4 DEF Handled
<1>6. q.at = "subject" /\ q.job = "setup" /\ q.inc = v.inc
  BY <1>1, <1>3 DEF Handled
<1>7. SessionOf(account, policy, acked, q)
  BY <1>1, <1>6 DEF SessionOf, SessionsHold
<1>8. QED
  BY <1>2, <1>3, <1>5, <1>7, SessionsStart DEF TwoFaSetup, stores

LEMMA TwoFaSetupVerifySessions ==
  ASSUME SignInShapes, SignInShapes', SessionsHold, NEW h \in Handlers, TwoFaSetupVerify(h) PROVE SessionsHold'
<1>1. PICK v \in Handled : v = Verified(Still) /\ v.inc = policy.inc
  BY VerifiedFits DEF SignInShapes
<1>2. PICK q : q = [v EXCEPT !.at = "subject", !.job = "confirm"]
  OBVIOUS
<1>3. "subject" \in Stages /\ "confirm" \in Errands
  BY DEF Stages, Errands
<1>4. q \in Handled
  BY <1>1, <1>2, <1>3 DEF Handled
<1>5. q.at = "subject" /\ q.job = "confirm" /\ q.inc = v.inc
  BY <1>1, <1>2 DEF Handled
<1>6. SessionOf(account, policy, acked, q)
  BY <1>1, <1>5 DEF SessionOf, SessionsHold
<1>7. Started(h, q) /\ UNCHANGED stores
  BY <1>1, <1>2 DEF TwoFaSetupVerify
<1>8. QED
  BY <1>4, <1>6, <1>7, SessionsStart DEF stores

LEMMA SetupAccountSessions ==
  ASSUME SignInShapes, SignInShapes', SessionsHold, NEW h \in Handlers, SetupAccount(h) PROVE SessionsHold'
<1>1. PICK q \in Handled : q = handlers[h] /\ SessionOf(account, policy, acked, q)
  BY HandlerFit DEF SignInShapes, SessionsHold
<1>2. UNCHANGED <<stores, rest>>
  BY DEF SetupAccount
<1>3. CASE Done(h)
  BY <1>2, <1>3, SessionsEnd DEF stores, rest
<1>4. ASSUME ~Done(h) PROVE SessionsHold'
  <2>1. PICK n \in Handled :
              /\ Hold(h, n) /\ n.job \in {"setup", "switch"} /\ n.inc = account.inc /\ n.seen = q.seen
              /\ n.at \in {"counter", "store"}
    BY <1>1, <1>4, SetupGoes
  <2>2. account.inc <= account.inc
    BY AccountNumbers DEF SignInShapes
  <2>3. SessionOf(account, policy, acked, n)
    BY <1>1, <2>1, <2>2, SessionQuiet
  <2>4. QED
    BY <1>2, <2>1, <2>3, HandlerHolds, SessionsMove DEF SignInShapes, stores, rest
<1>5. QED
  BY <1>3, <1>4

LEMMA StoreSetupSessions ==
  ASSUME SignInShapes, SignInShapes', SessionsHold, NEW h \in Handlers, StoreSetup(h) PROVE SessionsHold'
<1>1. PICK q \in Handled : q = handlers[h] /\ StagesFit(q) /\ q.at = "store" /\ q.inc <= account.inc
  BY HandlerFit DEF SignInShapes, StoreSetup, SessionsHold, SessionOf
<1>2. PICK c : c = SetupOf(q)
  OBVIOUS
<1>3. c.inc = q.inc
  BY <1>1, <1>2, SetupMade
<1>4. setup' = [setup EXCEPT ![q.inc] = c]
  BY <1>1, <1>2 DEF StoreSetup, SetupOf, ProofOf, EnrolOf
<1>5. \A i \in Lives : setup'[i].inc = setup[i].inc \/ setup'[i].inc <= account.inc
  BY <1>1, <1>3, <1>4 DEF SignInShapes, ChallengesFit
<1>6. UNCHANGED <<account, policy, logins, pending, tokens, cookies, acked>> /\ Done(h)
  BY DEF StoreSetup, rest
<1>7. Onward /\ acked' <= account'.key /\ policy'.inc <= account'.inc
  BY <1>6, SameOnward DEF SignInShapes, SessionsHold
<1>8. handlers'[h] = Still /\ (\A g \in Handlers \ {h} : handlers'[g] = handlers[g]) /\ SessionOf(account, policy, acked, Still)
  BY <1>6, HandlerStops, StillSession DEF SignInShapes
<1>9. QED
  BY <1>5, <1>6, <1>7, <1>8, SessionsGo

LEMMA ConfirmAccountSessions ==
  ASSUME SignInShapes, SignInShapes', SessionsHold, NEW h \in Handlers, ConfirmAccount(h) PROVE SessionsHold'
<1>1. PICK q \in Handled : q = handlers[h] /\ SessionOf(account, policy, acked, q) /\ q.job = "confirm"
  BY HandlerFit DEF SignInShapes, SessionsHold, ConfirmAccount
<1>2. PICK n : n = [q EXCEPT !.at = "open", !.inc = account.inc]
  OBVIOUS
<1>3. account.inc <= account.inc
  BY AccountNumbers DEF SignInShapes
<1>4. n.at = "open" /\ n.job = q.job /\ n.inc = account.inc /\ n.seen = q.seen
  BY <1>1, <1>2 DEF Handled
<1>5. SessionOf(account, policy, acked, n)
  BY <1>1, <1>3, <1>4, SessionQuiet
<1>6. UNCHANGED <<stores, rest>> /\ (Hold(h, n) \/ Done(h))
  BY <1>1, <1>2 DEF ConfirmAccount
<1>7. CASE Hold(h, n)
  BY <1>5, <1>6, <1>7, HandlerHolds, SessionsMove DEF SignInShapes, stores, rest
<1>8. QED
  BY <1>6, <1>7, SessionsEnd DEF stores, rest

LEMMA OpenSetupSessions ==
  ASSUME SignInShapes, SignInShapes', SessionsHold, NEW h \in Handlers, OpenSetup(h) PROVE SessionsHold'
<1>1. PICK q \in Handled : q = handlers[h] /\ q.at = "open" /\ q.job = "confirm" /\ q.inc \in Lives
  BY HandlerFit DEF SignInShapes, OpenSetup, StagesFit, Handled
<1>2. PICK c \in Codes : c = setup[q.inc] /\ CodeFit(c) /\ (c = NoCode \/ c.inc = q.inc) /\ c.inc <= account.inc
  BY <1>1 DEF SignInShapes, ChallengesFit, SetupFit, SessionsHold
<1>3. UNCHANGED <<stores, rest>> /\ (Done(h) \/ \E t \in {0} \cup Steps : c # NoCode /\ Hold(h, Checks(q, c, t)))
  BY <1>1, <1>2 DEF OpenSetup
<1>4. ASSUME NEW t \in {0} \cup Steps, c # NoCode, Hold(h, Checks(q, c, t)) PROVE SessionsHold'
  <2>1. PICK n : n = Checks(q, c, t)
    OBVIOUS
  <2>2. c.inc # 0
    BY <1>1, <1>2, <1>4, SignInBounds
  <2>3. n \in Handled /\ n.inc = c.inc /\ n.job = "confirm" /\ n.at \in {"wrong", "consume", "count", "counter"}
    BY <1>1, <1>2, <2>1, <2>2, ChecksFit
  <2>4. SessionOf(account, policy, acked, n)
    BY <1>2, <2>3 DEF SessionOf
  <2>5. QED
    BY <1>3, <1>4, <2>1, <2>4, HandlerHolds, SessionsMove DEF SignInShapes, stores, rest
<1>5. QED
  BY <1>3, <1>4, SessionsEnd DEF stores, rest

LEMMA SetFactorSessions ==
  ASSUME SignInShapes, SignInShapes', SessionsHold, NEW h \in Handlers, SetFactor(h) PROVE SessionsHold'
<1>1. PICK q \in Handled : q = handlers[h] /\ q.inc <= account.inc
  BY HandlerFit DEF SignInShapes, SessionsHold, SessionOf
<1>2. UNCHANGED <<account, logins, pending, setup, tokens, cookies, acked>> /\ Done(h)
  BY DEF SetFactor, rest
<1>3. policy' = policy \/ (policy'.epoch = policy.epoch + 1 /\ policy'.inc = q.inc)
  BY <1>1 DEF SetFactor, SignInShapes, AccountFit
<1>4. Onward /\ acked' <= account'.key /\ policy'.inc <= account'.inc
  BY <1>1, <1>2, <1>3, AccountNumbers DEF SignInShapes, SessionsHold, Onward
<1>5. AccountFit'
  BY DEF SignInShapes
<1>6. handlers'[h] = Still /\ (\A g \in Handlers \ {h} : handlers'[g] = handlers[g])
      /\ SessionOf(account', policy', acked', Still)
  BY <1>2, <1>5, HandlerStops, AccountNumbersNext, StillSession, StillFits DEF SignInShapes, SessionOf
<1>7. QED
  BY <1>2, <1>4, <1>6, SessionsGo

LEMMA ResetRequestSessions ==
  ASSUME SignInShapes, SignInShapes', SessionsHold, NEW h \in Handlers, ResetRequest(h) PROVE SessionsHold'
<1>1. PICK q : q = [Still EXCEPT !.at = "previous", !.job = "request", !.inc = account.inc]
  OBVIOUS
<1>2. account.inc \in Lives /\ account.inc <= account.inc
  BY AccountNumbers DEF SignInShapes
<1>3. q \in Handled /\ q.at = "previous" /\ q.job = "request" /\ q.inc = account.inc
  BY <1>1, <1>2, StillFits DEF Handled, Stages, Errands
<1>4. SessionOf(account, policy, acked, q)
  BY <1>2, <1>3 DEF SessionOf
<1>5. Started(h, q) /\ UNCHANGED stores
  BY <1>1 DEF ResetRequest
<1>6. QED
  BY <1>3, <1>4, <1>5, SessionsStart DEF stores

LEMMA TakePointerSessions ==
  ASSUME SignInShapes, SignInShapes', SessionsHold, NEW h \in Handlers, TakePointer(h) PROVE SessionsHold'
<1>1. PICK q \in Handled : q = handlers[h] /\ SessionOf(account, policy, acked, q)
  BY HandlerFit DEF SignInShapes, SessionsHold
<1>2. UNCHANGED <<account, policy, cookies, logins, pending, setup, tokens, acked>>
  BY DEF TakePointer, rest
<1>3. Goes(h, "token") \/ \E t \in pointer[q.inc] : Hold(h, [q EXCEPT !.at = "drop", !.token = t])
  BY <1>1 DEF TakePointer
<1>4. ASSUME NEW t, Hold(h, [q EXCEPT !.at = "drop", !.token = t]) PROVE SessionsHold'
  <2>1. PICK n : n = [q EXCEPT !.at = "drop", !.token = t]
    OBVIOUS
  <2>2. n.at = "drop" /\ n.inc = q.inc /\ n.seen = q.seen /\ n.job = q.job
    BY <1>1, <2>1 DEF Handled
  <2>3. SessionOf(account, policy, acked, n)
    BY <1>1, <2>2, SessionQuiet
  <2>4. QED
    BY <1>2, <1>4, <2>1, <2>3, HandlerHolds, SessionsMove DEF SignInShapes
<1>5. "token" \in Stages
  BY DEF Stages
<1>6. QED
  BY <1>2, <1>3, <1>4, <1>5, SessionsGoOn

LEMMA DropTokenSessions ==
  ASSUME SignInShapes, SignInShapes', SessionsHold, NEW h \in Handlers, DropToken(h) PROVE SessionsHold'
<1>1. "token" \in Stages /\ (Goes(h, "token") \/ Done(h)) /\ tokens' \subseteq tokens
      /\ UNCHANGED <<account, policy, cookies, logins, pending, setup, acked>>
  BY DEF Stages, DropToken, rest
<1>2. QED
  BY <1>1, SessionsGoOn, SessionsEnd

LEMMA CreateTokenSessions ==
  ASSUME SignInShapes, SignInShapes', SessionsHold, NEW h \in Handlers, CreateToken(h) PROVE SessionsHold'
<1>1. PICK q \in Handled : q = handlers[h] /\ SessionOf(account, policy, acked, q)
  BY HandlerFit DEF SignInShapes, SessionsHold
<1>2. PICK n : n = [q EXCEPT !.at = "point", !.token = q.id]
  OBVIOUS
<1>3. n.at = "point" /\ n.inc = q.inc /\ n.seen = q.seen /\ n.job = q.job
  BY <1>2 DEF Handled
<1>4. SessionOf(account, policy, acked, n) /\ q.inc <= account.inc
  BY <1>1, <1>3, SessionQuiet DEF SessionOf
<1>5. UNCHANGED <<account, policy, logins, pending, setup, cookies, acked>> /\ Hold(h, n)
      /\ tokens' = tokens \cup {[id |-> q.id, inc |-> q.inc]}
  BY <1>1, <1>2 DEF CreateToken, rest
<1>6. Onward /\ acked' <= account'.key /\ policy'.inc <= account'.inc
  BY <1>5, SameOnward DEF SignInShapes, SessionsHold
<1>7. handlers'[h] = n /\ \A g \in Handlers \ {h} : handlers'[g] = handlers[g]
  BY <1>5, HandlerHolds DEF SignInShapes
<1>8. QED
  BY <1>4, <1>5, <1>6, <1>7, SessionsGo

LEMMA PointTokenSessions ==
  ASSUME SignInShapes, SignInShapes', SessionsHold, NEW h \in Handlers, PointToken(h) PROVE SessionsHold'
<1>1. "rollback" \in Stages /\ (Goes(h, "rollback") \/ Done(h)) /\ UNCHANGED tokens
      /\ UNCHANGED <<account, policy, cookies, logins, pending, setup, acked>>
  BY DEF Stages, PointToken, rest
<1>2. QED
  BY <1>1, SessionsGoOn, SessionsEnd

LEMMA ResetFinishSessions ==
  ASSUME SignInShapes, SignInShapes', SessionsHold, NEW h \in Handlers, ResetFinish(h) PROVE SessionsHold'
<1>1. PICK t \in tokens : /\ tokens' = tokens \ {t}
                          /\ Started(h, [Still EXCEPT !.at = "row", !.job = "reset", !.inc = t.inc])
  BY DEF ResetFinish
<1>2. PICK q : q = [Still EXCEPT !.at = "row", !.job = "reset", !.inc = t.inc]
  OBVIOUS
<1>3. t.inc \in Lives /\ t.inc <= account.inc
  BY DEF SignInShapes, LinksFit, SessionsHold
<1>4. q \in Handled /\ q.at = "row" /\ q.job = "reset" /\ q.inc = t.inc
  BY <1>2, <1>3, StillFits DEF Handled, Stages, Errands
<1>5. SessionOf(account, policy, acked, q)
  BY <1>3, <1>4 DEF SessionOf
<1>6. QED
  BY <1>1, <1>2, <1>4, <1>5, SessionsStart DEF ResetFinish

LEMMA ResetRowSessions ==
  ASSUME SignInShapes, SignInShapes', SessionsHold, NEW h \in Handlers, ResetRow(h) PROVE SessionsHold'
<1>1. PICK q \in Handled : q = handlers[h] /\ q.at = "row" /\ StagesFit(q) /\ SessionOf(account, policy, acked, q)
  BY HandlerFit DEF SignInShapes, SessionsHold, ResetRow
<1>2. PICK n : n = [q EXCEPT !.at = "rekey", !.key = account.key]
  OBVIOUS
<1>3. n.at = "rekey" /\ n.job = "reset" /\ n.inc = q.inc /\ n.key = account.key
  BY <1>1, <1>2 DEF Handled, StagesFit
<1>4. account.key <= account.key
  BY AccountNumbers DEF SignInShapes
<1>5. SessionOf(account, policy, acked, n)
  BY <1>1, <1>3, <1>4 DEF SessionOf
<1>6. UNCHANGED <<stores, rest>> /\ (Hold(h, n) \/ Done(h))
  BY <1>1, <1>2 DEF ResetRow
<1>7. CASE Hold(h, n)
  BY <1>5, <1>6, <1>7, HandlerHolds, SessionsMove DEF SignInShapes, stores, rest
<1>8. QED
  BY <1>6, <1>7, SessionsEnd DEF stores, rest

LEMMA RekeySessions ==
  ASSUME SignInShapes, SignInShapes', SessionsHold, NEW h \in Handlers, Rekey(h) PROVE SessionsHold'
<1>1. PICK q \in Handled : q = handlers[h] /\ q.at = "rekey" /\ StagesFit(q) /\ SessionOf(account, policy, acked, q)
  BY HandlerFit DEF SignInShapes, SessionsHold, Rekey
<1>2. PICK n : n = [q EXCEPT !.at = "signOut", !.key = @ + 1]
  OBVIOUS
<1>3. n.at = "signOut" /\ n.job = "reset" /\ n.inc = q.inc /\ n.key = q.key + 1
  BY <1>1, <1>2 DEF Handled, StagesFit
<1>4. UNCHANGED <<policy, logins, pending, setup, cookies, tokens, acked>>
  BY DEF Rekey, rest
<1>5. CASE Done(h) /\ UNCHANGED account
  BY <1>4, <1>5, SessionsEnd
<1>6. CASE Hold(h, n) /\ account.key = q.key /\ account' = [account EXCEPT !.key = @ + 1]
  <2>1. account'.key = account.key + 1 /\ account'.inc = account.inc /\ account'.state = account.state
    BY <1>6 DEF SignInShapes, AccountFit
  <2>2. acked \in Nat /\ acked <= account.key /\ account.key \in Nat
    BY AccountNumbers DEF SignInShapes, SessionsFit, SessionsHold
  <2>3. Onward /\ acked' <= account'.key /\ policy'.inc <= account'.inc
    BY <1>4, <2>1, <2>2, AccountNumbers DEF SignInShapes, SessionsHold, Onward
  <2>4. SessionOf(account', policy', acked', n)
    BY <1>1, <1>3, <1>6, <2>1, AccountNumbers DEF SignInShapes, SessionOf
  <2>5. handlers'[h] = n /\ \A g \in Handlers \ {h} : handlers'[g] = handlers[g]
    BY <1>6, HandlerHolds DEF SignInShapes
  <2>6. QED
    BY <1>4, <2>3, <2>4, <2>5, SessionsGo
<1>7. QED
  BY <1>1, <1>2, <1>5, <1>6 DEF Rekey

LEMMA LogoutAllSessions ==
  ASSUME SignInShapes, SignInShapes', SessionsHold, NEW h \in Handlers, LogoutAll(h) PROVE SessionsHold'
<1>1. PICK q : q = [Still EXCEPT !.at = "signOut", !.job = "logout"]
  OBVIOUS
<1>2. q \in Handled /\ q.at = "signOut" /\ q.job = "logout" /\ q.inc = 0
  BY <1>1, StillFits, StillSession DEF Handled, Stages, Errands, SignInShapes
<1>3. SessionOf(account, policy, acked, q)
  BY <1>2, AccountNumbers DEF SessionOf, SignInShapes
<1>4. Started(h, q) /\ UNCHANGED stores
  BY <1>1 DEF LogoutAll
<1>5. QED
  BY <1>2, <1>3, <1>4, SessionsStart DEF stores

LEMMA SignOutSessions ==
  ASSUME SignInShapes, SignInShapes', SessionsHold, NEW h \in Handlers, SignOut(h) PROVE SessionsHold'
<1>1. PICK q \in Handled : q = handlers[h] /\ q.at = "signOut" /\ SessionOf(account, policy, acked, q)
  BY HandlerFit DEF SignInShapes, SessionsHold, SignOut
<1>2. UNCHANGED <<account, logins, pending, setup, tokens, cookies>> /\ Done(h)
  BY DEF SignOut
<1>3. policy'.epoch = policy.epoch + 1 /\ policy'.inc = policy.inc
  BY DEF SignOut, SignInShapes, AccountFit
<1>4. acked' = acked \/ (acked' = q.key /\ q.job = "reset" /\ account.inc = q.inc)
  BY <1>1 DEF SignOut
<1>5. acked' <= account'.key
  BY <1>1, <1>2, <1>4 DEF SessionsHold, SessionOf
<1>6. Onward /\ policy'.inc <= account'.inc
  BY <1>2, <1>3, AccountNumbers DEF SignInShapes, SessionsHold, Onward
<1>7. AccountFit'
  BY DEF SignInShapes
<1>8. handlers'[h] = Still /\ (\A g \in Handlers \ {h} : handlers'[g] = handlers[g])
      /\ SessionOf(account', policy', acked', Still)
  BY <1>2, <1>7, HandlerStops, AccountNumbersNext, StillSession, StillFits DEF SignInShapes, SessionOf
<1>9. QED
  BY <1>2, <1>5, <1>6, <1>8, SessionsGo

LEMMA FailSessions ==
  ASSUME SignInShapes, SignInShapes', SessionsHold, NEW h \in Handlers, Fail(h) PROVE SessionsHold'
BY SessionsEnd DEF Fail, stores

(* The requests stay as they are.                                          *)
LEMMA SessionsRest ==
  ASSUME SignInShapes, SignInShapes', SessionsHold, UNCHANGED <<handlers, logins, pending>>, Onward,
         acked' <= account'.key, policy'.inc <= account'.inc,
         \A i \in Lives : setup'[i].inc \in {0, setup[i].inc}, tokens' \subseteq tokens, cookies' \subseteq cookies
  PROVE  SessionsHold'
<1>1. PICK h : h \notin Handlers
  BY NoSetContainsEverything
<1>2. \A g \in Handlers \ {h} : handlers'[g] = handlers[g]
  OBVIOUS
<1>3. QED
  BY <1>1, <1>2, SessionsGo

LEMMA LogoutSessions == ASSUME SignInShapes, SignInShapes', SessionsHold, Logout PROVE SessionsHold'
<1>1. UNCHANGED <<account, policy, logins, pending, setup, tokens, handlers, acked>> /\ cookies' \subseteq cookies
  BY DEF Logout
<1>2. Onward /\ acked' <= account'.key /\ policy'.inc <= account'.inc
  BY <1>1, SameOnward DEF SignInShapes, SessionsHold
<1>3. QED
  BY <1>1, <1>2, SessionsRest

LEMMA DeleteAccountSessions == ASSUME SignInShapes, SignInShapes', SessionsHold, DeleteAccount PROVE SessionsHold'
<1>1. UNCHANGED <<logins, pending, cookies, handlers>>
  BY DEF DeleteAccount
<1>2. \A i \in Lives : setup'[i].inc \in {0, setup[i].inc}
  BY StillFits DEF DeleteAccount, SignInShapes, ChallengesFit
<1>3. tokens' \subseteq tokens
  BY DEF DeleteAccount
<1>4. Onward /\ acked' <= account'.key /\ policy'.inc <= account'.inc
  <2>1. /\ account.inc \in Nat /\ account.key \in Nat /\ policy.epoch \in Nat /\ acked \in Nat
        /\ acked <= account.key /\ policy.inc <= account.inc /\ policy.inc \in Nat
    BY AccountNumbers DEF SignInShapes, SessionsFit, SessionsHold
  <2>2. CASE account' = [account EXCEPT !.state = "deleting"] /\ UNCHANGED <<policy, acked>>
    <3>1. account'.inc = account.inc /\ account'.key = account.key /\ account'.state = "deleting"
      BY <2>2 DEF SignInShapes, AccountFit
    <3>2. QED
      BY <2>1, <2>2, <3>1 DEF Onward
  <2>3. CASE /\ account' = [account EXCEPT !.state = "none"] /\ UNCHANGED acked
             /\ policy' = [policy EXCEPT !.epoch = @ + 2, !.inc = 0, !.factor = 0, !.method = "none",
                                         !.enrol = 0, !.fence = @ + 1]
    <3>1. account'.inc = account.inc /\ account'.key = account.key /\ policy'.epoch = policy.epoch + 2 /\ policy'.inc = 0
      BY <2>3 DEF SignInShapes, AccountFit
    <3>2. QED
      BY <2>1, <2>3, <3>1 DEF Onward
  <2>4. CASE /\ account' = [inc |-> account.inc + 1, state |-> "live", key |-> 1]
             /\ policy' = [policy EXCEPT !.epoch = @ + 1] /\ acked' = 0
    <3>1. account'.inc = account.inc + 1 /\ account'.key = 1 /\ policy'.epoch = policy.epoch + 1 /\ policy'.inc = policy.inc
      BY <2>4 DEF SignInShapes, AccountFit
    <3>2. QED
      BY <2>1, <2>4, <3>1 DEF Onward
  <2>5. QED
    BY <2>2, <2>3, <2>4 DEF DeleteAccount
<1>5. QED
  BY <1>1, <1>2, <1>3, <1>4, SessionsRest

LEMMA SessionsStep == SignInShapes /\ SignInShapes' /\ SessionsHold /\ [SignInNext]_signInVars => SessionsHold'
<1> SUFFICES ASSUME SignInShapes, SignInShapes', SessionsHold, [SignInNext]_signInVars PROVE SessionsHold'
  OBVIOUS
<1>1. ASSUME NEW h \in Handlers, Signing(h) PROVE SessionsHold'
  BY <1>1, LoginStartSessions, CreateChallengeSessions, LoginFinishSessions, VerifyLoginSessions, FinishLoginSessions
     DEF Signing
<1>2. ASSUME NEW h \in Handlers, Coding(h) PROVE SessionsHold'
  BY <1>2, TwoFaVerifySessions, WrongSessions, ReadCounterSessions, CountSessions, ConsumeSessions,
     RecheckSessions, MintSecondSessions DEF Coding
<1>3. ASSUME NEW h \in Handlers, SettingUp(h) PROVE SessionsHold'
  BY <1>3, TwoFaSetupSessions, SetupAccountSessions, StoreSetupSessions, TwoFaSetupVerifySessions,
     ConfirmAccountSessions, OpenSetupSessions, SetFactorSessions DEF SettingUp
<1>4. ASSUME NEW h \in Handlers, Resetting(h) PROVE SessionsHold'
  BY <1>4, ResetRequestSessions, TakePointerSessions, DropTokenSessions, CreateTokenSessions, PointTokenSessions,
     ResetFinishSessions, ResetRowSessions, RekeySessions, LogoutAllSessions, SignOutSessions DEF Resetting
<1>5. CASE UNCHANGED signInVars
  BY <1>5 DEF signInVars, SessionsHold
<1>6. QED
  BY <1>1, <1>2, <1>3, <1>4, <1>5, FailSessions, LogoutSessions, DeleteAccountSessions DEF SignInNext

LEMMA SessionsBegin == SignInInit => SessionsHold
<1> SUFFICES ASSUME SignInInit PROVE SessionsHold
  OBVIOUS
<1>1. PICK m \in Methods :
       /\ policy = [epoch |-> 1, inc |-> 1, factor |-> 1, method |-> m, enrol |-> 0, fence |-> 0]
       /\ cookies = {[epoch |-> 1, inc |-> 1, key |-> 1, method |-> m]}
       /\ pending = IF m = "none" THEN {}
                    ELSE {[NoCode EXCEPT !.epoch = 1, !.inc = 1, !.key = 1, !.method = m, !.factor = 1]}
       /\ setup = [i \in Lives |->
            IF i = 1 /\ m = "none"
            THEN [NoCode EXCEPT !.epoch = 1, !.inc = 1, !.method = "totp", !.target = "totp", !.factor = 1]
            ELSE NoCode]
  BY DEF SignInInit
<1>2. /\ account = [inc |-> 1, state |-> "live", key |-> 1] /\ acked = 0 /\ logins = {}
      /\ tokens = {[id |-> 0, inc |-> 1]} /\ \A h \in Handlers : handlers[h] = Still
  BY DEF SignInInit
<1>3. PICK c : c = [NoCode EXCEPT !.epoch = 1, !.inc = 1, !.key = 1, !.method = m, !.factor = 1]
  OBVIOUS
<1>4. c.epoch = 1 /\ c.inc = 1 /\ c.key = 1
  BY <1>3, StillFits DEF Codes
<1>5. \A d \in pending : Current(account, policy, acked, d) /\ d.inc <= account.inc
  <2>1. policy.epoch = 1 /\ account.inc = 1 /\ acked = 0
    BY <1>1, <1>2
  <2>2. \A d \in pending : d = c
    BY <1>1, <1>3
  <2>3. Current(account, policy, acked, c) /\ c.inc <= account.inc
    BY <1>4, <2>1 DEF Current
  <2>4. QED
    BY <2>2, <2>3
<1>6. PICK d : d = [NoCode EXCEPT !.epoch = 1, !.inc = 1, !.method = "totp", !.target = "totp", !.factor = 1]
  OBVIOUS
<1>7. d.inc = 1
  BY <1>6, StillFits DEF Codes
<1>8. \A i \in Lives : setup[i].inc <= account.inc
  BY <1>1, <1>2, <1>6, <1>7, StillFits
<1>9. SessionOf(account, policy, acked, Still)
  BY StillSession, SignInShapesStart DEF SignInShapes
<1>10. \A s \in cookies : SessionCurrent(account, policy, acked, s)
  BY <1>1, <1>2 DEF SessionCurrent, Current, SettingsOf
<1>11. policy.inc = 1
  BY <1>1
<1>12. QED
  BY <1>2, <1>5, <1>8, <1>9, <1>10, <1>11 DEF SessionsHold

(* A session that verifySession accepts is of the account that is there,   *)
(* of no key that an acknowledged reset replaced and of the factor in      *)
(* force.                                                                  *)
THEOREM SignInSessions == SignInSpec => []SessionsCurrent
<1>1. SignInInit => SignInShapes /\ SessionsHold
  BY SignInShapesStart, SessionsBegin
<1>2. SignInShapes /\ SessionsHold /\ [SignInNext]_signInVars => SignInShapes' /\ SessionsHold'
  BY SignInShapesStep, SessionsStep
<1>3. SessionsHold => SessionsCurrent
  BY DEF SessionsHold, SessionCurrent, Current, SessionsCurrent, Valid
<1>4. QED
  BY <1>1, <1>2, <1>3, PTL DEF SignInSpec

-----------------------------------------------------------------------------
(* Reset links                                                             *)

InHand == {"drop", "point", "rollback"}

(* A request that holds no link does something else.                       *)
LEMMA LinksStay ==
  ASSUME LinksHeld, tokens' \subseteq tokens, UNCHANGED <<pointer, stray>>,
         NEW h, h \in Handlers => handlers[h].at \notin InHand, \A g \in Handlers \ {h} : handlers'[g] = handlers[g]
  PROVE  LinksHeld'
<1> SUFFICES ASSUME NEW t \in tokens', t.id \notin stray', t.id \notin pointer'[t.inc]
             PROVE  \E g \in Handlers : Handing(handlers'[g], t)
  BY DEF LinksHeld
<1>1. PICK g \in Handlers : Handing(handlers[g], t)
  BY DEF LinksHeld
<1>2. g # h
  BY <1>1 DEF Handing, InHand
<1>3. QED
  BY <1>1, <1>2

LEMMA LinksHold ==
  ASSUME HandlersFit, LinksHeld, tokens' \subseteq tokens, UNCHANGED <<pointer, stray>>,
         NEW h \in Handlers, handlers[h].at \notin InHand, NEW q, Hold(h, q)
  PROVE  LinksHeld'
BY HandlerHolds, LinksStay

LEMMA LinksStart ==
  ASSUME HandlersFit, LinksHeld, tokens' \subseteq tokens, UNCHANGED pointer, NEW h \in Handlers, NEW q, Started(h, q)
  PROVE  LinksHeld'
BY LinksHold DEF Started, InHand

LEMMA TakePointerLinks == ASSUME SignInShapes, LinksHeld, NEW h \in Handlers, TakePointer(h) PROVE LinksHeld'
<1>1. PICK q \in Handled : q = handlers[h] /\ q.at = "previous" /\ q.inc \in Lives
  BY HandlerFit DEF SignInShapes, TakePointer, StagesFit, Handled
<1>2. UNCHANGED <<tokens, stray>> /\ pointer' = [pointer EXCEPT ![q.inc] = {}] /\ pointer \in [Lives -> SUBSET Nat]
  BY <1>1 DEF TakePointer, rest, SignInShapes, LinksFit
<1>3. CASE pointer[q.inc] = {} /\ Goes(h, "token")
  <2>1. UNCHANGED pointer
    BY <1>1, <1>2, <1>3
  <2>2. QED
    BY <1>1, <1>2, <1>3, <2>1, LinksHold DEF SignInShapes, Goes, InHand
<1>4. ASSUME NEW m \in pointer[q.inc], Hold(h, [q EXCEPT !.at = "drop", !.token = m]) PROVE LinksHeld'
  <2>1. PICK n : n = [q EXCEPT !.at = "drop", !.token = m]
    OBVIOUS
  <2>2. n.at = "drop" /\ n.token = m /\ n.inc = q.inc
    BY <2>1 DEF Handled
  <2>3. handlers'[h] = n /\ \A g \in Handlers \ {h} : handlers'[g] = handlers[g]
    BY <1>4, <2>1, HandlerHolds DEF SignInShapes
  <2> SUFFICES ASSUME NEW t \in tokens', t.id \notin stray', t.id \notin pointer'[t.inc]
               PROVE  \E g \in Handlers : Handing(handlers'[g], t)
    BY DEF LinksHeld
  <2>4. t \in tokens /\ t.id \notin stray /\ t.inc \in Lives
    BY <1>2 DEF SignInShapes, LinksFit
  <2>5. CASE t.id \in pointer[t.inc]
    <3>1. t.inc = q.inc
      BY <1>1, <1>2, <2>4, <2>5
    <3>2. t.id = m
      BY <1>1, <1>4, <2>5, <3>1 DEF SignInShapes, LinksFit
    <3>3. Handing(n, t)
      BY <2>2, <3>1, <3>2 DEF Handing
    <3>4. QED
      BY <2>3, <3>3
  <2>6. CASE t.id \notin pointer[t.inc]
    <3>1. PICK g \in Handlers : Handing(handlers[g], t)
      BY <2>4, <2>6 DEF LinksHeld
    <3>2. g # h
      BY <1>1, <3>1 DEF Handing
    <3>3. QED
      BY <2>3, <3>1, <3>2
  <2>7. QED
    BY <2>5, <2>6
<1>5. QED
  BY <1>1, <1>3, <1>4 DEF TakePointer

LEMMA DropTokenLinks == ASSUME SignInShapes, LinksHeld, NEW h \in Handlers, DropToken(h) PROVE LinksHeld'
<1>1. UNCHANGED <<pointer, stray>> /\ tokens' = {t \in tokens : t.id # handlers[h].token}
  BY DEF DropToken, rest
<1>2. \A g \in Handlers \ {h} : handlers'[g] = handlers[g]
  BY HandlerHolds DEF DropToken, Goes, Done, SignInShapes
<1> SUFFICES ASSUME NEW t \in tokens', t.id \notin stray', t.id \notin pointer'[t.inc]
             PROVE  \E g \in Handlers : Handing(handlers'[g], t)
  BY DEF LinksHeld
<1>3. PICK g \in Handlers : Handing(handlers[g], t)
  BY <1>1 DEF LinksHeld
<1>4. g # h
  BY <1>1, <1>3 DEF Handing
<1>5. QED
  BY <1>2, <1>3, <1>4

LEMMA CreateTokenLinks == ASSUME SignInShapes, LinksHeld, NEW h \in Handlers, CreateToken(h) PROVE LinksHeld'
<1>1. PICK q \in Handled : q = handlers[h] /\ q.at = "token"
  BY HandlerFit DEF SignInShapes, CreateToken
<1>2. PICK n : n = [q EXCEPT !.at = "point", !.token = q.id]
  OBVIOUS
<1>3. n.at = "point" /\ n.token = q.id /\ n.inc = q.inc
  BY <1>2 DEF Handled
<1>4. UNCHANGED <<pointer, stray>> /\ Hold(h, n) /\ tokens' = tokens \cup {[id |-> q.id, inc |-> q.inc]}
  BY <1>1, <1>2 DEF CreateToken, rest
<1>5. handlers'[h] = n /\ \A g \in Handlers \ {h} : handlers'[g] = handlers[g]
  BY <1>4, HandlerHolds DEF SignInShapes
<1> SUFFICES ASSUME NEW t \in tokens', t.id \notin stray', t.id \notin pointer'[t.inc]
             PROVE  \E g \in Handlers : Handing(handlers'[g], t)
  BY DEF LinksHeld
<1>6. CASE t = [id |-> q.id, inc |-> q.inc]
  BY <1>3, <1>5, <1>6 DEF Handing
<1>7. CASE t \in tokens
  <2>1. PICK g \in Handlers : Handing(handlers[g], t)
    BY <1>4, <1>7 DEF LinksHeld
  <2>2. g # h
    BY <1>1, <2>1 DEF Handing
  <2>3. QED
    BY <1>5, <2>1, <2>2
<1>8. QED
  BY <1>4, <1>6, <1>7

LEMMA PointTokenLinks == ASSUME SignInShapes, LinksHeld, NEW h \in Handlers, PointToken(h) PROVE LinksHeld'
<1>1. PICK q \in Handled : q = handlers[h] /\ q.at = "point" /\ q.inc \in Lives
  BY HandlerFit DEF SignInShapes, PointToken, StagesFit, Handled
<1>2. UNCHANGED <<tokens, stray>> /\ pointer \in [Lives -> SUBSET Nat]
  BY DEF PointToken, rest, SignInShapes, LinksFit
<1> SUFFICES ASSUME NEW t \in tokens', t.id \notin stray', t.id \notin pointer'[t.inc]
             PROVE  \E g \in Handlers : Handing(handlers'[g], t)
  BY DEF LinksHeld
<1>3. t \in tokens /\ t.inc \in Lives
  BY <1>2 DEF SignInShapes, LinksFit
<1>4. t.id \notin pointer[t.inc]
  BY <1>1, <1>2, <1>3 DEF PointToken
<1>5. PICK g \in Handlers : Handing(handlers[g], t)
  BY <1>2, <1>3, <1>4 DEF LinksHeld
<1>6. CASE Goes(h, "rollback")
  <2>1. PICK n \in Handled : /\ handlers'[h] = n /\ n.at = "rollback" /\ Alike(q, n)
                             /\ \A f \in Handlers \ {h} : handlers'[f] = handlers[f]
    <3>1. "rollback" \in Stages
      BY DEF Stages
    <3>2. QED
      BY <1>1, <1>6, <3>1, HandlerMoves DEF SignInShapes
  <2>2. Handing(q, t) => Handing(n, t)
    BY <2>1 DEF Handing, Alike
  <2>3. QED
    BY <1>1, <1>5, <2>1, <2>2
<1>7. CASE pointer' = [pointer EXCEPT ![q.inc] = {q.token}] /\ Done(h)
  <2>1. g # h
    <3>1. ASSUME g = h PROVE FALSE
      <4>1. q.inc = t.inc /\ q.token = t.id
        BY <1>1, <1>5, <3>1 DEF Handing
      <4>2. QED
        BY <1>1, <1>2, <1>7, <4>1
    <3>2. QED
      BY <3>1
  <2>2. \A f \in Handlers \ {h} : handlers'[f] = handlers[f]
    BY <1>7, HandlerStops DEF SignInShapes
  <2>3. QED
    BY <1>5, <2>1, <2>2
<1>8. QED
  BY <1>1, <1>6, <1>7 DEF PointToken

LEMMA DeleteAccountLinks == ASSUME SignInShapes, LinksHeld, DeleteAccount PROVE LinksHeld'
<1>1. UNCHANGED <<handlers, stray>> /\ account.inc \in Lives /\ pointer \in [Lives -> SUBSET Nat]
  BY DEF DeleteAccount, SignInShapes, LinksFit, AccountFit
<1>2. CASE UNCHANGED <<tokens, pointer>>
  BY <1>1, <1>2 DEF LinksHeld
<1>3. CASE tokens' = {t \in tokens : t.id \notin pointer[account.inc]} /\ pointer' = [pointer EXCEPT ![account.inc] = {}]
  <2> SUFFICES ASSUME NEW t \in tokens', t.id \notin stray', t.id \notin pointer'[t.inc]
               PROVE  \E g \in Handlers : Handing(handlers'[g], t)
    BY DEF LinksHeld
  <2>1. t \in tokens /\ t.inc \in Lives /\ t.id \notin pointer[t.inc]
    BY <1>1, <1>3 DEF SignInShapes, LinksFit
  <2>2. QED
    BY <1>1, <2>1 DEF LinksHeld
<1>4. QED
  BY <1>2, <1>3 DEF DeleteAccount

LEMMA FailLinks == ASSUME SignInShapes, LinksHeld, NEW h \in Handlers, Fail(h) PROVE LinksHeld'
<1>1. UNCHANGED <<tokens, pointer>> /\ \A g \in Handlers \ {h} : handlers'[g] = handlers[g]
  BY HandlerStops DEF Fail, stores, SignInShapes
<1>2. stray \subseteq stray' /\ (handlers[h].at \in InHand => handlers[h].token \in stray')
  BY DEF Fail, InHand
<1> SUFFICES ASSUME NEW t \in tokens', t.id \notin stray', t.id \notin pointer'[t.inc]
             PROVE  \E g \in Handlers : Handing(handlers'[g], t)
  BY DEF LinksHeld
<1>3. PICK g \in Handlers : Handing(handlers[g], t)
  BY <1>1, <1>2 DEF LinksHeld
<1>4. g # h
  BY <1>2, <1>3 DEF Handing, InHand
<1>5. QED
  BY <1>1, <1>3, <1>4

LEMMA SigningLinks == ASSUME SignInShapes, LinksHeld, NEW h \in Handlers, Signing(h) PROVE LinksHeld'
<1>1. CASE LoginStart(h)
  BY <1>1, LinksStart DEF LoginStart, stores, SignInShapes
<1>2. CASE CreateChallenge(h)
  BY <1>2, LinksHold DEF CreateChallenge, Done, InHand, rest, SignInShapes
<1>3. CASE LoginFinish(h)
  BY <1>3, LinksStart DEF LoginFinish, SignInShapes
<1>4. CASE VerifyLogin(h)
  BY <1>4, LinksHold DEF VerifyLogin, Done, InHand, stores, rest, SignInShapes
<1>5. CASE FinishLogin(h)
  BY <1>5, LinksHold DEF FinishLogin, Done, InHand, rest, SignInShapes
<1>6. QED
  BY <1>1, <1>2, <1>3, <1>4, <1>5 DEF Signing

LEMMA CodingLinks == ASSUME SignInShapes, LinksHeld, NEW h \in Handlers, Coding(h) PROVE LinksHeld'
<1>1. CASE TwoFaVerify(h)
  BY <1>1, LinksStart DEF TwoFaVerify, stores, SignInShapes
<1>2. CASE Wrong(h)
  BY <1>2, LinksHold DEF Wrong, Done, InHand, rest, SignInShapes
<1>3. CASE ReadCounter(h)
  BY <1>3, LinksHold DEF ReadCounter, Done, InHand, stores, rest, SignInShapes
<1>4. CASE Count(h)
  BY <1>4, LinksHold DEF Count, Counted, Goes, Done, InHand, SignInShapes
<1>5. CASE Consume(h)
  BY <1>5, LinksHold DEF Consume, Goes, Done, InHand, rest, SignInShapes
<1>6. CASE Recheck(h)
  BY <1>6, LinksHold DEF Recheck, Goes, Done, InHand, stores, rest, SignInShapes
<1>7. CASE MintSecond(h)
  BY <1>7, LinksHold DEF MintSecond, Done, InHand, rest, SignInShapes
<1>8. QED
  BY <1>1, <1>2, <1>3, <1>4, <1>5, <1>6, <1>7 DEF Coding

LEMMA SettingUpLinks == ASSUME SignInShapes, LinksHeld, NEW h \in Handlers, SettingUp(h) PROVE LinksHeld'
<1>1. CASE TwoFaSetup(h)
  BY <1>1, LinksStart DEF TwoFaSetup, stores, SignInShapes
<1>2. CASE SetupAccount(h)
  BY <1>2, LinksHold DEF SetupAccount, Done, InHand, stores, rest, SignInShapes
<1>3. CASE StoreSetup(h)
  BY <1>3, LinksHold DEF StoreSetup, Done, InHand, rest, SignInShapes
<1>4. CASE TwoFaSetupVerify(h)
  BY <1>4, LinksStart DEF TwoFaSetupVerify, stores, SignInShapes
<1>5. CASE ConfirmAccount(h)
  BY <1>5, LinksHold DEF ConfirmAccount, Done, InHand, stores, rest, SignInShapes
<1>6. CASE OpenSetup(h)
  BY <1>6, LinksHold DEF OpenSetup, Done, InHand, stores, rest, SignInShapes
<1>7. CASE SetFactor(h)
  BY <1>7, LinksHold DEF SetFactor, Done, InHand, rest, SignInShapes
<1>8. QED
  BY <1>1, <1>2, <1>3, <1>4, <1>5, <1>6, <1>7 DEF SettingUp

LEMMA ResettingLinks == ASSUME SignInShapes, LinksHeld, NEW h \in Handlers, Resetting(h) PROVE LinksHeld'
<1>1. CASE ResetRequest(h)
  BY <1>1, LinksStart DEF ResetRequest, stores, SignInShapes
<1>2. CASE ResetFinish(h)
  BY <1>2, LinksStart DEF ResetFinish, SignInShapes
<1>3. CASE ResetRow(h)
  BY <1>3, LinksHold DEF ResetRow, Done, InHand, stores, rest, SignInShapes
<1>4. CASE Rekey(h)
  BY <1>4, LinksHold DEF Rekey, Done, InHand, rest, SignInShapes
<1>5. CASE LogoutAll(h)
  BY <1>5, LinksStart DEF LogoutAll, stores, SignInShapes
<1>6. CASE SignOut(h)
  BY <1>6, LinksHold DEF SignOut, Done, InHand, SignInShapes
<1>7. QED
  BY <1>1, <1>2, <1>3, <1>4, <1>5, <1>6, TakePointerLinks, DropTokenLinks, CreateTokenLinks, PointTokenLinks DEF Resetting

LEMMA LinksStep == SignInShapes /\ LinksHeld /\ [SignInNext]_signInVars => LinksHeld'
<1> SUFFICES ASSUME SignInShapes, LinksHeld, [SignInNext]_signInVars PROVE LinksHeld'
  OBVIOUS
<1>1. CASE Logout
  BY <1>1 DEF Logout, LinksHeld
<1>2. CASE UNCHANGED signInVars
  BY <1>2 DEF signInVars, LinksHeld
<1>3. QED
  BY <1>1, <1>2, SigningLinks, CodingLinks, SettingUpLinks, ResettingLinks, FailLinks, DeleteAccountLinks DEF SignInNext

LEMMA LinksBegin == SignInInit => LinksHeld
BY SignInBounds DEF SignInInit, LinksHeld

LEMMA LinksOne == SignInShapes /\ LinksHeld => OneLink
<1> SUFFICES ASSUME SignInShapes, LinksHeld, \A h \in Handlers : handlers[h].job # "request",
                    NEW t \in tokens, NEW u \in tokens, t.inc = u.inc, {t.id, u.id} \cap stray = {}
             PROVE  t = u
  BY DEF OneLink
<1>1. ASSUME NEW v \in tokens, v.id \notin stray PROVE v.id \in pointer[v.inc]
  <2>1. ASSUME NEW h \in Handlers PROVE ~Handing(handlers[h], v)
    BY HandlerFit DEF SignInShapes, StagesFit, Handing
  <2>2. QED
    BY <1>1, <2>1 DEF LinksHeld
<1>2. t.id = u.id
  BY <1>1 DEF SignInShapes, LinksFit
<1>3. QED
  BY <1>2 DEF SignInShapes, LinksFit

-----------------------------------------------------------------------------
(* Codes of an authenticator                                               *)

LEMMA StillCodes ==
  ASSUME NEW own, NEW n PROVE CodesOf(own, n, Still) /\ Owns(own, NoCode) /\ Still.last = 0
BY StillFits DEF CodesOf, Owns, Still, NoCode

(* A request goes on, and who owns which enrollment stays.                 *)
LEMMA CodesGo ==
  ASSUME SignInShapes, SignInShapes', NEW own, CodesHold(own), started' >= started,
         Owns(own, policy'), \A c \in pending' : c \in pending \/ Owns(own, c),
         \A i \in Lives : setup'[i] = setup[i] \/ Owns(own, setup'[i]),
         NEW h, \A g \in Handlers \ {h} : handlers'[g] = handlers[g],
         h \in Handlers => CodesOf(own, started', handlers'[h]),
         h \in Handlers => \/ handlers'[h].at = "still" \/ handlers'[h].id > started
                           \/ handlers[h].at # "still" /\ handlers'[h].id = handlers[h].id,
         CodesBehind(own)'
  PROVE  CodesHold(own)'
<1>1. own \in [Enrollments -> {0} \cup Lives]
  BY DEF CodesHold
<1>2. started \in Nat /\ started' \in Nat
  BY SignInBounds DEF SignInShapes, SessionsFit
<1>3. \A n \in Enrollments : n > started' => own[n] = 0
  BY <1>2, SignInBounds DEF CodesHold
<1>4. (\A c \in pending' : Owns(own, c)) /\ \A i \in Lives : Owns(own, setup'[i])
  BY DEF CodesHold
<1>5. ASSUME NEW g \in Handlers, g # h
      PROVE  CodesOf(own, started, handlers[g]) /\ CodesOf(own, started', handlers'[g]) /\ handlers'[g] = handlers[g]
  <2>1. PICK q \in Handled : q = handlers[g] /\ CodesOf(own, started, q) /\ q.id \in Nat
    BY SignInBounds, HandlerFit DEF SignInShapes, Handled, CodesHold
  <2>2. q.id \in 1..started => q.id \in 1..started'
    BY <1>2, <2>1
  <2>3. CodesOf(own, started', q)
    BY <2>1, <2>2 DEF CodesOf
  <2>4. QED
    BY <1>5, <2>1, <2>3
<1>6. \A g \in Handlers : CodesOf(own, started', handlers'[g])
  BY <1>5
<1>7. ASSUME NEW g \in Handlers, NEW f \in Handlers, f # g PROVE Apart(handlers'[f], handlers'[g])
  <2>1. ASSUME h \in Handlers, NEW e \in Handlers, e # h PROVE Apart(handlers'[e], handlers'[h])
    <3>1. PICK q \in Handled : q = handlers[e] /\ q.id \in Nat
      BY <2>1, SignInBounds, HandlerFit DEF SignInShapes, Handled
    <3>2. handlers'[e] = q /\ (q.at # "still" => q.id \in 1..started)
      BY <1>5, <2>1, <3>1 DEF CodesOf
    <3>3. q.at # "still" => ~(q.id > started)
      BY <1>2, <3>1, <3>2
    <3>4. Apart(q, handlers[h])
      BY <2>1, <3>1 DEF CodesHold
    <3>5. QED
      BY <2>1, <3>2, <3>3, <3>4 DEF Apart
  <2>2. CASE f # h /\ g # h
    BY <1>5, <1>7, <2>2 DEF CodesHold
  <2>3. Apart(handlers'[f], handlers'[g]) \/ Apart(handlers'[g], handlers'[f])
    BY <1>7, <2>1, <2>2
  <2>4. QED
    BY <2>3 DEF Apart
<1>8. QED
  BY <1>1, <1>3, <1>4, <1>6, <1>7 DEF CodesHold

LEMMA BehindStays ==
  ASSUME NEW own, CodesHold(own), UNCHANGED <<account, counters, accepted>> PROVE CodesBehind(own)'
BY DEF CodesHold, CodesBehind, CodeOnce

(* Steps that leave the policy and the challenges.                         *)
LEMMA CodesMove ==
  ASSUME SignInShapes, SignInShapes', NEW own, CodesHold(own), UNCHANGED <<policy, setup, started>>, pending' \subseteq pending,
         CodesBehind(own)', NEW h \in Handlers, NEW n, Hold(h, n), CodesOf(own, started, n),
         n.at = "still" \/ (handlers[h].at # "still" /\ n.id = handlers[h].id)
  PROVE  CodesHold(own)'
<1>1. handlers'[h] = n /\ \A g \in Handlers \ {h} : handlers'[g] = handlers[g]
  BY HandlerHolds DEF SignInShapes
<1>2. started' >= started /\ Owns(own, policy')
  BY SignInBounds DEF SignInShapes, SessionsFit, CodesHold
<1>3. CodesOf(own, started', n)
  OBVIOUS
<1>4. QED
  BY <1>1, <1>2, <1>3, CodesGo

LEMMA CodesEnd ==
  ASSUME SignInShapes, SignInShapes', NEW own, CodesHold(own), UNCHANGED <<policy, setup, started>>, pending' \subseteq pending,
         CodesBehind(own)', NEW h \in Handlers, Done(h)
  PROVE  CodesHold(own)'
BY CodesMove, StillCodes, StillFits DEF Done

LEMMA CodesEndWith ==
  ASSUME SignInShapes, SignInShapes', NEW own, CodesHold(own), UNCHANGED started, CodesBehind(own)', Owns(own, policy'),
         \A c \in pending' : c \in pending \/ Owns(own, c),
         \A i \in Lives : setup'[i] = setup[i] \/ Owns(own, setup'[i]),
         NEW h \in Handlers, Done(h)
  PROVE  CodesHold(own)'
<1>1. handlers'[h] = Still /\ \A g \in Handlers \ {h} : handlers'[g] = handlers[g]
  BY HandlerStops DEF SignInShapes
<1>2. started' >= started
  BY SignInBounds DEF SignInShapes, SessionsFit
<1>3. QED
  BY <1>1, <1>2, StillCodes, StillFits, CodesGo

LEMMA CodesStart ==
  ASSUME SignInShapes, SignInShapes', NEW own, CodesHold(own), UNCHANGED <<account, policy, pending, setup, counters>>,
         NEW h \in Handlers, NEW q \in Handled, Started(h, q),
         q.job \in {"verify", "confirm"} => Owns(own, q.seen),
         q.at = "subject" => Owns(own, q) /\ q.last = 0, q.at \notin {"open", "count"},
         q.at \in {"counter", "store"} => q.job \notin {"setup", "switch"}
  PROVE  CodesHold(own)'
<1>1. PICK n \in Handled : /\ handlers'[h] = n /\ n.at = q.at /\ n.id = started + 1 /\ Alike(q, n)
                           /\ \A g \in Handlers \ {h} : handlers'[g] = handlers[g]
  BY HandlerBegins DEF SignInShapes
<1>2. started \in Nat /\ started' = started + 1 /\ started + 1 \in Enrollments /\ UNCHANGED accepted
  BY SignInBounds DEF Started, SignInShapes, SessionsFit, Enrollments, Calls
<1>3. own[started + 1] = 0 /\ started + 1 \in 1..(started + 1) /\ started' >= started /\ started + 1 > started
  BY <1>2 DEF CodesHold
<1>4. n.seen = q.seen /\ n.job = q.job /\ n.last = q.last /\ (Owns(own, q) => Owns(own, n))
  BY <1>1 DEF Alike, Owns
<1>5. CodesOf(own, started', n)
  BY <1>1, <1>2, <1>3, <1>4 DEF CodesOf
<1>6. Owns(own, policy') /\ CodesBehind(own)'
  BY <1>2, BehindStays DEF CodesHold
<1>7. QED
  BY <1>1, <1>3, <1>5, <1>6, CodesGo

(* Requests that have to do with no code.                                  *)
LEMMA CodesPlain ==
  ASSUME SignInShapes, SignInShapes', NEW own, CodesHold(own), UNCHANGED <<policy, setup, started>>, pending' \subseteq pending,
         CodesBehind(own)', NEW h \in Handlers, handlers[h].at # "still", NEW n, Hold(h, n),
         n.id = handlers[h].id, n.job \notin {"verify", "confirm", "setup", "switch"}, n.at \notin {"subject", "open", "count"}
  PROVE  CodesHold(own)'
<1>1. CodesOf(own, started, handlers[h])
  BY DEF CodesHold
<1>2. CodesOf(own, started, n)
  BY <1>1 DEF CodesOf
<1>3. QED
  BY <1>2, CodesMove

LEMMA CodesGoOn ==
  ASSUME SignInShapes, SignInShapes', NEW own, CodesHold(own), UNCHANGED <<policy, started>>, pending' \subseteq pending,
         \A i \in Lives : setup'[i] = setup[i] \/ Owns(own, setup'[i]),
         CodesBehind(own)', NEW h \in Handlers, handlers[h].at # "still",
         NEW at \in Stages \ {"subject", "open", "counter", "count"}, Goes(h, at),
         at = "store" => handlers[h].at = "count"
  PROVE  CodesHold(own)'
<1>1. PICK n \in Handled : /\ handlers'[h] = n /\ n.at = at /\ n.id = handlers[h].id /\ Alike(handlers[h], n)
                           /\ \A g \in Handlers \ {h} : handlers'[g] = handlers[g]
  BY HandlerMoves DEF SignInShapes
<1>2. PICK q : q = handlers[h] /\ CodesOf(own, started, q)
  BY DEF CodesHold
<1>3. n.seen = q.seen /\ n.job = q.job /\ n.id = q.id /\ n.inc = q.inc /\ (Owns(own, q) => Owns(own, n))
  BY <1>1, <1>2 DEF Alike, Owns
<1>4. CodesOf(own, started', n)
  BY <1>1, <1>2, <1>3 DEF CodesOf
<1>5. Owns(own, policy') /\ started' >= started
  BY SignInBounds DEF CodesHold, SignInShapes, SessionsFit
<1>6. QED
  BY <1>1, <1>4, <1>5, CodesGo

LEMMA SigningCodes ==
  ASSUME SignInShapes, SignInShapes', NEW own, CodesHold(own), NEW h \in Handlers, Signing(h) PROVE CodesHold(own)'
<1>1. CASE LoginStart(h)
  <2>1. PICK q : q = [Still EXCEPT !.at = "challenge", !.inc = account.inc]
    OBVIOUS
  <2>2. account.inc \in Lives
    BY AccountNumbers DEF SignInShapes
  <2>3. q \in Handled /\ q.at = "challenge" /\ q.job = "none"
    BY <2>1, <2>2, StillFits DEF Handled, Stages
  <2>4. QED
    BY <1>1, <2>1, <2>3, CodesStart DEF LoginStart, stores
<1>2. CASE CreateChallenge(h)
  BY <1>2, CodesEnd, BehindStays DEF CreateChallenge, rest
<1>3. CASE LoginFinish(h)
  <2>1. PICK c \in logins : Started(h, [Still EXCEPT !.at = "signature", !.epoch = c.epoch, !.inc = c.inc])
    BY <1>3 DEF LoginFinish
  <2>2. PICK q : q = [Still EXCEPT !.at = "signature", !.epoch = c.epoch, !.inc = c.inc]
    OBVIOUS
  <2>3. c.epoch \in Nat /\ c.inc \in Lives /\ "signature" \in Stages
    BY <2>1 DEF SignInShapes, ChallengesFit, Stages
  <2>4. q \in Handled
    BY <2>2, <2>3, StillFits DEF Handled
  <2>5. q.at = "signature" /\ q.job = "none"
    BY <2>2, StillFits DEF Handled
  <2>6. QED
    BY <1>3, <2>1, <2>2, <2>4, <2>5, CodesStart DEF LoginFinish
<1>4. CASE VerifyLogin(h)
  <2>1. PICK q \in Handled : q = handlers[h] /\ q.at = "signature" /\ StagesFit(q)
    BY <1>4, HandlerFit DEF SignInShapes, VerifyLogin
  <2>2. PICK n : n = [q EXCEPT !.at = "settings", !.key = account.key]
    OBVIOUS
  <2>3. n.at = "settings" /\ n.id = q.id /\ n.job = "none"
    BY <2>1, <2>2 DEF Handled, StagesFit
  <2>4. UNCHANGED <<stores, rest>> /\ (Hold(h, n) \/ Done(h))
    BY <1>4, <2>1, <2>2 DEF VerifyLogin
  <2>5. CodesBehind(own)'
    BY <2>4, BehindStays DEF stores, rest
  <2>6. QED
    BY <2>1, <2>3, <2>4, <2>5, CodesPlain, CodesEnd DEF stores, rest
<1>5. CASE FinishLogin(h)
  <2>1. PICK q \in Handled : q = handlers[h] /\ q.at = "settings" /\ StagesFit(q)
    BY <1>5, HandlerFit DEF SignInShapes, FinishLogin
  <2>2. PICK s : s = SettingsOf(policy, q.inc)
    OBVIOUS
  <2>3. PICK c : c = [NoCode EXCEPT !.id = q.id, !.epoch = q.epoch, !.inc = q.inc, !.key = q.key,
                        !.method = s.method, !.factor = s.factor, !.enrol = s.enrol]
    OBVIOUS
  <2>4. c.inc = q.inc /\ c.method = s.method /\ c.enrol = s.enrol
    BY <2>3, StillFits DEF Codes
  <2>5. s.method = "totp" => policy.inc = q.inc /\ s = policy
    BY <2>2 DEF SettingsOf, SignInShapes, AccountFit
  <2>6. Owns(own, c)
    BY <2>4, <2>5 DEF Owns, CodesHold
  <2>7. \A d \in pending' : d \in pending \/ d = c
    BY <1>5, <2>1, <2>2, <2>3 DEF FinishLogin
  <2>8. UNCHANGED <<account, policy, setup, counters, started, accepted>> /\ Done(h)
    BY <1>5 DEF FinishLogin, rest
  <2>9. Owns(own, policy') /\ CodesBehind(own)'
    BY <2>8, BehindStays DEF CodesHold
  <2>10. QED
    BY <2>6, <2>7, <2>8, <2>9, CodesEndWith
<1>6. QED
  BY <1>1, <1>2, <1>3, <1>4, <1>5 DEF Signing

LEMMA TwoFaVerifyCodes ==
  ASSUME SignInShapes, SignInShapes', NEW own, CodesHold(own), NEW h \in Handlers, TwoFaVerify(h) PROVE CodesHold(own)'
<1>1. PICK c \in pending, t \in {0} \cup Steps :
        Started(h, Checks([Still EXCEPT !.job = "verify"], c, t)) /\ UNCHANGED stores
  BY DEF TwoFaVerify
<1>2. PICK s : s = [Still EXCEPT !.job = "verify"]
  OBVIOUS
<1>3. s \in Handled /\ s.job = "verify"
  BY <1>2, StillFits DEF Handled, Errands
<1>4. c \in Codes /\ CodeFit(c) /\ c.inc # 0 /\ c.target = "none" /\ Owns(own, c)
  BY DEF SignInShapes, ChallengesFit, PendingFit, CodeFit, CodesHold
<1>5. PICK n : n = Checks(s, c, t)
  OBVIOUS
<1>6. n \in Handled /\ n.seen = c /\ n.at \in {"wrong", "consume", "counter"} /\ n.job = "verify"
  BY <1>3, <1>4, <1>5, ChecksFit
<1>7. QED
  BY <1>1, <1>2, <1>4, <1>5, <1>6, CodesStart DEF stores

LEMMA WrongCodes ==
  ASSUME SignInShapes, SignInShapes', NEW own, CodesHold(own), NEW h \in Handlers, Wrong(h) PROVE CodesHold(own)'
<1>1. PICK q \in Handled : q = handlers[h] /\ q.seen \in Codes /\ q.at = "wrong" /\ StagesFit(q)
  BY HandlerFit DEF SignInShapes, Wrong
<1>2. PICK c : c = [q.seen EXCEPT !.attempts = @ + 1]
  OBVIOUS
<1>3. c.method = q.seen.method /\ c.enrol = q.seen.enrol /\ c.inc = q.seen.inc
  BY <1>1, <1>2 DEF Codes
<1>4. Owns(own, q.seen) /\ Owns(own, c)
  BY <1>1, <1>3 DEF CodesHold, CodesOf, StagesFit, Owns
<1>5. \/ UNCHANGED setup /\ pending' = IF q.seen \notin pending THEN pending
                         ELSE (pending \ {q.seen}) \cup IF Spent(c) THEN {} ELSE {c}
      \/ UNCHANGED pending /\ setup' = IF setup[q.inc] # q.seen THEN setup
                       ELSE [setup EXCEPT ![q.inc] = IF Spent(c) THEN NoCode ELSE c]
  BY <1>1, <1>2 DEF Wrong
<1>6. \A p \in pending' : p \in pending \/ Owns(own, p)
  BY <1>4, <1>5
<1>7. \A i \in Lives : setup'[i] = setup[i] \/ Owns(own, setup'[i])
  BY <1>4, <1>5, StillCodes DEF SignInShapes, ChallengesFit
<1>8. UNCHANGED <<account, policy, counters, started, accepted>> /\ Done(h)
  BY DEF Wrong, rest
<1>9. Owns(own, policy') /\ CodesBehind(own)'
  BY <1>8, BehindStays DEF CodesHold
<1>10. QED
  BY <1>6, <1>7, <1>8, <1>9, CodesEndWith

LEMMA ReadCounterCodes ==
  ASSUME SignInShapes, SignInShapes', NEW own, CodesHold(own), NEW h \in Handlers, ReadCounter(h) PROVE CodesHold(own)'
<1>1. PICK q \in Handled : q = handlers[h] /\ q.at = "counter" /\ CodesOf(own, started, q) /\ q.step \in Nat /\ q.enrol \in Enrollments
  BY HandlerFit DEF SignInShapes, ReadCounter, CodesHold, Handled
<1>2. PICK n : n = [q EXCEPT !.at = "count", !.last = counters[q.enrol]]
  OBVIOUS
<1>3. /\ n.at = "count" /\ n.id = q.id /\ n.job = q.job /\ n.seen = q.seen /\ n.inc = q.inc /\ n.method = q.method
      /\ n.enrol = q.enrol /\ n.step = q.step /\ n.last = counters[q.enrol]
  BY <1>2 DEF Handled
<1>4. UNCHANGED <<stores, rest>> /\ (Done(h) \/ (Hold(h, n) /\ ~(counters[q.enrol] >= q.step)))
  BY <1>1, <1>2 DEF ReadCounter
<1>5. CodesBehind(own)'
  BY <1>4, BehindStays DEF stores, rest
<1>6. CASE Done(h)
  BY <1>4, <1>5, <1>6, CodesEnd DEF stores, rest
<1>7. CASE Hold(h, n) /\ ~(counters[q.enrol] >= q.step)
  <2>1. counters[q.enrol] \in Nat
    BY <1>1 DEF SignInShapes, ChallengesFit
  <2>2. n.last < n.step
    BY <1>1, <1>3, <1>7, <2>1
  <2>3. CodesOf(own, started, n)
    BY <1>1, <1>3, <2>2 DEF CodesOf, Owns
  <2>4. QED
    BY <1>1, <1>3, <1>4, <1>5, <1>7, <2>3, CodesMove DEF stores, rest
<1>8. QED
  BY <1>4, <1>6, <1>7

LEMMA CountCodes ==
  ASSUME SignInShapes, SignInShapes', NEW own, CodesHold(own), NEW h \in Handlers, Count(h) PROVE CodesHold(own)'
<1>1. PICK q \in Handled : /\ q = handlers[h] /\ q.at = "count" /\ StagesFit(q) /\ CodesOf(own, started, q)
                           /\ q.step \in Nat /\ q.last \in Nat /\ q.enrol \in Enrollments /\ q.inc \in Nat
  BY HandlerFit, SignInBounds DEF SignInShapes, Count, CodesHold, Handled
<1>2. UNCHANGED <<account, policy, pending, setup, started>>
  BY DEF Count
<1>3. CASE Done(h) /\ UNCHANGED <<counters, accepted>>
  BY <1>2, <1>3, BehindStays, CodesEnd
<1>4. CASE counters[q.enrol] = q.last /\ Counted(h)
  <2>1. own[q.enrol] = q.inc /\ q.last < q.step /\ counters \in [Enrollments -> Nat] /\ q.inc # 0
    BY <1>1 DEF StagesFit, CodesOf, Owns, SignInShapes, ChallengesFit
  <2>2. PICK a : a = [enrol |-> q.enrol, step |-> q.step, id |-> q.id, live |-> IsLive(q.inc),
                          for |-> IF q.job = "verify" THEN "login"
                                  ELSE IF q.job = "confirm" /\ q.target = "totp" THEN "enrol" ELSE "proof"]
    OBVIOUS
  <2>3. counters' = [counters EXCEPT ![q.enrol] = q.step] /\ accepted' = accepted \cup {a}
    BY <1>1, <1>4, <2>2 DEF Counted
  <2>4. a.enrol = q.enrol /\ a.step = q.step /\ (a.live => q.inc = account.inc /\ account.state = "live")
    BY <2>2 DEF IsLive
  <2>5. ASSUME NEW c \in accepted PROVE Behind(own, account', counters', c)
    <3>1. c.live => /\ c.enrol \in Enrollments /\ c.step \in Nat /\ own[c.enrol] \in 1..account.inc
                    /\ own[c.enrol] = account.inc /\ account.state # "none" => counters[c.enrol] >= c.step
      BY DEF CodesHold, CodesBehind, Behind
    <3>2. ASSUME c.live, c.enrol = q.enrol, counters[c.enrol] >= c.step PROVE counters'[c.enrol] >= c.step
      <4>1. c.step \in Nat /\ q.last >= c.step /\ counters'[c.enrol] = q.step
        BY <1>1, <1>4, <2>1, <2>3, <3>1, <3>2
      <4>2. QED
        BY <1>1, <2>1, <4>1
    <3>3. c.live /\ c.enrol # q.enrol => counters'[c.enrol] = counters[c.enrol]
      BY <2>3, <2>1, <3>1
    <3>4. QED
      BY <1>2, <3>1, <3>2, <3>3 DEF Behind
  <2>6. Behind(own, account', counters', a)
    <3>1. counters'[q.enrol] = q.step /\ q.step >= q.step
      BY <1>1, <2>1, <2>3
    <3>2. a.live => own[a.enrol] \in 1..account.inc
      BY <1>1, <2>1, <2>4, AccountNumbers DEF SignInShapes
    <3>3. QED
      BY <1>1, <1>2, <2>4, <3>1, <3>2 DEF Behind
  <2>7. ASSUME NEW c \in accepted, c.live, a.live, c.enrol = a.enrol, c.step = a.step PROVE FALSE
    <3>1. counters[q.enrol] >= q.step
      BY <2>1, <2>4, <2>7 DEF CodesHold, CodesBehind, Behind
    <3>2. QED
      BY <1>1, <1>4, <2>1, <3>1
  <2>8. CodeOnce'
    <3> SUFFICES ASSUME NEW c \in accepted', NEW d \in accepted', c.live, d.live, c.enrol = d.enrol, c.step = d.step
                 PROVE  c = d
      BY DEF CodeOnce
    <3>1. CASE c \in accepted /\ d \in accepted
      BY <3>1 DEF CodesHold, CodesBehind, CodeOnce
    <3>2. QED
      BY <2>3, <2>7, <3>1
  <2>9. CodesBehind(own)'
    BY <2>3, <2>5, <2>6, <2>8 DEF CodesBehind
  <2>10. Goes(h, "store") \/ Goes(h, "consume")
    BY <1>4 DEF Counted
  <2>11. "store" \in Stages /\ "consume" \in Stages
    BY DEF Stages
  <2>12. QED
    BY <1>1, <1>2, <2>9, <2>10, <2>11, CodesGoOn
<1>5. QED
  BY <1>1, <1>3, <1>4 DEF Count

LEMMA CodingCodes ==
  ASSUME SignInShapes, SignInShapes', NEW own, CodesHold(own), NEW h \in Handlers, Coding(h) PROVE CodesHold(own)'
<1>1. CASE Consume(h)
  <2>1. PICK q \in Handled : q = handlers[h] /\ q.at # "still"
    BY <1>1, HandlerFit DEF SignInShapes, Consume
  <2>2. pending' \subseteq pending /\ (UNCHANGED setup \/ setup' = [setup EXCEPT ![q.inc] = NoCode])
    BY <1>1, <2>1 DEF Consume
  <2>3. \A i \in Lives : setup'[i] = setup[i] \/ Owns(own, setup'[i])
    BY <2>2, StillCodes DEF SignInShapes, ChallengesFit
  <2>4. UNCHANGED <<account, policy, counters, started, accepted>>
    BY <1>1 DEF Consume, rest
  <2>5. Owns(own, policy') /\ CodesBehind(own)'
    BY <2>4, BehindStays DEF CodesHold
  <2>6. Goes(h, "recheck") \/ Goes(h, "change") \/ Done(h)
    BY <1>1 DEF Consume
  <2>7. "recheck" \in Stages /\ "change" \in Stages
    BY DEF Stages
  <2>8. CASE Done(h)
    BY <2>2, <2>3, <2>4, <2>5, <2>8, CodesEndWith
  <2>9. QED
    BY <2>1, <2>2, <2>3, <2>4, <2>5, <2>6, <2>7, <2>8, CodesGoOn
<1>2. CASE Recheck(h)
  <2>1. "mint" \in Stages /\ (Goes(h, "mint") \/ Done(h)) /\ UNCHANGED <<stores, rest>> /\ handlers[h].at # "still"
    BY <1>2 DEF Stages, Recheck
  <2>2. CodesBehind(own)'
    BY <2>1, BehindStays DEF stores, rest
  <2>3. QED
    BY <2>1, <2>2, CodesGoOn, CodesEnd DEF stores, rest
<1>3. CASE MintSecond(h)
  BY <1>3, CodesEnd, BehindStays DEF MintSecond, rest
<1>4. QED
  BY <1>1, <1>2, <1>3, TwoFaVerifyCodes, WrongCodes, ReadCounterCodes, CountCodes DEF Coding

(* The settings a session was verified with.                               *)
LEMMA TwoFaSetupCodes ==
  ASSUME SignInShapes, SignInShapes', NEW own, CodesHold(own), NEW h \in Handlers, TwoFaSetup(h) \/ TwoFaSetupVerify(h)
  PROVE  CodesHold(own)'
<1>1. PICK v \in Handled : /\ v = Verified(Still) /\ v.inc = policy.inc /\ v.method = policy.method
                           /\ v.enrol = policy.enrol /\ v.seen = NoCode
  BY VerifiedFits DEF SignInShapes
<1>2. v.last = 0
  BY <1>1 DEF Verified, Still
<1>3. PICK q : Started(h, q) /\ (\/ \E m \in Methods : q = [v EXCEPT !.at = "subject", !.job = "setup", !.target = m]
                                 \/ q = [v EXCEPT !.at = "subject", !.job = "confirm"])
  BY <1>1 DEF TwoFaSetup, TwoFaSetupVerify
<1>4. q \in Handled /\ q.at = "subject"
  <2>1. "subject" \in Stages /\ "setup" \in Errands /\ "confirm" \in Errands
    BY DEF Stages, Errands
  <2>2. CASE q = [v EXCEPT !.at = "subject", !.job = "confirm"]
    BY <1>1, <2>1, <2>2 DEF Handled
  <2>3. ASSUME NEW m \in Methods, q = [v EXCEPT !.at = "subject", !.job = "setup", !.target = m]
        PROVE  q \in Handled /\ q.at = "subject"
    BY <1>1, <2>1, <2>3 DEF Handled
  <2>4. QED
    BY <1>3, <2>2, <2>3
<1>5. q.inc = v.inc /\ q.method = v.method /\ q.enrol = v.enrol /\ q.seen = v.seen /\ q.last = v.last
  BY <1>1, <1>3 DEF Handled
<1>6. Owns(own, q) /\ Owns(own, q.seen) /\ q.last = 0
  BY <1>1, <1>2, <1>5, StillCodes DEF CodesHold, Owns
<1>7. UNCHANGED stores
  BY DEF TwoFaSetup, TwoFaSetupVerify
<1>8. QED
  BY <1>3, <1>4, <1>6, <1>7, CodesStart DEF stores

(* The enrollment that a setup makes is of the account it is made for.     *)
LEMMA SetupAccountCodes ==
  ASSUME SignInShapes, SignInShapes', NEW own, CodesHold(own), NEW h \in Handlers, SetupAccount(h)
  PROVE  \E o : CodesHold(o)'
<1>1. PICK q \in Handled : q = handlers[h] /\ q.at = "subject" /\ q.job = "setup" /\ CodesOf(own, started, q)
  BY HandlerFit DEF SignInShapes, SetupAccount, CodesHold
<1>2. UNCHANGED <<stores, rest>>
  BY DEF SetupAccount
<1>3. CASE Done(h)
  <2>1. CodesHold(own)'
    BY <1>2, <1>3, BehindStays, CodesEnd DEF stores, rest
  <2>2. QED
    BY <2>1
<1>4. ASSUME ~Done(h) PROVE \E o : CodesHold(o)'
  <2>1. PICK s : s = SettingsOf(q, account.inc)
    OBVIOUS
  <2>2. PICK n \in Handled :
              /\ Hold(h, n) /\ n.job \in {"setup", "switch"} /\ n.inc = account.inc /\ n.id = q.id
              /\ n.method = s.method /\ n.enrol = s.enrol /\ n.at \in {"counter", "store"}
    BY <1>1, <1>4, <2>1, SetupGoes
  <2>3. q.id \in 1..started /\ q.id \in Enrollments /\ own[q.id] = 0 /\ Owns(own, q)
    BY <1>1 DEF CodesOf, Handled
  <2>4. PICK o : o = [own EXCEPT ![q.id] = account.inc]
    OBVIOUS
  <2>5. own \in [Enrollments -> {0} \cup Lives] /\ account.inc \in Lives /\ account.inc # 0 /\ started \in Nat
    BY SignInBounds DEF CodesHold, SignInShapes, AccountFit, SessionsFit
  <2>6. o \in [Enrollments -> {0} \cup Lives] /\ \A e \in Enrollments : e > started => o[e] = 0
    <3>1. \A e \in Enrollments : e > started => e # q.id
      BY <2>3, <2>5, SignInBounds
    <3>2. QED
      BY <2>3, <2>4, <2>5, <3>1 DEF CodesHold
  <2>7. o[q.id] = account.inc
    BY <2>3, <2>4, <2>5
  <2>8. \A e \in Enrollments : e # q.id => o[e] = own[e]
    BY <2>4, <2>5
  <2>9. ASSUME NEW c, c.enrol \in Enrollments, Owns(own, c) PROVE Owns(o, c)
    BY <2>3, <2>8, <2>9 DEF Owns
  <2>10. Owns(o, policy) /\ (\A c \in pending : Owns(o, c)) /\ \A i \in Lives : Owns(o, setup[i])
    <3>1. policy.enrol \in Enrollments /\ \A c \in pending : c.enrol \in Enrollments
      BY DEF SignInShapes, AccountFit, ChallengesFit, PendingFit, Codes
    <3>2. \A i \in Lives : setup[i].enrol \in Enrollments
      BY DEF SignInShapes, ChallengesFit, Codes
    <3>3. QED
      BY <2>9, <3>1, <3>2 DEF CodesHold
  <2>11. handlers'[h] = n /\ \A g \in Handlers \ {h} : handlers'[g] = handlers[g]
    BY <2>2, HandlerHolds DEF SignInShapes
  <2>12. CodesOf(o, started, n)
    <3>1. Owns(o, n)
      <4>1. s.method = "totp" => q.method = "totp" /\ q.inc = account.inc /\ s.enrol = q.enrol
        BY <1>1, <2>1 DEF SettingsOf, Handled
      <4>2. q.enrol \in Enrollments
        BY <1>1 DEF Handled
      <4>3. Owns(o, q)
        BY <2>3, <2>9, <4>2
      <4>4. QED
        BY <2>2, <4>1, <4>3 DEF Owns
    <3>2. QED
      BY <2>2, <2>3, <2>7, <3>1 DEF CodesOf
  <2>13. ASSUME NEW g \in Handlers, g # h PROVE CodesOf(o, started, handlers[g])
    <3>1. PICK r \in Handled : r = handlers[g] /\ CodesOf(own, started, r) /\ r.seen \in Codes
      BY HandlerFit DEF SignInShapes, CodesHold
    <3>2. r.id \in Enrollments /\ r.enrol \in Enrollments /\ r.seen.enrol \in Enrollments
      BY <3>1 DEF Handled, Codes
    <3>3. r.at # "still" => r.id # q.id
      BY <1>1, <2>13, <3>1 DEF CodesHold, Apart
    <3>4. (Owns(own, r) => Owns(o, r)) /\ (Owns(own, r.seen) => Owns(o, r.seen))
      BY <2>9, <3>2
    <3>5. r.at # "still" => o[r.id] = own[r.id]
      BY <2>8, <3>2, <3>3
    <3>6. QED
      BY <3>1, <3>4, <3>5 DEF CodesOf
  <2>14. \A g \in Handlers : CodesOf(o, started, handlers'[g])
    BY <2>11, <2>12, <2>13
  <2>15. \A g, f \in Handlers : g # f => Apart(handlers'[g], handlers'[f])
    BY <1>1, <2>2, <2>11 DEF CodesHold, Apart
  <2>16. ASSUME NEW c \in accepted PROVE Behind(o, account, counters, c)
    <3>1. Behind(own, account, counters, c)
      BY DEF CodesHold, CodesBehind
    <3>2. c.live => c.enrol # q.id
      BY <2>3, <3>1 DEF Behind
    <3>3. QED
      BY <2>8, <3>1, <3>2 DEF Behind
  <2>17. CodeOnce'
    BY <1>2 DEF CodesHold, CodesBehind, CodeOnce, rest
  <2>18. CodesHold(o)'
    BY <1>2, <2>6, <2>10, <2>14, <2>15, <2>16, <2>17 DEF CodesHold, CodesBehind, stores, rest
  <2>19. QED
    BY <2>18
<1>5. QED
  BY <1>3, <1>4

LEMMA StoreSetupCodes ==
  ASSUME SignInShapes, SignInShapes', NEW own, CodesHold(own), NEW h \in Handlers, StoreSetup(h) PROVE CodesHold(own)'
<1>1. PICK q \in Handled : q = handlers[h] /\ StagesFit(q) /\ q.at = "store" /\ CodesOf(own, started, q)
  BY HandlerFit DEF SignInShapes, StoreSetup, CodesHold
<1>2. PICK c : c = SetupOf(q)
  OBVIOUS
<1>3. c.inc = q.inc /\ q.inc \in Lives /\ c.inc # 0 /\ c.method = ProofOf(q) /\ c.enrol = EnrolOf(q)
  BY <1>1, <1>2, SetupMade
<1>4. setup' = [setup EXCEPT ![q.inc] = c]
  BY <1>1, <1>2 DEF StoreSetup, SetupOf, ProofOf, EnrolOf
<1>5. own[q.id] = q.inc /\ Owns(own, q)
  BY <1>1 DEF StagesFit, CodesOf
<1>6. Owns(own, c)
  BY <1>3, <1>5 DEF Owns, ProofOf, EnrolOf
<1>7. \A i \in Lives : setup'[i] = setup[i] \/ Owns(own, setup'[i])
  BY <1>3, <1>4, <1>6 DEF SignInShapes, ChallengesFit
<1>8. UNCHANGED <<account, policy, pending, counters, started, accepted>> /\ Done(h)
  BY DEF StoreSetup, rest
<1>9. Owns(own, policy') /\ CodesBehind(own)'
  BY <1>8, BehindStays DEF CodesHold
<1>10. QED
  BY <1>7, <1>8, <1>9, CodesEndWith

LEMMA ConfirmAccountCodes ==
  ASSUME SignInShapes, SignInShapes', NEW own, CodesHold(own), NEW h \in Handlers, ConfirmAccount(h) PROVE CodesHold(own)'
<1>1. PICK q \in Handled : q = handlers[h] /\ q.at = "subject" /\ q.job = "confirm" /\ CodesOf(own, started, q)
  BY HandlerFit DEF SignInShapes, ConfirmAccount, CodesHold
<1>2. PICK n : n = [q EXCEPT !.at = "open", !.inc = account.inc]
  OBVIOUS
<1>3. n.at = "open" /\ n.job = q.job /\ n.id = q.id /\ n.seen = q.seen /\ n.last = q.last
  BY <1>2 DEF Handled
<1>4. CodesOf(own, started, n)
  BY <1>1, <1>3 DEF CodesOf
<1>5. UNCHANGED <<stores, rest>> /\ (Hold(h, n) \/ Done(h))
  BY <1>1, <1>2 DEF ConfirmAccount
<1>6. CodesBehind(own)'
  BY <1>5, BehindStays DEF stores, rest
<1>7. QED
  BY <1>1, <1>3, <1>4, <1>5, <1>6, CodesMove, CodesEnd DEF stores, rest

LEMMA OpenSetupCodes ==
  ASSUME SignInShapes, SignInShapes', NEW own, CodesHold(own), NEW h \in Handlers, OpenSetup(h) PROVE CodesHold(own)'
<1>1. PICK q \in Handled : q = handlers[h] /\ q.at = "open" /\ q.job = "confirm" /\ q.inc \in Lives /\ CodesOf(own, started, q)
  BY HandlerFit DEF SignInShapes, OpenSetup, StagesFit, Handled, CodesHold
<1>2. PICK c \in Codes : c = setup[q.inc] /\ CodeFit(c) /\ (c = NoCode \/ c.inc = q.inc) /\ Owns(own, c)
  BY <1>1 DEF SignInShapes, ChallengesFit, SetupFit, CodesHold
<1>3. UNCHANGED <<stores, rest>> /\ (Done(h) \/ \E t \in {0} \cup Steps : c # NoCode /\ Hold(h, Checks(q, c, t)))
  BY <1>1, <1>2 DEF OpenSetup
<1>4. CodesBehind(own)'
  BY <1>3, BehindStays DEF stores, rest
<1>5. ASSUME NEW t \in {0} \cup Steps, c # NoCode, Hold(h, Checks(q, c, t)) PROVE CodesHold(own)'
  <2>1. PICK n : n = Checks(q, c, t)
    OBVIOUS
  <2>2. c.inc # 0
    BY <1>1, <1>2, <1>5, SignInBounds
  <2>3. /\ n \in Handled /\ n.seen = c /\ n.job = "confirm" /\ n.at \in {"wrong", "consume", "count", "counter"}
        /\ n.id = q.id /\ n.last = q.last /\ (n.at \in {"count", "counter"} => n.step = t /\ t # 0)
    BY <1>1, <1>2, <2>1, <2>2, ChecksFit
  <2>4. n.at = "count" => n.last < n.step
    BY <1>1, <2>3, SignInBounds DEF CodesOf
  <2>5. CodesOf(own, started, n)
    BY <1>1, <1>2, <2>3, <2>4 DEF CodesOf
  <2>6. QED
    BY <1>1, <1>3, <1>4, <1>5, <2>1, <2>3, <2>5, CodesMove DEF stores, rest
<1>6. QED
  BY <1>3, <1>4, <1>5, CodesEnd DEF stores, rest

LEMMA SetFactorCodes ==
  ASSUME SignInShapes, SignInShapes', NEW own, CodesHold(own), NEW h \in Handlers, SetFactor(h) PROVE CodesHold(own)'
<1>1. PICK q \in Handled : /\ q = handlers[h] /\ q.at = "change" /\ StagesFit(q) /\ CodeFit(q.seen)
                           /\ CodesOf(own, started, q)
  BY HandlerFit DEF SignInShapes, SetFactor, CodesHold
<1>2. /\ q.inc = q.seen.inc /\ q.inc # 0 /\ q.enrol = q.seen.enrol /\ q.target = q.seen.target
      /\ Owns(own, q.seen)
  BY <1>1 DEF StagesFit, CodesOf
<1>3. \/ policy' = policy
      \/ policy'.inc = q.inc /\ policy'.method = q.target /\ (q.target = "totp" => policy'.enrol = q.enrol)
  BY <1>1 DEF SetFactor, SignInShapes, AccountFit
<1>4. Owns(own, policy')
  BY <1>1, <1>2, <1>3 DEF Owns, CodeFit, CodesHold
<1>5. UNCHANGED <<account, pending, setup, counters, started, accepted>> /\ Done(h)
  BY DEF SetFactor, rest
<1>6. CodesBehind(own)'
  BY <1>5, BehindStays
<1>7. QED
  BY <1>4, <1>5, <1>6, CodesEndWith

LEMMA ResettingCodes ==
  ASSUME SignInShapes, SignInShapes', NEW own, CodesHold(own), NEW h \in Handlers, Resetting(h) PROVE CodesHold(own)'
<1>1. PICK q \in Handled : q = handlers[h] /\ StagesFit(q)
  BY HandlerFit DEF SignInShapes
<1>2. CASE ResetRequest(h)
  <2>1. PICK r : r = [Still EXCEPT !.at = "previous", !.job = "request", !.inc = account.inc]
    OBVIOUS
  <2>2. account.inc \in Lives
    BY AccountNumbers DEF SignInShapes
  <2>3. r \in Handled /\ r.at = "previous" /\ r.job = "request"
    BY <2>1, <2>2, StillFits DEF Handled, Stages, Errands
  <2>4. QED
    BY <1>2, <2>1, <2>3, CodesStart DEF ResetRequest, stores
<1>3. CASE TakePointer(h)
  <2>1. UNCHANGED <<account, policy, pending, setup, counters, started, accepted>> /\ q.at = "previous"
    BY <1>1, <1>3 DEF TakePointer, rest
  <2>2. CodesBehind(own)'
    BY <2>1, BehindStays
  <2>3. Goes(h, "token") \/ \E t \in pointer[q.inc] : Hold(h, [q EXCEPT !.at = "drop", !.token = t])
    BY <1>1, <1>3 DEF TakePointer
  <2>4. ASSUME NEW t, Hold(h, [q EXCEPT !.at = "drop", !.token = t]) PROVE CodesHold(own)'
    <3>1. PICK n : n = [q EXCEPT !.at = "drop", !.token = t]
      OBVIOUS
    <3>2. n.at = "drop" /\ n.id = q.id /\ n.job = "request"
      BY <1>1, <2>1, <3>1 DEF Handled, StagesFit
    <3>3. QED
      BY <1>1, <2>1, <2>2, <2>4, <3>1, <3>2, CodesPlain
  <2>5. "token" \in Stages
    BY DEF Stages
  <2>6. QED
    BY <1>1, <2>1, <2>2, <2>3, <2>4, <2>5, CodesGoOn
<1>4. CASE DropToken(h)
  <2>1. /\ UNCHANGED <<account, policy, pending, setup, counters, started, accepted>> /\ q.at # "still"
        /\ (Goes(h, "token") \/ Done(h)) /\ "token" \in Stages
    BY <1>1, <1>4 DEF DropToken, rest, Stages
  <2>2. CodesBehind(own)'
    BY <2>1, BehindStays
  <2>3. QED
    BY <1>1, <2>1, <2>2, CodesGoOn, CodesEnd
<1>5. CASE CreateToken(h)
  <2>1. PICK n : n = [q EXCEPT !.at = "point", !.token = q.id]
    OBVIOUS
  <2>2. UNCHANGED <<account, policy, pending, setup, counters, started, accepted>> /\ q.at = "token" /\ Hold(h, n)
    BY <1>1, <1>5, <2>1 DEF CreateToken, rest
  <2>3. n.at = "point" /\ n.id = q.id /\ n.job = "request"
    BY <1>1, <2>1, <2>2 DEF Handled, StagesFit
  <2>4. CodesBehind(own)'
    BY <2>2, BehindStays
  <2>5. QED
    BY <1>1, <2>2, <2>3, <2>4, CodesPlain
<1>6. CASE PointToken(h)
  <2>1. /\ UNCHANGED <<account, policy, pending, setup, counters, started, accepted>> /\ q.at # "still"
        /\ (Goes(h, "rollback") \/ Done(h)) /\ "rollback" \in Stages
    BY <1>1, <1>6 DEF PointToken, rest, Stages
  <2>2. CodesBehind(own)'
    BY <2>1, BehindStays
  <2>3. QED
    BY <1>1, <2>1, <2>2, CodesGoOn, CodesEnd
<1>7. CASE ResetFinish(h)
  <2>1. PICK t \in tokens : Started(h, [Still EXCEPT !.at = "row", !.job = "reset", !.inc = t.inc])
    BY <1>7 DEF ResetFinish
  <2>2. PICK r : r = [Still EXCEPT !.at = "row", !.job = "reset", !.inc = t.inc]
    OBVIOUS
  <2>3. t.inc \in Lives
    BY <2>1 DEF SignInShapes, LinksFit
  <2>4. r \in Handled /\ r.at = "row" /\ r.job = "reset"
    BY <2>2, <2>3, StillFits DEF Handled, Stages, Errands
  <2>5. QED
    BY <1>7, <2>1, <2>2, <2>4, CodesStart DEF ResetFinish
<1>8. CASE ResetRow(h)
  <2>1. PICK n : n = [q EXCEPT !.at = "rekey", !.key = account.key]
    OBVIOUS
  <2>2. UNCHANGED <<stores, rest>> /\ (Hold(h, n) \/ Done(h)) /\ q.at = "row"
    BY <1>1, <1>8, <2>1 DEF ResetRow
  <2>3. n.at = "rekey" /\ n.job = "reset" /\ n.id = q.id
    BY <1>1, <2>1, <2>2 DEF Handled, StagesFit
  <2>4. CodesBehind(own)'
    BY <2>2, BehindStays DEF stores, rest
  <2>5. QED
    BY <1>1, <2>2, <2>3, <2>4, CodesPlain, CodesEnd DEF stores, rest
<1>9. CASE Rekey(h)
  <2>1. PICK n : n = [q EXCEPT !.at = "signOut", !.key = @ + 1]
    OBVIOUS
  <2>2. /\ UNCHANGED <<policy, pending, setup, counters, started, accepted>> /\ (Hold(h, n) \/ Done(h)) /\ q.at = "rekey"
        /\ account' = account \/ account' = [account EXCEPT !.key = @ + 1]
    BY <1>1, <1>9, <2>1 DEF Rekey, rest
  <2>3. n.at = "signOut" /\ n.job = "reset" /\ n.id = q.id
    BY <1>1, <2>1, <2>2 DEF Handled, StagesFit
  <2>4. account'.inc = account.inc /\ account'.state = account.state
    BY <2>2 DEF SignInShapes, AccountFit
  <2>5. CodesBehind(own)'
    BY <2>2, <2>4 DEF CodesHold, CodesBehind, CodeOnce, Behind
  <2>6. QED
    BY <1>1, <2>2, <2>3, <2>5, CodesPlain, CodesEnd
<1>10. CASE LogoutAll(h)
  <2>1. PICK r : r = [Still EXCEPT !.at = "signOut", !.job = "logout"]
    OBVIOUS
  <2>2. r \in Handled /\ r.at = "signOut" /\ r.job = "logout"
    BY <2>1, StillFits DEF Handled, Stages, Errands
  <2>3. QED
    BY <1>10, <2>1, <2>2, CodesStart DEF LogoutAll, stores
<1>11. CASE SignOut(h)
  <2>1. UNCHANGED <<account, pending, setup, counters, started, accepted>> /\ Done(h) /\ policy' = [policy EXCEPT !.epoch = @ + 1]
    BY <1>11 DEF SignOut
  <2>2. policy'.inc = policy.inc /\ policy'.method = policy.method /\ policy'.enrol = policy.enrol
    BY <2>1 DEF SignInShapes, AccountFit
  <2>3. Owns(own, policy') /\ CodesBehind(own)'
    BY <2>1, <2>2, BehindStays DEF CodesHold, Owns
  <2>4. QED
    BY <2>1, <2>3, CodesEndWith
<1>12. QED
  BY <1>2, <1>3, <1>4, <1>5, <1>6, <1>7, <1>8, <1>9, <1>10, <1>11 DEF Resetting

(* The requests stay as they are.                                          *)
LEMMA CodesRest ==
  ASSUME SignInShapes, SignInShapes', NEW own, CodesHold(own), UNCHANGED <<handlers, pending>>, started' \in {started, started + 1},
         Owns(own, policy'), \A i \in Lives : setup'[i] = setup[i] \/ Owns(own, setup'[i]), CodesBehind(own)'
  PROVE  CodesHold(own)'
<1>1. PICK h : h \notin Handlers
  BY NoSetContainsEverything
<1>2. \A g \in Handlers \ {h} : handlers'[g] = handlers[g]
  OBVIOUS
<1>3. started' >= started
  BY SignInBounds DEF SignInShapes, SessionsFit
<1>4. QED
  BY <1>1, <1>2, <1>3, CodesGo

LEMMA DeleteAccountCodes ==
  ASSUME SignInShapes, SignInShapes', NEW own, CodesHold(own), DeleteAccount PROVE CodesHold(own)'
<1>1. UNCHANGED <<handlers, pending, accepted>> /\ started' \in {started, started + 1}
  BY DEF DeleteAccount, Once
<1>2. \A i \in Lives : setup'[i] = setup[i] \/ Owns(own, setup'[i])
  BY StillCodes DEF DeleteAccount, SignInShapes, ChallengesFit
<1>3. \/ policy' = policy \/ policy'.method = "none"
      \/ policy'.method = policy.method /\ policy'.inc = policy.inc /\ policy'.enrol = policy.enrol
  BY DEF DeleteAccount, SignInShapes, AccountFit
<1>4. Owns(own, policy')
  BY <1>3 DEF CodesHold, Owns
<1>5. ASSUME NEW c \in accepted PROVE Behind(own, account', counters', c)
  <2>1. Behind(own, account, counters, c) /\ account.inc \in Nat
    BY AccountNumbers DEF CodesHold, CodesBehind, SignInShapes
  <2>2. CASE account' = [account EXCEPT !.state = "deleting"] /\ account.state = "live" /\ UNCHANGED counters
    <3>1. account'.inc = account.inc
      BY <2>2 DEF SignInShapes, AccountFit
    <3>2. QED
      BY <2>1, <2>2, <3>1 DEF Behind
  <2>3. CASE account' = [account EXCEPT !.state = "none"]
    <3>1. account'.inc = account.inc /\ account'.state = "none"
      BY <2>3 DEF SignInShapes, AccountFit
    <3>2. QED
      BY <2>1, <3>1 DEF Behind
  <2>4. CASE account' = [inc |-> account.inc + 1, state |-> "live", key |-> 1]
    <3>1. account'.inc = account.inc + 1
      BY <2>4
    <3>2. QED
      BY <2>1, <3>1 DEF Behind
  <2>5. QED
    BY <2>2, <2>3, <2>4 DEF DeleteAccount
<1>6. CodesBehind(own)'
  BY <1>1, <1>5 DEF CodesBehind, CodesHold, CodeOnce
<1>7. QED
  BY <1>1, <1>2, <1>4, <1>6, CodesRest

LEMMA CodesStep ==
  ASSUME SignInShapes, SignInShapes', NEW own, CodesHold(own), [SignInNext]_signInVars PROVE \E o : CodesHold(o)'
<1>1. ASSUME NEW h \in Handlers, SettingUp(h) PROVE \E o : CodesHold(o)'
  <2>1. CodesHold(own)' \/ SetupAccount(h)
    BY <1>1, TwoFaSetupCodes, StoreSetupCodes, ConfirmAccountCodes, OpenSetupCodes, SetFactorCodes DEF SettingUp
  <2>2. QED
    BY <2>1, SetupAccountCodes
<1>2. ASSUME NEW h \in Handlers, Fail(h) PROVE CodesHold(own)'
  BY <1>2, CodesEnd, BehindStays DEF Fail, stores
<1>3. CASE Logout
  <2>1. UNCHANGED <<account, policy, pending, setup, counters, handlers, accepted>> /\ started' \in {started, started + 1}
    BY <1>3 DEF Logout, Once
  <2>2. Owns(own, policy') /\ CodesBehind(own)'
    BY <2>1, BehindStays DEF CodesHold
  <2>3. QED
    BY <2>1, <2>2, CodesRest
<1>4. CASE UNCHANGED signInVars
  <2>1. CodesHold(own)'
    BY <1>4 DEF signInVars, CodesHold, CodesBehind, CodeOnce
  <2>2. QED
    BY <2>1
<1>5. QED
  BY <1>1, <1>2, <1>3, <1>4, SigningCodes, CodingCodes, ResettingCodes, DeleteAccountCodes DEF SignInNext

LEMMA CodesBegin == SignInInit => \E own : CodesHold(own)
<1> SUFFICES ASSUME SignInInit PROVE \E own : CodesHold(own)
  OBVIOUS
<1>1. PICK m \in Methods :
       /\ policy = [epoch |-> 1, inc |-> 1, factor |-> 1, method |-> m, enrol |-> 0, fence |-> 0]
       /\ pending = IF m = "none" THEN {}
                    ELSE {[NoCode EXCEPT !.epoch = 1, !.inc = 1, !.key = 1, !.method = m, !.factor = 1]}
       /\ setup = [i \in Lives |->
            IF i = 1 /\ m = "none"
            THEN [NoCode EXCEPT !.epoch = 1, !.inc = 1, !.method = "totp", !.target = "totp", !.factor = 1]
            ELSE NoCode]
  BY DEF SignInInit
<1>2. PICK own : own = [n \in Enrollments |-> IF n = 0 THEN 1 ELSE 0]
  OBVIOUS
<1>3. own \in [Enrollments -> {0} \cup Lives] /\ (\A n \in Enrollments : n > 0 => own[n] = 0) /\ own[0] = 1
  BY <1>2, SignInBounds
<1>4. PICK c : c = [NoCode EXCEPT !.epoch = 1, !.inc = 1, !.key = 1, !.method = m, !.factor = 1]
  OBVIOUS
<1>5. c.inc = 1 /\ c.enrol = 0
  BY <1>4 DEF NoCode
<1>6. PICK d : d = [NoCode EXCEPT !.epoch = 1, !.inc = 1, !.method = "totp", !.target = "totp", !.factor = 1]
  OBVIOUS
<1>7. d.inc = 1 /\ d.enrol = 0
  BY <1>6 DEF NoCode
<1>8. Owns(own, c) /\ Owns(own, d) /\ Owns(own, NoCode)
  BY <1>3, <1>5, <1>7, StillCodes DEF Owns
<1>9. Owns(own, policy) /\ \A p \in pending : Owns(own, p)
  <2>1. policy.enrol = 0 /\ policy.inc = 1
    BY <1>1
  <2>2. \A p \in pending : p = c
    BY <1>1, <1>4
  <2>3. QED
    BY <1>3, <1>8, <2>1, <2>2 DEF Owns
<1>10. \A i \in Lives : Owns(own, setup[i])
  BY <1>1, <1>6, <1>8
<1>11. started = 0 /\ accepted = {} /\ \A h \in Handlers : handlers[h] = Still
  BY DEF SignInInit
<1>12. CodesBehind(own)
  BY <1>11 DEF CodesBehind, CodeOnce
<1>13. QED
  BY <1>3, <1>9, <1>10, <1>11, <1>12, StillCodes, StillFits DEF CodesHold, Apart

(* A code of an authenticator lets somebody in once, and of the links that *)
(* were mailed one is good when nobody is asking for another.              *)
THEOREM SignInOnce == SignInSpec => []OnceOnly
<1>1. SignInInit => SignInShapes /\ LinksHeld /\ (\E own : CodesHold(own))
  BY SignInShapesStart, LinksBegin, CodesBegin
<1>2. SignInShapes /\ LinksHeld /\ (\E own : CodesHold(own)) /\ [SignInNext]_signInVars
        => SignInShapes' /\ LinksHeld' /\ (\E own : CodesHold(own))'
  <2> SUFFICES ASSUME SignInShapes, LinksHeld, NEW own, CodesHold(own), [SignInNext]_signInVars
               PROVE  SignInShapes' /\ LinksHeld' /\ \E o : CodesHold(o)'
    OBVIOUS
  <2>1. SignInShapes' /\ LinksHeld'
    BY SignInShapesStep, LinksStep
  <2>2. QED
    BY <2>1, CodesStep
<1>3. SignInShapes /\ LinksHeld /\ (\E own : CodesHold(own)) => OnceOnly
  BY LinksOne DEF CodesHold, CodesBehind, OnceOnly
<1>4. QED
  BY <1>1, <1>2, <1>3, PTL DEF SignInSpec

-----------------------------------------------------------------------------
(* The factor in force                                                     *)

LEMMA SettingsTyped ==
  ASSUME NEW p \in Policies, NEW i
  PROVE  LET s == SettingsOf(p, i) IN s.factor \in Nat /\ s.method \in Methods /\ s.enrol \in Enrollments
BY SignInBounds DEF SettingsOf, Policies, Methods

LEMMA BeforeGoes ==
  ASSUME NEW p \in Policies, NEW r \in Policies, NEW s \in Policies, Before(p, r), Before(r, s) PROVE Before(p, s)
<1>1. p.fence \in Nat /\ r.fence \in Nat /\ s.fence \in Nat
  BY DEF Policies
<1>2. p.fence <= s.fence
  BY <1>1 DEF Before
<1>3. ASSUME p.fence = s.fence
      PROVE  LET i == s.fence + 1 IN
         /\ SettingsOf(p, i).factor <= SettingsOf(s, i).factor
         /\ SettingsOf(p, i).factor = SettingsOf(s, i).factor =>
              SettingsOf(p, i).method = SettingsOf(s, i).method /\ SettingsOf(p, i).enrol = SettingsOf(s, i).enrol
  <2>1. r.fence = s.fence /\ p.fence = r.fence
    BY <1>1, <1>3 DEF Before
  <2>2. PICK i : i = s.fence + 1
    OBVIOUS
  <2>3. SettingsOf(p, i).factor \in Nat /\ SettingsOf(r, i).factor \in Nat /\ SettingsOf(s, i).factor \in Nat
    BY SettingsTyped
  <2>4. SettingsOf(p, i).factor <= SettingsOf(r, i).factor /\ SettingsOf(r, i).factor <= SettingsOf(s, i).factor
    BY <2>1, <2>2 DEF Before
  <2>5. SettingsOf(p, i).factor = SettingsOf(r, i).factor =>
              SettingsOf(p, i).method = SettingsOf(r, i).method /\ SettingsOf(p, i).enrol = SettingsOf(r, i).enrol
    BY <2>1, <2>2 DEF Before
  <2>6. SettingsOf(r, i).factor = SettingsOf(s, i).factor =>
              SettingsOf(r, i).method = SettingsOf(s, i).method /\ SettingsOf(r, i).enrol = SettingsOf(s, i).enrol
    BY <2>1, <2>2 DEF Before
  <2>7. SettingsOf(p, i).factor = SettingsOf(s, i).factor =>
          SettingsOf(p, i).factor = SettingsOf(r, i).factor /\ SettingsOf(r, i).factor = SettingsOf(s, i).factor
    BY <2>3, <2>4
  <2>8. SettingsOf(p, i).factor <= SettingsOf(s, i).factor
    BY <2>3, <2>4
  <2>9. QED
    BY <2>2, <2>5, <2>6, <2>7, <2>8
<1>4. QED
  BY <1>2, <1>3 DEF Before

LEMMA BeforeSame == ASSUME NEW p \in Policies PROVE Before(p, p)
BY SettingsTyped DEF Before, Policies

LEMMA MadeStays ==
  ASSUME NEW was, NEW now, NEW p, NEW r, NEW codes, NEW more, p.epoch \in Nat, r.epoch \in Nat, p.epoch <= r.epoch,
         \A e \in 0..p.epoch : now[e] = was[e], codes \subseteq more,
         NEW c \in Codes, MadeUnder(was, p, codes, c)
  PROVE  MadeUnder(now, r, more, c)
<1>1. c.epoch \in Nat
  BY DEF Codes
<1>2. c.inc # 0 => c.epoch <= r.epoch /\ now[c.epoch] = was[c.epoch]
  BY <1>1 DEF MadeUnder
<1>3. \A n : Proved(codes, n) => Proved(more, n)
  BY DEF Proved
<1>4. QED
  BY <1>2, <1>3 DEF MadeUnder

LEMMA FactorStays ==
  ASSUME NEW was, NEW now, NEW p, NEW r, NEW codes, NEW more, p.epoch \in Nat, r.epoch \in Nat, p.epoch <= r.epoch,
         \A e \in 0..p.epoch : now[e] = was[e], codes \subseteq more,
         NEW a, NEW b, a.inc \in Nat, b.inc \in Nat, a.inc <= b.inc,
         NEW q \in Handled, StagesFit(q), FactorOf(was, a, p, codes, q)
  PROVE  FactorOf(now, b, r, more, q)
<1>1. q.epoch \in Nat /\ q.inc \in Nat /\ q.seen \in Codes
  BY SignInBounds DEF Handled
<1>2. q.job \in {"setup", "switch", "confirm"} /\ q.at # "still" => q.epoch <= r.epoch /\ now[q.epoch] = was[q.epoch]
  BY <1>1 DEF FactorOf
<1>3. \A n : Proved(codes, n) => Proved(more, n)
  BY DEF Proved
<1>4. MadeUnder(was, p, codes, q.seen) => MadeUnder(now, r, more, q.seen)
  BY <1>1, MadeStays
<1>5. q.at = "subject" => q.job \in {"setup", "switch", "confirm"}
  BY DEF StagesFit
<1>6. q.inc <= a.inc => q.inc <= b.inc
  BY <1>1
<1>7. QED
  BY <1>2, <1>3, <1>4, <1>5, <1>6 DEF FactorOf

(* What a request that has nothing to do with the factor leaves alone.     *)
LEMMA FactorQuiet ==
  ASSUME NEW was, NEW a, NEW p, NEW codes, NEW q, q.job \notin {"setup", "switch", "confirm"}, q.at \notin {"subject", "store"}
  PROVE  FactorOf(was, a, p, codes, q)
BY DEF FactorOf

LEMMA StillFactor ==
  ASSUME NEW was, NEW a, NEW p, NEW codes PROVE FactorOf(was, a, p, codes, Still) /\ MadeUnder(was, p, codes, NoCode)
BY StillFits DEF FactorOf, MadeUnder

LEMMA FactorsGo ==
  ASSUME SignInShapes, SignInShapes', NEW was, FactorsHold(was),
         NEW now \in [Nat -> Policies], \A e \in 0..policy.epoch : now[e] = was[e],
         policy'.epoch >= policy.epoch, \A e \in Nat : e > policy.epoch /\ e <= policy'.epoch => now[e] = policy',
         now[policy'.epoch] = policy', Before(policy, policy'),
         policy'.fence = FenceOf(account'), account'.inc >= account.inc, accepted \subseteq accepted',
         \A i \in Lives : setup'[i] = setup[i] \/ MadeUnder(now, policy', accepted', setup'[i]),
         NEW h, \A g \in Handlers \ {h} : handlers'[g] = handlers[g],
         h \in Handlers => FactorOf(now, account', policy', accepted', handlers'[h])
  PROVE  FactorsHold(now)'
<1>1. /\ account.inc \in Nat /\ account'.inc \in Nat /\ policy.epoch \in Nat /\ policy'.epoch \in Nat
      /\ policy \in Policies /\ policy' \in Policies
  BY AccountNumbers, AccountNumbersNext DEF SignInShapes, AccountFit, Policies
<1>2. ASSUME NEW e \in 0..policy'.epoch PROVE Before(now[e], policy')
  <2>1. CASE e <= policy.epoch
    <3>1. e \in 0..policy.epoch
      BY <1>1, <2>1
    <3>2. Before(was[e], policy) /\ was[e] \in Policies /\ now[e] = was[e]
      BY <1>1, <3>1 DEF FactorsHold
    <3>3. QED
      BY <1>1, <3>2, BeforeGoes
  <2>2. CASE ~(e <= policy.epoch)
    <3>1. now[e] = policy'
      BY <1>1, <2>2
    <3>2. QED
      BY <1>1, <3>1, BeforeSame
  <2>3. QED
    BY <2>1, <2>2
<1>3. ASSUME NEW i \in Lives PROVE MadeUnder(now, policy', accepted', setup'[i])
  <2>1. setup[i] \in Codes /\ MadeUnder(was, policy, accepted, setup[i])
    BY DEF FactorsHold, SignInShapes, ChallengesFit
  <2>2. MadeUnder(now, policy', accepted', setup[i])
    BY <1>1, <2>1, MadeStays
  <2>3. QED
    BY <2>2
<1>4. ASSUME NEW g \in Handlers PROVE FactorOf(now, account', policy', accepted', handlers'[g])
  <2>1. CASE g # h
    <3>1. handlers[g] \in Handled /\ StagesFit(handlers[g]) /\ FactorOf(was, account, policy, accepted, handlers[g])
      BY HandlerFit DEF FactorsHold, SignInShapes
    <3>2. FactorOf(now, account', policy', accepted', handlers[g])
      BY <1>1, <3>1, FactorStays
    <3>3. QED
      BY <2>1, <3>2
  <2>2. QED
    BY <2>1
<1>5. QED
  BY <1>2, <1>3, <1>4 DEF FactorsHold

(* Steps that leave the account and the policy.                            *)
LEMMA FactorsMove ==
  ASSUME SignInShapes, SignInShapes', NEW was, FactorsHold(was), UNCHANGED policy,
         account'.inc = account.inc, account'.state = account.state, accepted \subseteq accepted',
         \A i \in Lives : setup'[i] = setup[i] \/ MadeUnder(was, policy, accepted', setup'[i]),
         NEW h, \A g \in Handlers \ {h} : handlers'[g] = handlers[g],
         h \in Handlers => FactorOf(was, account', policy, accepted', handlers'[h])
  PROVE  FactorsHold(was)'
<1>1. policy \in Policies /\ was \in [Nat -> Policies] /\ was[policy.epoch] = policy /\ policy.epoch \in Nat /\ account.inc \in Nat
  BY AccountNumbers DEF SignInShapes, AccountFit, Policies, FactorsHold
<1>2. Before(policy, policy')
  BY <1>1, BeforeSame
<1>3. policy'.fence = FenceOf(account') /\ account'.inc >= account.inc /\ policy'.epoch >= policy.epoch
  BY <1>1 DEF FactorsHold, FenceOf
<1>4. \A e \in Nat : ~(e > policy.epoch /\ e <= policy'.epoch)
  BY <1>1
<1>5. was[policy'.epoch] = policy'
  BY <1>1
<1>6. QED
  BY <1>1, <1>2, <1>3, <1>4, <1>5, FactorsGo

LEMMA FactorsHoldOn ==
  ASSUME SignInShapes, SignInShapes', NEW was, FactorsHold(was), UNCHANGED <<account, policy, setup, accepted>>,
         NEW h \in Handlers, NEW n, Hold(h, n), FactorOf(was, account, policy, accepted, n)
  PROVE  FactorsHold(was)'
BY HandlerHolds, FactorsMove DEF SignInShapes

LEMMA FactorsEnd ==
  ASSUME SignInShapes, SignInShapes', NEW was, FactorsHold(was), UNCHANGED <<account, policy, setup, accepted>>,
         NEW h \in Handlers, Done(h)
  PROVE  FactorsHold(was)'
BY FactorsHoldOn, StillFactor DEF Done

LEMMA FactorsStart ==
  ASSUME SignInShapes, SignInShapes', NEW was, FactorsHold(was), UNCHANGED <<account, policy, setup>>,
         NEW h \in Handlers, NEW q \in Handled, Started(h, q), FactorOf(was, account, policy, accepted, q)
  PROVE  FactorsHold(was)'
<1>1. PICK n \in Handled : /\ handlers'[h] = n /\ n.at = q.at /\ Alike(q, n)
                           /\ \A g \in Handlers \ {h} : handlers'[g] = handlers[g]
  BY HandlerBegins DEF SignInShapes
<1>2. FactorOf(was, account, policy, accepted, n)
  BY <1>1 DEF Alike, FactorOf
<1>3. UNCHANGED accepted
  BY DEF Started
<1>4. QED
  BY <1>1, <1>2, <1>3, FactorsMove

LEMMA FactorsGoOn ==
  ASSUME SignInShapes, SignInShapes', NEW was, FactorsHold(was), UNCHANGED <<account, policy, setup, accepted>>,
         NEW h \in Handlers, NEW at \in Stages \ {"subject", "store"}, Goes(h, at),
         handlers[h].job \notin {"setup", "switch", "confirm"}
  PROVE  FactorsHold(was)'
<1>1. PICK n \in Handled : /\ handlers'[h] = n /\ n.at = at /\ Alike(handlers[h], n)
                           /\ \A g \in Handlers \ {h} : handlers'[g] = handlers[g]
  BY HandlerMoves DEF SignInShapes
<1>2. n.job \notin {"setup", "switch", "confirm"} /\ n.at \notin {"subject", "store"}
  BY <1>1 DEF Alike
<1>3. FactorOf(was, account, policy, accepted, n)
  BY <1>2, FactorQuiet
<1>4. QED
  BY <1>1, <1>3, FactorsMove

LEMMA SigningFactors ==
  ASSUME SignInShapes, SignInShapes', NEW was, FactorsHold(was), NEW h \in Handlers, Signing(h) PROVE FactorsHold(was)'
<1>1. CASE LoginStart(h)
  <2>1. PICK q : q = [Still EXCEPT !.at = "challenge", !.inc = account.inc]
    OBVIOUS
  <2>2. account.inc \in Lives
    BY AccountNumbers DEF SignInShapes
  <2>3. q \in Handled /\ q.at = "challenge" /\ q.job = "none"
    BY <2>1, <2>2, StillFits DEF Handled, Stages
  <2>4. FactorOf(was, account, policy, accepted, q)
    BY <2>3, FactorQuiet
  <2>5. QED
    BY <1>1, <2>1, <2>3, <2>4, FactorsStart DEF LoginStart, stores
<1>2. CASE CreateChallenge(h)
  BY <1>2, FactorsEnd DEF CreateChallenge, rest
<1>3. CASE LoginFinish(h)
  <2>1. PICK c \in logins : Started(h, [Still EXCEPT !.at = "signature", !.epoch = c.epoch, !.inc = c.inc])
    BY <1>3 DEF LoginFinish
  <2>2. PICK q : q = [Still EXCEPT !.at = "signature", !.epoch = c.epoch, !.inc = c.inc]
    OBVIOUS
  <2>3. c.epoch \in Nat /\ c.inc \in Lives /\ "signature" \in Stages
    BY <2>1 DEF SignInShapes, ChallengesFit, Stages
  <2>4. q \in Handled
    BY <2>2, <2>3, StillFits DEF Handled
  <2>5. q.at = "signature" /\ q.job = "none"
    BY <2>2, StillFits DEF Handled
  <2>6. FactorOf(was, account, policy, accepted, q)
    BY <2>5, FactorQuiet
  <2>7. QED
    BY <1>3, <2>1, <2>2, <2>4, <2>6, FactorsStart DEF LoginFinish
<1>4. CASE VerifyLogin(h)
  <2>1. PICK q \in Handled : q = handlers[h] /\ q.at = "signature" /\ StagesFit(q)
    BY <1>4, HandlerFit DEF SignInShapes, VerifyLogin
  <2>2. PICK n : n = [q EXCEPT !.at = "settings", !.key = account.key]
    OBVIOUS
  <2>3. n.at = "settings" /\ n.job = "none"
    BY <2>1, <2>2 DEF Handled, StagesFit
  <2>4. UNCHANGED <<stores, rest>> /\ (Hold(h, n) \/ Done(h))
    BY <1>4, <2>1, <2>2 DEF VerifyLogin
  <2>5. FactorOf(was, account, policy, accepted, n)
    BY <2>3, FactorQuiet
  <2>6. QED
    BY <2>4, <2>5, FactorsHoldOn, FactorsEnd DEF stores, rest
<1>5. CASE FinishLogin(h)
  BY <1>5, FactorsEnd DEF FinishLogin, rest
<1>6. QED
  BY <1>1, <1>2, <1>3, <1>4, <1>5 DEF Signing

LEMMA TwoFaVerifyFactors ==
  ASSUME SignInShapes, SignInShapes', NEW was, FactorsHold(was), NEW h \in Handlers, TwoFaVerify(h) PROVE FactorsHold(was)'
<1>1. PICK c \in pending, t \in {0} \cup Steps :
        Started(h, Checks([Still EXCEPT !.job = "verify"], c, t)) /\ UNCHANGED stores
  BY DEF TwoFaVerify
<1>2. PICK s : s = [Still EXCEPT !.job = "verify"]
  OBVIOUS
<1>3. s \in Handled /\ s.job = "verify"
  BY <1>2, StillFits DEF Handled, Errands
<1>4. c \in Codes /\ CodeFit(c) /\ c.inc # 0
  BY DEF SignInShapes, ChallengesFit, PendingFit, CodeFit
<1>5. PICK n : n = Checks(s, c, t)
  OBVIOUS
<1>6. n \in Handled /\ n.at \in {"wrong", "consume", "count", "counter"} /\ n.job = "verify"
  BY <1>3, <1>4, <1>5, ChecksFit
<1>7. FactorOf(was, account, policy, accepted, n)
  BY <1>6, FactorQuiet
<1>8. QED
  BY <1>1, <1>2, <1>5, <1>6, <1>7, FactorsStart DEF stores

LEMMA WrongFactors ==
  ASSUME SignInShapes, SignInShapes', NEW was, FactorsHold(was), NEW h \in Handlers, Wrong(h) PROVE FactorsHold(was)'
<1>1. PICK q \in Handled : /\ q = handlers[h] /\ q.seen \in Codes /\ q.at = "wrong"
                           /\ FactorOf(was, account, policy, accepted, q)
  BY HandlerFit DEF SignInShapes, Wrong, FactorsHold
<1>2. PICK c : c = [q.seen EXCEPT !.attempts = @ + 1]
  OBVIOUS
<1>3. /\ c.method = q.seen.method /\ c.enrol = q.seen.enrol /\ c.inc = q.seen.inc /\ c.epoch = q.seen.epoch
      /\ c.factor = q.seen.factor /\ c.target = q.seen.target
  BY <1>1, <1>2 DEF Codes
<1>4. q.job = "confirm" => MadeUnder(was, policy, accepted, c)
  BY <1>1, <1>3 DEF FactorOf, MadeUnder
<1>5. \/ UNCHANGED setup
      \/ q.job = "confirm" /\ setup' = IF setup[q.inc] # q.seen THEN setup
                       ELSE [setup EXCEPT ![q.inc] = IF Spent(c) THEN NoCode ELSE c]
  BY <1>1, <1>2 DEF Wrong
<1>6. \A i \in Lives : setup'[i] = setup[i] \/ MadeUnder(was, policy, accepted, setup'[i])
  BY <1>4, <1>5, StillFactor DEF SignInShapes, ChallengesFit
<1>7. UNCHANGED <<account, policy, accepted>> /\ Done(h)
  BY DEF Wrong, rest
<1>8. handlers'[h] = Still /\ (\A g \in Handlers \ {h} : handlers'[g] = handlers[g])
  BY <1>7, HandlerStops DEF SignInShapes
<1>9. QED
  BY <1>6, <1>7, <1>8, StillFactor, FactorsMove

LEMMA ReadCounterFactors ==
  ASSUME SignInShapes, SignInShapes', NEW was, FactorsHold(was), NEW h \in Handlers, ReadCounter(h) PROVE FactorsHold(was)'
<1>1. PICK q \in Handled : q = handlers[h] /\ q.at = "counter" /\ FactorOf(was, account, policy, accepted, q)
  BY HandlerFit DEF SignInShapes, ReadCounter, FactorsHold
<1>2. PICK n : n = [q EXCEPT !.at = "count", !.last = counters[q.enrol]]
  OBVIOUS
<1>3. /\ n.at = "count" /\ n.job = q.job /\ n.seen = q.seen /\ n.inc = q.inc /\ n.method = q.method
      /\ n.enrol = q.enrol /\ n.factor = q.factor /\ n.epoch = q.epoch /\ n.fence = q.fence /\ n.target = q.target
  BY <1>2 DEF Handled
<1>4. FactorOf(was, account, policy, accepted, n)
  BY <1>1, <1>3 DEF FactorOf
<1>5. UNCHANGED <<stores, rest>> /\ (Done(h) \/ Hold(h, n))
  BY <1>1, <1>2 DEF ReadCounter
<1>6. QED
  BY <1>4, <1>5, FactorsHoldOn, FactorsEnd DEF stores, rest

(* A code of the authenticator approves the change it was typed for.       *)
LEMMA CountFactors ==
  ASSUME SignInShapes, SignInShapes', NEW was, FactorsHold(was), NEW h \in Handlers, Count(h) PROVE FactorsHold(was)'
<1>1. PICK q \in Handled : /\ q = handlers[h] /\ q.at = "count" /\ StagesFit(q)
                           /\ FactorOf(was, account, policy, accepted, q)
  BY HandlerFit DEF SignInShapes, Count, FactorsHold
<1>2. UNCHANGED <<account, policy, setup>>
  BY DEF Count
<1>3. CASE Done(h) /\ UNCHANGED accepted
  BY <1>2, <1>3, FactorsEnd
<1>4. CASE Counted(h)
  <2>1. PICK a : a = [enrol |-> q.enrol, step |-> q.step, id |-> q.id, live |-> IsLive(q.inc),
                          for |-> IF q.job = "verify" THEN "login"
                                  ELSE IF q.job = "confirm" /\ q.target = "totp" THEN "enrol" ELSE "proof"]
    OBVIOUS
  <2>2. accepted' = accepted \cup {a}
    BY <1>1, <1>4, <2>1 DEF Counted
  <2>3. a.enrol = q.enrol /\ (q.job = "switch" \/ (q.job = "confirm" /\ q.target # "totp") => a.for = "proof")
    BY <2>1
  <2>4. q.job = "switch" \/ (q.job = "confirm" /\ q.target # "totp") => Proved(accepted', q.enrol)
    BY <2>2, <2>3 DEF Proved
  <2>5. PICK at : at = (IF q.job = "switch" THEN "store" ELSE "consume") /\ at \in Stages /\ Goes(h, at)
    BY <1>1, <1>4 DEF Counted, Stages
  <2>6. PICK n \in Handled : /\ handlers'[h] = n /\ n.at = at /\ Alike(q, n)
                             /\ \A g \in Handlers \ {h} : handlers'[g] = handlers[g]
    BY <1>1, <2>5, HandlerMoves DEF SignInShapes
  <2>7. FactorOf(was, account, policy, accepted', q)
    <3>1. account.inc <= account.inc /\ account.inc \in Nat /\ policy.epoch \in Nat /\ policy.epoch <= policy.epoch
      BY AccountNumbers DEF SignInShapes
    <3>2. QED
      BY <1>1, <2>2, <3>1, FactorStays
  <2>8. q.job \in {"verify", "confirm", "switch"} /\ (q.job = "confirm" => q.enrol = q.seen.enrol)
    BY <1>1 DEF StagesFit
  <2>9. FactorOf(was, account, policy, accepted', n)
    BY <1>1, <2>4, <2>5, <2>6, <2>7, <2>8 DEF FactorOf, Alike
  <2>10. QED
    BY <1>2, <2>2, <2>6, <2>9, FactorsMove
<1>5. QED
  BY <1>3, <1>4 DEF Count

LEMMA ConsumeFactors ==
  ASSUME SignInShapes, SignInShapes', NEW was, FactorsHold(was), NEW h \in Handlers, Consume(h) PROVE FactorsHold(was)'
<1>1. PICK q \in Handled : /\ q = handlers[h] /\ q.at = "consume" /\ FactorOf(was, account, policy, accepted, q)
  BY HandlerFit DEF SignInShapes, Consume, FactorsHold
<1>2. UNCHANGED <<account, policy, accepted>> /\ (UNCHANGED setup \/ setup' = [setup EXCEPT ![q.inc] = NoCode])
  BY <1>1 DEF Consume, rest
<1>3. \A i \in Lives : setup'[i] = setup[i] \/ MadeUnder(was, policy, accepted, setup'[i])
  BY <1>2, StillFactor DEF SignInShapes, ChallengesFit
<1>4. \/ q.job = "verify" /\ Goes(h, "recheck")
      \/ q.job = "confirm" /\ Goes(h, "change")
      \/ Done(h)
  BY <1>1 DEF Consume
<1>5. "recheck" \in Stages /\ "change" \in Stages
  BY DEF Stages
<1>6. CASE Done(h)
  <2>1. handlers'[h] = Still /\ (\A g \in Handlers \ {h} : handlers'[g] = handlers[g])
    BY <1>6, HandlerStops DEF SignInShapes
  <2>2. QED
    BY <1>2, <1>3, <2>1, StillFactor, FactorsMove
<1>7. ASSUME NEW at \in {"recheck", "change"}, Goes(h, at), q.job = IF at = "recheck" THEN "verify" ELSE "confirm"
      PROVE  FactorsHold(was)'
  <2>1. PICK n \in Handled : /\ handlers'[h] = n /\ n.at = at /\ Alike(q, n)
                             /\ \A g \in Handlers \ {h} : handlers'[g] = handlers[g]
    BY <1>1, <1>5, <1>7, HandlerMoves DEF SignInShapes
  <2>2. FactorOf(was, account, policy, accepted, n)
    BY <1>1, <1>7, <2>1 DEF FactorOf, Alike
  <2>3. QED
    BY <1>2, <1>3, <2>1, <2>2, FactorsMove
<1>8. QED
  BY <1>4, <1>6, <1>7

LEMMA CodingFactors ==
  ASSUME SignInShapes, SignInShapes', NEW was, FactorsHold(was), NEW h \in Handlers, Coding(h) PROVE FactorsHold(was)'
<1>1. CASE Recheck(h)
  <2>1. "mint" \in Stages /\ (Goes(h, "mint") \/ Done(h)) /\ UNCHANGED <<stores, rest>> /\ handlers[h].job = "verify"
    BY <1>1, HandlerFit DEF Stages, Recheck, SignInShapes, StagesFit
  <2>2. QED
    BY <2>1, FactorsGoOn, FactorsEnd DEF stores, rest
<1>2. CASE MintSecond(h)
  BY <1>2, FactorsEnd DEF MintSecond, rest
<1>3. QED
  BY <1>1, <1>2, TwoFaVerifyFactors, WrongFactors, ReadCounterFactors, CountFactors, ConsumeFactors DEF Coding

LEMMA TwoFaSetupFactors ==
  ASSUME SignInShapes, SignInShapes', NEW was, FactorsHold(was), NEW h \in Handlers, TwoFaSetup(h) \/ TwoFaSetupVerify(h)
  PROVE  FactorsHold(was)'
<1>1. PICK v \in Handled : /\ v = Verified(Still) /\ v.inc = policy.inc /\ v.method = policy.method /\ v.epoch = policy.epoch
                           /\ v.enrol = policy.enrol /\ v.fence = policy.fence /\ v.factor = policy.factor
  BY VerifiedFits DEF SignInShapes
<1>2. PICK q : Started(h, q) /\ (\/ \E m \in Methods : q = [v EXCEPT !.at = "subject", !.job = "setup", !.target = m]
                                 \/ q = [v EXCEPT !.at = "subject", !.job = "confirm"])
  BY <1>1 DEF TwoFaSetup, TwoFaSetupVerify
<1>3. q \in Handled /\ q.at = "subject"
  <2>1. "subject" \in Stages /\ "setup" \in Errands /\ "confirm" \in Errands
    BY DEF Stages, Errands
  <2>2. CASE q = [v EXCEPT !.at = "subject", !.job = "confirm"]
    BY <1>1, <2>1, <2>2 DEF Handled
  <2>3. ASSUME NEW m \in Methods, q = [v EXCEPT !.at = "subject", !.job = "setup", !.target = m]
        PROVE  q \in Handled /\ q.at = "subject"
    BY <1>1, <2>1, <2>3 DEF Handled
  <2>4. QED
    BY <1>2, <2>2, <2>3
<1>4. q.inc = v.inc /\ q.method = v.method /\ q.enrol = v.enrol /\ q.epoch = v.epoch /\ q.fence = v.fence /\ q.factor = v.factor
  BY <1>1, <1>2 DEF Handled
<1>5. was[policy.epoch] = policy /\ policy.epoch <= policy.epoch
  BY AccountNumbers DEF FactorsHold, SignInShapes
<1>6. FactorOf(was, account, policy, accepted, q)
  BY <1>1, <1>3, <1>4, <1>5 DEF FactorOf
<1>7. UNCHANGED stores
  BY DEF TwoFaSetup, TwoFaSetupVerify
<1>8. QED
  BY <1>2, <1>3, <1>6, <1>7, FactorsStart DEF stores

LEMMA SetupAccountFactors ==
  ASSUME SignInShapes, SignInShapes', NEW was, FactorsHold(was), NEW h \in Handlers, SetupAccount(h) PROVE FactorsHold(was)'
<1>1. PICK q \in Handled : /\ q = handlers[h] /\ q.at = "subject" /\ q.job = "setup" /\ q.epoch \in Nat
                           /\ FactorOf(was, account, policy, accepted, q)
  BY HandlerFit DEF SignInShapes, SetupAccount, FactorsHold, Handled
<1>2. UNCHANGED <<stores, rest>>
  BY DEF SetupAccount
<1>3. CASE Done(h)
  BY <1>2, <1>3, FactorsEnd DEF stores, rest
<1>4. ASSUME ~Done(h) PROVE FactorsHold(was)'
  <2>1. PICK s : s = SettingsOf(q, account.inc)
    OBVIOUS
  <2>2. PICK n \in Handled :
              /\ Hold(h, n) /\ n.job \in {"setup", "switch"} /\ n.inc = account.inc
              /\ n.epoch = q.epoch /\ n.fence = q.fence
              /\ n.method = s.method /\ n.enrol = s.enrol /\ n.factor = s.factor /\ n.at \in {"counter", "store"}
              /\ n.at = "store" /\ n.target # "none" => n.method = "none"
    BY <1>1, <1>4, <2>1, SetupGoes
  <2>3. PICK p \in Policies : p = was[q.epoch]
    BY <1>1 DEF FactorsHold
  <2>4. q.inc = p.inc /\ q.factor = p.factor /\ q.method = p.method /\ q.enrol = p.enrol
    BY <1>1, <2>3 DEF FactorOf
  <2>5. PICK r : r = SettingsOf(p, account.inc)
    OBVIOUS
  <2>6. r.factor = s.factor /\ r.method = s.method /\ r.enrol = s.enrol
    BY <1>1, <2>1, <2>4, <2>5 DEF SettingsOf, Policies, Handled
  <2>7. FactorOf(was, account, policy, accepted, n)
    BY <1>1, <2>2, <2>3, <2>5, <2>6 DEF FactorOf
  <2>8. QED
    BY <1>2, <2>2, <2>7, FactorsHoldOn DEF stores, rest
<1>5. QED
  BY <1>3, <1>4

LEMMA StoreSetupFactors ==
  ASSUME SignInShapes, SignInShapes', NEW was, FactorsHold(was), NEW h \in Handlers, StoreSetup(h) PROVE FactorsHold(was)'
<1>1. PICK q \in Handled : /\ q = handlers[h] /\ StagesFit(q) /\ q.at = "store"
                           /\ FactorOf(was, account, policy, accepted, q)
  BY HandlerFit DEF SignInShapes, StoreSetup, FactorsHold
<1>2. PICK c : c = SetupOf(q)
  OBVIOUS
<1>3. /\ c.inc = q.inc /\ q.inc \in Lives /\ c.epoch = q.epoch /\ c.method = ProofOf(q) /\ c.enrol = EnrolOf(q)
      /\ c.factor = q.factor /\ c.target = q.target
  BY <1>1, <1>2, SetupMade
<1>4. setup' = [setup EXCEPT ![q.inc] = c]
  BY <1>1, <1>2 DEF StoreSetup, SetupOf, ProofOf, EnrolOf
<1>5. PICK s : s = SettingsOf(was[q.epoch], q.inc)
  OBVIOUS
<1>6. q.epoch <= policy.epoch /\ q.factor = s.factor /\ q.method = s.method /\ q.enrol = s.enrol
      /\ (q.method = "totp" /\ q.target # "none" => Proved(accepted, q.enrol))
  BY <1>1, <1>5 DEF StagesFit, FactorOf
<1>7. q.method = "totp" /\ q.target = "none" => c.method = "totp" /\ c.enrol = q.enrol
  BY <1>3 DEF ProofOf, EnrolOf
<1>8. MadeUnder(was, policy, accepted, c)
  BY <1>3, <1>5, <1>6, <1>7 DEF MadeUnder
<1>9. \A i \in Lives : setup'[i] = setup[i] \/ MadeUnder(was, policy, accepted, setup'[i])
  BY <1>3, <1>4, <1>8 DEF SignInShapes, ChallengesFit
<1>10. UNCHANGED <<account, policy, accepted>> /\ Done(h)
  BY DEF StoreSetup, rest
<1>11. handlers'[h] = Still /\ (\A g \in Handlers \ {h} : handlers'[g] = handlers[g])
  BY <1>10, HandlerStops DEF SignInShapes
<1>12. QED
  BY <1>9, <1>10, <1>11, StillFactor, FactorsMove

LEMMA ConfirmAccountFactors ==
  ASSUME SignInShapes, SignInShapes', NEW was, FactorsHold(was), NEW h \in Handlers, ConfirmAccount(h) PROVE FactorsHold(was)'
<1>1. PICK q \in Handled : /\ q = handlers[h] /\ q.at = "subject" /\ q.job = "confirm" /\ q.epoch \in Nat
                           /\ FactorOf(was, account, policy, accepted, q)
  BY HandlerFit DEF SignInShapes, ConfirmAccount, FactorsHold, Handled
<1>2. PICK n : n = [q EXCEPT !.at = "open", !.inc = account.inc]
  OBVIOUS
<1>3. n.at = "open" /\ n.job = q.job /\ n.epoch = q.epoch /\ n.fence = q.fence /\ n.inc = account.inc
  BY <1>1, <1>2 DEF Handled
<1>4. account.inc \in Nat /\ policy.epoch \in Nat /\ policy.fence \in Nat
  BY AccountNumbers DEF SignInShapes
<1>5. ASSUME account.state = "live" PROVE FactorOf(was, account, policy, accepted, n)
  <2>1. q.epoch \in 0..policy.epoch /\ q.fence = was[q.epoch].fence
    BY <1>1, <1>4 DEF FactorOf
  <2>2. was[q.epoch] \in Policies /\ Before(was[q.epoch], policy)
    BY <1>1, <2>1 DEF FactorsHold
  <2>3. q.fence <= policy.fence /\ q.fence \in Nat
    BY <2>1, <2>2 DEF Before, Policies
  <2>4. policy.fence = account.inc - 1
    BY <1>5 DEF FactorsHold, FenceOf
  <2>5. q.fence < account.inc /\ account.inc <= account.inc
    BY <1>4, <2>3, <2>4
  <2>6. QED
    BY <1>1, <1>3, <2>5 DEF FactorOf
<1>6. UNCHANGED <<stores, rest>> /\ ((account.state = "live" /\ Hold(h, n)) \/ Done(h))
  BY <1>1, <1>2 DEF ConfirmAccount
<1>7. QED
  BY <1>5, <1>6, FactorsHoldOn, FactorsEnd DEF stores, rest

LEMMA OpenSetupFactors ==
  ASSUME SignInShapes, SignInShapes', NEW was, FactorsHold(was), NEW h \in Handlers, OpenSetup(h) PROVE FactorsHold(was)'
<1>1. PICK q \in Handled : /\ q = handlers[h] /\ q.at = "open" /\ q.job = "confirm" /\ q.inc \in Lives
                           /\ FactorOf(was, account, policy, accepted, q)
  BY HandlerFit DEF SignInShapes, OpenSetup, StagesFit, Handled, FactorsHold
<1>2. PICK c \in Codes : /\ c = setup[q.inc] /\ CodeFit(c) /\ (c = NoCode \/ c.inc = q.inc)
                         /\ MadeUnder(was, policy, accepted, c)
  BY <1>1 DEF SignInShapes, ChallengesFit, SetupFit, FactorsHold
<1>3. UNCHANGED <<stores, rest>>
      /\ (Done(h) \/ \E t \in {0} \cup Steps : c # NoCode /\ c.epoch = q.epoch /\ Hold(h, Checks(q, c, t)))
  BY <1>1, <1>2 DEF OpenSetup
<1>4. ASSUME NEW t \in {0} \cup Steps, c # NoCode, c.epoch = q.epoch, Hold(h, Checks(q, c, t)) PROVE FactorsHold(was)'
  <2>1. PICK n : n = Checks(q, c, t)
    OBVIOUS
  <2>2. c.inc = q.inc /\ c.inc # 0
    BY <1>1, <1>2, <1>4, SignInBounds
  <2>3. /\ n \in Handled /\ n.seen = c /\ n.job = "confirm" /\ n.at \in {"wrong", "consume", "count", "counter"}
        /\ n.epoch = q.epoch /\ n.fence = q.fence /\ n.inc = c.inc /\ (n.at = "consume" => c.method # "totp")
    BY <1>1, <1>2, <2>1, <2>2, ChecksFit
  <2>4. FactorOf(was, account, policy, accepted, n)
    BY <1>1, <1>2, <1>4, <2>2, <2>3 DEF FactorOf
  <2>5. QED
    BY <1>3, <1>4, <2>1, <2>4, FactorsHoldOn DEF stores, rest
<1>5. QED
  BY <1>3, <1>4, FactorsEnd DEF stores, rest

LEMMA BeforeAlike ==
  ASSUME NEW p \in Policies, NEW s \in Policies, p.fence = s.fence, p.inc = s.inc, p.factor = s.factor,
         p.method = s.method, p.enrol = s.enrol
  PROVE  Before(p, s)
<1>1. ASSUME NEW i
      PROVE  /\ SettingsOf(p, i).factor = SettingsOf(s, i).factor /\ SettingsOf(p, i).method = SettingsOf(s, i).method
             /\ SettingsOf(p, i).enrol = SettingsOf(s, i).enrol
  BY DEF SettingsOf, Policies
<1>2. QED
  BY <1>1, SettingsTyped DEF Before, Policies

(* A step to a later generation is the first of the ones it reaches.       *)
LEMMA FactorsChange ==
  ASSUME SignInShapes, SignInShapes', NEW was, FactorsHold(was), policy'.epoch > policy.epoch, Before(policy, policy'),
         policy'.fence = FenceOf(account'), account'.inc >= account.inc, UNCHANGED accepted,
         \A i \in Lives : setup'[i] = setup[i] \/ setup'[i] = NoCode,
         NEW h, \A g \in Handlers \ {h} : handlers'[g] = handlers[g], h \in Handlers => handlers'[h] = Still
  PROVE  \E now : FactorsHold(now)'
<1>1. /\ policy \in Policies /\ policy' \in Policies /\ policy.epoch \in Nat /\ policy'.epoch \in Nat
      /\ was \in [Nat -> Policies] /\ was[policy.epoch] = policy
  BY AccountNumbers, AccountNumbersNext DEF SignInShapes, AccountFit, Policies, FactorsHold
<1>2. PICK now : now = [e \in Nat |-> IF e <= policy.epoch THEN was[e] ELSE policy']
  OBVIOUS
<1>3. now \in [Nat -> Policies]
  BY <1>1, <1>2
<1>4. \A e \in 0..policy.epoch : now[e] = was[e]
  BY <1>1, <1>2
<1>5. \A e \in Nat : e > policy.epoch => now[e] = policy'
  BY <1>1, <1>2
<1>6. now[policy'.epoch] = policy'
  BY <1>1, <1>5
<1>7. \A i \in Lives : setup'[i] = setup[i] \/ MadeUnder(now, policy', accepted', setup'[i])
  BY StillFactor
<1>8. h \in Handlers => FactorOf(now, account', policy', accepted', handlers'[h])
  BY StillFactor
<1>9. policy'.epoch >= policy.epoch
  BY <1>1
<1>10. FactorsHold(now)'
  BY <1>3, <1>4, <1>5, <1>6, <1>7, <1>8, <1>9, FactorsGo
<1>11. QED
  BY <1>10

(* A change that is not refused is of the account that is there, of the    *)
(* factor the setup was made under.                                        *)
LEMMA ChangeOf ==
  ASSUME SignInShapes, NEW was, FactorsHold(was), NEW q \in Handled, StagesFit(q), q.at = "change",
         FactorOf(was, account, policy, accepted, q), ~Refuses(q)
  PROVE  /\ q.inc = account.inc /\ q.inc = policy.fence + 1 /\ q.fence = policy.fence
         /\ q.epoch \in 0..policy.epoch /\ q.epoch = q.seen.epoch /\ q.seen.inc = q.inc /\ q.inc # 0
         /\ was[q.epoch].fence = q.fence
         /\ policy.inc = q.inc => policy.factor = q.seen.factor
<1>1. /\ account.inc \in Nat /\ policy.fence \in Nat /\ policy.epoch \in Nat /\ q.inc \in Nat /\ q.fence \in Nat
      /\ q.epoch \in Nat
  BY AccountNumbers, SignInBounds DEF SignInShapes, Handled
<1>2. q.job = "confirm" /\ q.inc = q.seen.inc /\ q.inc # 0
  BY DEF StagesFit
<1>3. /\ q.epoch <= policy.epoch /\ q.fence = was[q.epoch].fence /\ q.fence < q.inc /\ q.inc <= account.inc
      /\ q.epoch = q.seen.epoch
  BY <1>2 DEF FactorOf
<1>4. q.fence = policy.fence /\ (policy.inc = q.inc => policy.factor = q.seen.factor)
  BY DEF Refuses
<1>5. policy.fence = account.inc \/ policy.fence = account.inc - 1
  BY DEF FactorsHold, FenceOf
<1>6. q.inc = account.inc /\ q.inc = policy.fence + 1
  BY <1>1, <1>3, <1>4, <1>5
<1>7. QED
  BY <1>1, <1>2, <1>3, <1>4, <1>6

LEMMA SetFactorFactors ==
  ASSUME SignInShapes, SignInShapes', NEW was, FactorsHold(was), NEW h \in Handlers, SetFactor(h)
  PROVE  \E now : FactorsHold(now)'
<1>1. PICK q \in Handled : /\ q = handlers[h] /\ q.at = "change" /\ StagesFit(q)
                           /\ FactorOf(was, account, policy, accepted, q)
  BY HandlerFit DEF SignInShapes, SetFactor, FactorsHold
<1>2. UNCHANGED <<account, setup, accepted>> /\ Done(h)
  BY DEF SetFactor, rest
<1>3. CASE Refuses(q)
  <2>1. UNCHANGED policy
    BY <1>1, <1>3 DEF SetFactor
  <2>2. FactorsHold(was)'
    BY <1>2, <2>1, FactorsEnd
  <2>3. QED
    BY <2>2
<1>4. CASE ~Refuses(q)
  <2>1. /\ policy'.epoch = policy.epoch + 1 /\ policy'.inc = q.inc /\ policy'.factor = q.seen.factor + 1
        /\ policy'.fence = policy.fence
    BY <1>1, <1>4 DEF SetFactor, SignInShapes, AccountFit
  <2>2. policy \in Policies /\ policy' \in Policies /\ policy.epoch \in Nat /\ policy.fence \in Nat /\ account.inc \in Nat
    BY AccountNumbers DEF SignInShapes, AccountFit, Policies
  <2>3. q.inc = policy.fence + 1 /\ (policy.inc = q.inc => policy.factor = q.seen.factor)
    BY <1>1, <1>4, ChangeOf
  <2>4. q.seen.factor \in Nat
    BY DEF Handled, Codes
  <2>5. SettingsOf(policy', q.inc).factor = q.seen.factor + 1
    BY <2>1, <2>2 DEF SettingsOf, Policies
  <2>6. SettingsOf(policy, q.inc).factor \in {0, q.seen.factor}
    BY <2>2, <2>3 DEF SettingsOf, Policies
  <2>7. Before(policy, policy')
    BY <2>1, <2>2, <2>3, <2>4, <2>5, <2>6 DEF Before
  <2>8. policy'.fence = FenceOf(account') /\ policy'.epoch > policy.epoch /\ account'.inc >= account.inc
    BY <1>2, <2>1, <2>2 DEF FactorsHold
  <2>9. handlers'[h] = Still /\ \A g \in Handlers \ {h} : handlers'[g] = handlers[g]
    BY <1>2, HandlerStops DEF SignInShapes
  <2>10. QED
    BY <1>2, <2>7, <2>8, <2>9, FactorsChange
<1>5. QED
  BY <1>3, <1>4

(* The change took a code of the authenticator it replaces.                *)
LEMMA SetFactorProved ==
  ASSUME SignInShapes, NEW was, FactorsHold(was), NEW h \in Handlers, SetFactor(h), Replaced
  PROVE  Proved(accepted, policy.enrol)
<1>1. PICK q \in Handled : /\ q = handlers[h] /\ q.at = "change" /\ StagesFit(q) /\ q.seen \in Codes
                           /\ FactorOf(was, account, policy, accepted, q)
  BY HandlerFit DEF SignInShapes, SetFactor, FactorsHold, Handled
<1>2. ~Refuses(q)
  BY <1>1 DEF SetFactor, Replaced
<1>3. policy'.inc = q.inc /\ policy.inc = q.inc
  BY <1>1, <1>2 DEF SetFactor, SignInShapes, AccountFit, Replaced
<1>4. /\ q.inc = policy.fence + 1 /\ q.epoch \in 0..policy.epoch /\ q.epoch = q.seen.epoch /\ q.seen.inc = q.inc
      /\ q.inc # 0 /\ was[q.epoch].fence = policy.fence /\ policy.factor = q.seen.factor
  BY <1>1, <1>2, <1>3, ChangeOf
<1>5. PICK p \in Policies : p = was[q.epoch] /\ Before(p, policy) /\ p.fence = policy.fence
  BY <1>4 DEF FactorsHold
<1>6. PICK s : s = SettingsOf(p, q.inc)
  OBVIOUS
<1>7. q.job = "confirm" /\ q.target = q.seen.target
  BY <1>1 DEF StagesFit
<1>8. q.seen.factor = s.factor
      /\ (s.method = "totp" => IF q.seen.target = "none" THEN q.seen.method = "totp" /\ q.seen.enrol = s.enrol
                                                         ELSE Proved(accepted, s.enrol))
  BY <1>1, <1>4, <1>5, <1>6, <1>7 DEF FactorOf, MadeUnder
<1>9. SettingsOf(policy, q.inc) = policy
  BY <1>3 DEF SettingsOf
<1>10. s.method = policy.method /\ s.enrol = policy.enrol
  BY <1>4, <1>5, <1>6, <1>8, <1>9 DEF Before
<1>11. policy.method = "totp"
  BY DEF Replaced
<1>12. q.seen.method = "totp" /\ q.target = "none" => Proved(accepted, q.seen.enrol)
  BY <1>1, <1>7 DEF FactorOf
<1>13. QED
  BY <1>7, <1>8, <1>10, <1>11, <1>12

(* A request that asks for a reset or to end sessions.                     *)
LEMMA FactorsPlain ==
  ASSUME SignInShapes, SignInShapes', NEW was, FactorsHold(was), UNCHANGED <<policy, setup, accepted>>,
         account'.inc = account.inc, account'.state = account.state,
         NEW h \in Handlers, NEW n, Hold(h, n), n.job \notin {"setup", "switch", "confirm"}, n.at \notin {"subject", "store"}
  PROVE  FactorsHold(was)'
<1>1. handlers'[h] = n /\ \A g \in Handlers \ {h} : handlers'[g] = handlers[g]
  BY HandlerHolds DEF SignInShapes
<1>2. FactorOf(was, account', policy, accepted', n)
  BY FactorQuiet
<1>3. QED
  BY <1>1, <1>2, FactorsMove

LEMMA SignOutFactors ==
  ASSUME SignInShapes, SignInShapes', NEW was, FactorsHold(was), NEW h \in Handlers, SignOut(h)
  PROVE  \E now : FactorsHold(now)'
<1>1. UNCHANGED <<account, setup, accepted>> /\ Done(h) /\ policy' = [policy EXCEPT !.epoch = @ + 1]
  BY DEF SignOut
<1>2. /\ policy \in Policies /\ policy' \in Policies /\ policy.epoch \in Nat /\ account.inc \in Nat
      /\ policy'.fence = policy.fence /\ policy'.inc = policy.inc /\ policy'.factor = policy.factor
      /\ policy'.method = policy.method /\ policy'.enrol = policy.enrol /\ policy'.epoch = policy.epoch + 1
  BY <1>1, AccountNumbers DEF SignInShapes, AccountFit, Policies
<1>3. Before(policy, policy')
  BY <1>2, BeforeAlike
<1>4. policy'.epoch > policy.epoch /\ account'.inc >= account.inc /\ policy'.fence = FenceOf(account')
  BY <1>1, <1>2 DEF FactorsHold
<1>5. handlers'[h] = Still /\ \A g \in Handlers \ {h} : handlers'[g] = handlers[g]
  BY <1>1, HandlerStops DEF SignInShapes
<1>6. QED
  BY <1>1, <1>3, <1>4, <1>5, FactorsChange

LEMMA ResettingFactors ==
  ASSUME SignInShapes, SignInShapes', NEW was, FactorsHold(was), NEW h \in Handlers, Resetting(h), ~SignOut(h)
  PROVE  FactorsHold(was)'
<1>1. PICK q \in Handled : q = handlers[h] /\ StagesFit(q)
  BY HandlerFit DEF SignInShapes
<1>2. CASE ResetRequest(h)
  <2>1. PICK r : r = [Still EXCEPT !.at = "previous", !.job = "request", !.inc = account.inc]
    OBVIOUS
  <2>2. account.inc \in Lives
    BY AccountNumbers DEF SignInShapes
  <2>3. r \in Handled /\ r.at = "previous" /\ r.job = "request"
    BY <2>1, <2>2, StillFits DEF Handled, Stages, Errands
  <2>4. QED
    BY <1>2, <2>1, <2>3, FactorQuiet, FactorsStart DEF ResetRequest, stores
<1>3. CASE TakePointer(h)
  <2>1. UNCHANGED <<account, policy, setup, accepted>> /\ q.at = "previous" /\ q.job = "request"
    BY <1>1, <1>3 DEF TakePointer, rest, StagesFit
  <2>2. Goes(h, "token") \/ \E t \in pointer[q.inc] : Hold(h, [q EXCEPT !.at = "drop", !.token = t])
    BY <1>1, <1>3 DEF TakePointer
  <2>3. ASSUME NEW t, Hold(h, [q EXCEPT !.at = "drop", !.token = t]) PROVE FactorsHold(was)'
    <3>1. PICK n : n = [q EXCEPT !.at = "drop", !.token = t]
      OBVIOUS
    <3>2. n.at = "drop" /\ n.job = "request"
      BY <1>1, <2>1, <3>1 DEF Handled
    <3>3. QED
      BY <2>1, <2>3, <3>1, <3>2, FactorsPlain
  <2>4. "token" \in Stages
    BY DEF Stages
  <2>5. QED
    BY <1>1, <2>1, <2>2, <2>3, <2>4, FactorsGoOn
<1>4. CASE DropToken(h)
  <2>1. /\ UNCHANGED <<account, policy, setup, accepted>> /\ q.job = "request"
        /\ (Goes(h, "token") \/ Done(h)) /\ "token" \in Stages
    BY <1>1, <1>4 DEF DropToken, rest, Stages, StagesFit
  <2>2. QED
    BY <1>1, <2>1, FactorsGoOn, FactorsEnd
<1>5. CASE CreateToken(h)
  <2>1. PICK n : n = [q EXCEPT !.at = "point", !.token = q.id]
    OBVIOUS
  <2>2. UNCHANGED <<account, policy, setup, accepted>> /\ q.at = "token" /\ Hold(h, n)
    BY <1>1, <1>5, <2>1 DEF CreateToken, rest
  <2>3. n.at = "point" /\ n.job = "request"
    BY <1>1, <2>1, <2>2 DEF Handled, StagesFit
  <2>4. QED
    BY <2>2, <2>3, FactorsPlain
<1>6. CASE PointToken(h)
  <2>1. /\ UNCHANGED <<account, policy, setup, accepted>> /\ q.job = "request"
        /\ (Goes(h, "rollback") \/ Done(h)) /\ "rollback" \in Stages
    BY <1>1, <1>6 DEF PointToken, rest, Stages, StagesFit
  <2>2. QED
    BY <1>1, <2>1, FactorsGoOn, FactorsEnd
<1>7. CASE ResetFinish(h)
  <2>1. PICK t \in tokens : Started(h, [Still EXCEPT !.at = "row", !.job = "reset", !.inc = t.inc])
    BY <1>7 DEF ResetFinish
  <2>2. PICK r : r = [Still EXCEPT !.at = "row", !.job = "reset", !.inc = t.inc]
    OBVIOUS
  <2>3. t.inc \in Lives
    BY <2>1 DEF SignInShapes, LinksFit
  <2>4. r \in Handled /\ r.at = "row" /\ r.job = "reset"
    BY <2>2, <2>3, StillFits DEF Handled, Stages, Errands
  <2>5. QED
    BY <1>7, <2>1, <2>2, <2>4, FactorQuiet, FactorsStart DEF ResetFinish
<1>8. CASE ResetRow(h)
  <2>1. PICK n : n = [q EXCEPT !.at = "rekey", !.key = account.key]
    OBVIOUS
  <2>2. UNCHANGED <<stores, rest>> /\ (Hold(h, n) \/ Done(h)) /\ q.at = "row"
    BY <1>1, <1>8, <2>1 DEF ResetRow
  <2>3. n.at = "rekey" /\ n.job = "reset"
    BY <1>1, <2>1, <2>2 DEF Handled, StagesFit
  <2>4. QED
    BY <2>2, <2>3, FactorsPlain, FactorsEnd DEF stores, rest
<1>9. CASE Rekey(h)
  <2>1. PICK n : n = [q EXCEPT !.at = "signOut", !.key = @ + 1]
    OBVIOUS
  <2>2. /\ UNCHANGED <<policy, setup, accepted>> /\ q.at = "rekey"
        /\ \/ account' = [account EXCEPT !.key = @ + 1] /\ Hold(h, n)
           \/ UNCHANGED account /\ Done(h)
    BY <1>1, <1>9, <2>1 DEF Rekey, rest
  <2>3. n.at = "signOut" /\ n.job = "reset"
    BY <1>1, <2>1, <2>2 DEF Handled, StagesFit
  <2>4. account'.inc = account.inc /\ account'.state = account.state
    BY <2>2 DEF SignInShapes, AccountFit
  <2>5. QED
    BY <2>2, <2>3, <2>4, FactorsPlain, FactorsEnd
<1>10. CASE LogoutAll(h)
  <2>1. PICK r : r = [Still EXCEPT !.at = "signOut", !.job = "logout"]
    OBVIOUS
  <2>2. r \in Handled /\ r.at = "signOut" /\ r.job = "logout"
    BY <2>1, StillFits DEF Handled, Stages, Errands
  <2>3. QED
    BY <1>10, <2>1, <2>2, FactorQuiet, FactorsStart DEF LogoutAll, stores
<1>11. QED
  BY <1>2, <1>3, <1>4, <1>5, <1>6, <1>7, <1>8, <1>9, <1>10 DEF Resetting

LEMMA DeleteAccountFactors ==
  ASSUME SignInShapes, SignInShapes', NEW was, FactorsHold(was), DeleteAccount
  PROVE  \E now : FactorsHold(now)'
<1>1. PICK h : h \notin Handlers
  BY NoSetContainsEverything
<1>2. UNCHANGED <<handlers, accepted>>
  BY DEF DeleteAccount
<1>3. /\ policy \in Policies /\ policy' \in Policies /\ policy.epoch \in Nat /\ policy.fence \in Nat
      /\ account.inc \in Nat /\ account'.inc \in Nat /\ policy.fence = FenceOf(account)
  BY AccountNumbers, AccountNumbersNext DEF SignInShapes, AccountFit, Policies, FactorsHold
<1>4. CASE account.state = "live" /\ account' = [account EXCEPT !.state = "deleting"] /\ UNCHANGED <<policy, setup>>
  <2>1. account'.inc = account.inc /\ account'.state = "deleting"
    BY <1>4 DEF SignInShapes, AccountFit
  <2>2. policy'.fence = FenceOf(account') /\ account'.inc >= account.inc /\ policy'.epoch >= policy.epoch
    BY <1>3, <1>4, <2>1 DEF FenceOf
  <2>3. Before(policy, policy')
    BY <1>3, <1>4, BeforeSame
  <2>4. was \in [Nat -> Policies] /\ was[policy'.epoch] = policy'
    BY <1>4 DEF FactorsHold
  <2>5. \A e \in Nat : ~(e > policy.epoch /\ e <= policy'.epoch)
    BY <1>3, <1>4
  <2>6. FactorsHold(was)'
    BY <1>1, <1>2, <1>4, <2>2, <2>3, <2>4, <2>5, FactorsGo
  <2>7. QED
    BY <2>6
<1>5. CASE /\ account.state = "deleting" /\ account' = [account EXCEPT !.state = "none"]
           /\ policy' = [policy EXCEPT !.epoch = @ + 2, !.inc = 0, !.factor = 0, !.method = "none",
                                       !.enrol = 0, !.fence = @ + 1]
           /\ setup' = [setup EXCEPT ![account.inc] = NoCode]
  <2>1. account'.inc = account.inc /\ account'.state = "none"
    BY <1>5 DEF SignInShapes, AccountFit
  <2>2. policy'.epoch = policy.epoch + 2 /\ policy'.fence = policy.fence + 1
    BY <1>5 DEF SignInShapes, AccountFit
  <2>3. policy'.fence = FenceOf(account') /\ account'.inc >= account.inc /\ policy'.epoch > policy.epoch
    BY <1>3, <1>5, <2>1, <2>2 DEF FenceOf
  <2>4. Before(policy, policy')
    BY <1>3, <2>2 DEF Before
  <2>5. \A i \in Lives : setup'[i] = setup[i] \/ setup'[i] = NoCode
    BY <1>5 DEF SignInShapes, ChallengesFit
  <2>6. QED
    BY <1>1, <1>2, <2>3, <2>4, <2>5, FactorsChange
<1>6. CASE /\ account.state = "none" /\ account' = [inc |-> account.inc + 1, state |-> "live", key |-> 1]
           /\ policy' = [policy EXCEPT !.epoch = @ + 1] /\ UNCHANGED setup
  <2>1. /\ policy'.fence = policy.fence /\ policy'.inc = policy.inc /\ policy'.factor = policy.factor
        /\ policy'.method = policy.method /\ policy'.enrol = policy.enrol /\ policy'.epoch = policy.epoch + 1
    BY <1>6 DEF SignInShapes, AccountFit
  <2>2. Before(policy, policy')
    BY <1>3, <2>1, BeforeAlike
  <2>3. policy'.fence = FenceOf(account') /\ account'.inc >= account.inc /\ policy'.epoch > policy.epoch
    BY <1>3, <1>6, <2>1 DEF FenceOf
  <2>4. QED
    BY <1>1, <1>2, <1>6, <2>2, <2>3, FactorsChange
<1>7. QED
  BY <1>4, <1>5, <1>6 DEF DeleteAccount

LEMMA FactorsStep ==
  ASSUME SignInShapes, SignInShapes', NEW was, FactorsHold(was), [SignInNext]_signInVars
  PROVE  \E now : FactorsHold(now)'
<1>1. ASSUME NEW h \in Handlers, Resetting(h) PROVE \E now : FactorsHold(now)'
  BY <1>1, ResettingFactors, SignOutFactors
<1>2. ASSUME NEW h \in Handlers, SettingUp(h) PROVE \E now : FactorsHold(now)'
  BY <1>2, TwoFaSetupFactors, SetupAccountFactors, StoreSetupFactors, ConfirmAccountFactors, OpenSetupFactors,
     SetFactorFactors DEF SettingUp
<1>3. ASSUME NEW h \in Handlers, Signing(h) \/ Coding(h) PROVE \E now : FactorsHold(now)'
  BY <1>3, SigningFactors, CodingFactors
<1>4. ASSUME NEW h \in Handlers, Fail(h) PROVE \E now : FactorsHold(now)'
  <2>1. UNCHANGED <<account, policy, setup, accepted>> /\ Done(h)
    BY <1>4 DEF Fail, stores
  <2>2. QED
    BY <2>1, FactorsEnd
<1>5. CASE Logout \/ UNCHANGED signInVars
  <2>1. PICK h : h \notin Handlers
    BY NoSetContainsEverything
  <2>2. UNCHANGED <<account, policy, setup, accepted, handlers>>
    BY <1>5 DEF Logout, signInVars
  <2>3. FactorsHold(was)'
    BY <2>1, <2>2, FactorsMove
  <2>4. QED
    BY <2>3
<1>6. QED
  BY <1>1, <1>2, <1>3, <1>4, <1>5, DeleteAccountFactors DEF SignInNext

LEMMA FactorsBegin == SignInInit => \E was : FactorsHold(was)
<1> SUFFICES ASSUME SignInInit PROVE \E was : FactorsHold(was)
  OBVIOUS
<1>1. PICK m \in Methods :
       /\ policy = [epoch |-> 1, inc |-> 1, factor |-> 1, method |-> m, enrol |-> 0, fence |-> 0]
       /\ setup = [i \in Lives |->
            IF i = 1 /\ m = "none"
            THEN [NoCode EXCEPT !.epoch = 1, !.inc = 1, !.method = "totp", !.target = "totp", !.factor = 1]
            ELSE NoCode]
  BY DEF SignInInit
<1>2. SignInShapes /\ policy \in Policies
  BY SignInShapesStart DEF SignInShapes, AccountFit, Policies
<1>3. PICK was : was = [e \in Nat |-> policy]
  OBVIOUS
<1>4. was \in [Nat -> Policies] /\ (\A e \in Nat : was[e] = policy) /\ policy.epoch = 1 /\ 1 \in Nat
  BY <1>1, <1>2, <1>3
<1>5. \A e \in 0..policy.epoch : Before(was[e], policy)
  BY <1>2, <1>4, BeforeSame
<1>6. policy.fence = FenceOf(account)
  BY <1>1 DEF SignInInit, FenceOf
<1>7. PICK d : d = [NoCode EXCEPT !.epoch = 1, !.inc = 1, !.method = "totp", !.target = "totp", !.factor = 1]
  OBVIOUS
<1>8. d.epoch = 1 /\ d.inc = 1 /\ d.factor = 1
  BY <1>7 DEF NoCode
<1>9. m = "none" => MadeUnder(was, policy, accepted, d)
  <2>1. SettingsOf(policy, 1) = policy
    BY <1>1 DEF SettingsOf
  <2>2. policy.factor = 1 /\ policy.method = m
    BY <1>1
  <2>3. QED
    BY <1>4, <1>8, <2>1, <2>2 DEF MadeUnder
<1>10. \A i \in Lives : MadeUnder(was, policy, accepted, setup[i])
  <2>1. ASSUME NEW i \in Lives PROVE (setup[i] = d /\ m = "none") \/ setup[i] = NoCode
    BY <1>1, <1>7
  <2>2. QED
    BY <1>9, <2>1, StillFactor
<1>11. \A h \in Handlers : FactorOf(was, account, policy, accepted, handlers[h])
  BY StillFactor DEF SignInInit
<1>12. QED
  BY <1>4, <1>5, <1>6, <1>10, <1>11 DEF FactorsHold

(* What replaces an authenticator in force is a change of the factor.      *)
LEMMA ReplacedBy ==
  ASSUME SignInShapes, NEW was, FactorsHold(was), SignInNext, Replaced
  PROVE  Proved(accepted, policy.enrol)
<1>1. policy.method = "totp" /\ policy'.inc = policy.inc /\ (policy'.method # "totp" \/ policy'.enrol # policy.enrol)
  BY DEF Replaced
<1>2. ASSUME NEW h \in Handlers, SignOut(h) PROVE FALSE
  <2>1. policy' = [policy EXCEPT !.epoch = @ + 1]
    BY <1>2 DEF SignOut
  <2>2. QED
    BY <1>1, <2>1 DEF SignInShapes, AccountFit
<1>3. CASE DeleteAccount
  <2>1. \/ UNCHANGED policy
        \/ policy' = [policy EXCEPT !.epoch = @ + 1]
        \/ policy' = [policy EXCEPT !.epoch = @ + 2, !.inc = 0, !.factor = 0, !.method = "none",
                                    !.enrol = 0, !.fence = @ + 1]
    BY <1>3 DEF DeleteAccount
  <2>2. CASE policy' = [policy EXCEPT !.epoch = @ + 1]
    BY <1>1, <2>2 DEF SignInShapes, AccountFit
  <2>3. CASE policy' = [policy EXCEPT !.epoch = @ + 2, !.inc = 0, !.factor = 0, !.method = "none",
                                      !.enrol = 0, !.fence = @ + 1]
    <3>1. policy'.inc = 0
      BY <2>3 DEF SignInShapes, AccountFit
    <3>2. QED
      BY <1>1, <3>1 DEF SignInShapes, AccountFit
  <2>4. QED
    BY <1>1, <2>1, <2>2, <2>3
<1>4. ASSUME NEW h \in Handlers, Signing(h) PROVE FALSE
  BY <1>1, <1>4 DEF Signing, LoginStart, CreateChallenge, LoginFinish, VerifyLogin, FinishLogin, stores
<1>5. ASSUME NEW h \in Handlers, Coding(h) PROVE FALSE
  BY <1>1, <1>5 DEF Coding, TwoFaVerify, Wrong, ReadCounter, Count, Consume, Recheck, MintSecond, stores
<1>6. ASSUME NEW h \in Handlers, SettingUp(h) PROVE SetFactor(h)
  BY <1>1, <1>6 DEF SettingUp, TwoFaSetup, SetupAccount, StoreSetup, TwoFaSetupVerify, ConfirmAccount, OpenSetup, stores
<1>7. ASSUME NEW h \in Handlers, Resetting(h) PROVE SignOut(h)
  BY <1>1, <1>7 DEF Resetting, ResetRequest, TakePointer, DropToken, CreateToken, PointToken, ResetFinish, ResetRow,
     Rekey, LogoutAll, stores
<1>8. ~Logout /\ \A h \in Handlers : ~Fail(h)
  BY <1>1 DEF Logout, Fail, stores
<1>9. QED
  BY <1>2, <1>3, <1>4, <1>5, <1>6, <1>7, <1>8, SetFactorProved DEF SignInNext

(* An authenticator in force is removed or replaced only after one of its  *)
(* own codes was accepted for it, whatever changes race.                   *)
THEOREM SignInFactors == SignInSpec => FactorProved
<1>1. SignInInit => SignInShapes /\ (\E was : FactorsHold(was))
  BY SignInShapesStart, FactorsBegin
<1>2. SignInShapes /\ (\E was : FactorsHold(was)) /\ [SignInNext]_signInVars
        => SignInShapes' /\ (\E was : FactorsHold(was))'
  <2> SUFFICES ASSUME SignInShapes, NEW was, FactorsHold(was), [SignInNext]_signInVars
               PROVE  SignInShapes' /\ \E now : FactorsHold(now)'
    OBVIOUS
  <2>1. SignInShapes'
    BY SignInShapesStep
  <2>2. QED
    BY <2>1, FactorsStep
<1>3. SignInShapes /\ (\E was : FactorsHold(was)) /\ [SignInNext]_signInVars
        => [Replaced => \E c \in accepted : c.enrol = policy.enrol /\ c.for = "proof"]_signInVars
  BY ReplacedBy DEF Proved
<1>4. QED
  BY <1>1, <1>2, <1>3, PTL DEF SignInSpec, FactorProved
=============================================================================
