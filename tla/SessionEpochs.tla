---------------------------- MODULE SessionEpochs ----------------------------
(***************************************************************************)
(* The session generations of one identity in one realm                    *)
(* (src/server/auth/SessionEpochs.ts), the requests that read and advance  *)
(* them, and the erasure of their history when the account is deleted      *)
(* (src/server/auth/AuthMaintenance.ts).                                   *)
(*                                                                         *)
(* Generation k is committed by the claim of a unique key; a head document *)
(* that only saves probes lags behind.  Every request runs alone in its    *)
(* instance and meets the others at its database calls: one action is one  *)
(* call and the local work up to the next.  Any request may die between    *)
(* two calls.                                                              *)
(***************************************************************************)
EXTENDS Naturals, FiniteSets

CONSTANTS
  Requests,     (* requests that may run at the same time                *)
  ScanLimit,    (* probes of SessionEpochs.read beyond the head: 8       *)
  Attempts,     (* tries of a revocation, change or activation: 3        *)
  MaxRequests   (* bound: requests that ever begin                       *)

ASSUME EpochAssumption ==
  /\ ScanLimit \in Nat \ {0} /\ Attempts \in Nat \ {0} /\ MaxRequests \in Nat

VARIABLES
  claims,    (* epochRevisions: the owner of each generation, or Zero    *)
  head,      (* epochHeads: the last generation saved, or Zero           *)
  row,       (* the account: its incarnation, and where its life stands  *)
  markers,   (* deletedAccounts: erasure progress of each incarnation    *)
  sessions,  (* generations that signed sessions were minted with        *)
  req,       (* the requests                                             *)
  begun,     (* requests that have begun                                 *)
  granted    (* history: factor changes acknowledged to this incarnation,*)
             (* and whether a claim ever came too late: a deletion's     *)
             (* fence after its row was gone, or the claim of a          *)
             (* generation that an erasure had taken out                 *)

epochVars == <<claims, head, row, markers, sessions, req, begun, granted>>

(* Bounds: a request claims three generations and makes one row at most, *)
(* so neither is used up.                                                  *)
Revisions    == 1..(3 * MaxRequests + 1)
Incarnations == 1..(MaxRequests + 1)

(* The record of a generation.  `name' is the incarnation that the factor  *)
(* policy belongs to and `factor' its revision; a policy of nobody is 0.   *)
Zero == [revision |-> 0, name |-> 0, factor |-> 0, fence |-> 0,
         deleting |-> FALSE, generation |-> 0]

Free(k) == k \notin Revisions \/ claims[k] = Zero

(* SessionEpochs.successor: the next generation keeps the factor policy.   *)
(* Mutant: the next generation drops the factor.                           *)
ForgetfulSuccessor(e) == [e EXCEPT !.revision = @ + 1, !.name = 0, !.factor = 0]
Successor(e)          == [e EXCEPT !.revision = @ + 1]

(* beginDeletion, activate, changeFactor and eraseFactors: what they claim.*)
Fenced(e)    == [Zero EXCEPT !.revision = e.revision + 1, !.fence = e.fence + 1,
                             !.deleting = TRUE, !.generation = e.revision]
Activated(e) == [Successor(e) EXCEPT !.deleting = FALSE, !.generation = 0]
Changed(e, inc, f) == [Successor(e) EXCEPT !.name = inc, !.factor = f]
Anonymous(k, e)    == [Zero EXCEPT !.revision = k, !.fence = e.fence,
                                   !.deleting = TRUE, !.generation = e.generation]

Kinds == {"app", "logoutAll", "factor", "delete", "login", "reset", "job", "register"}
WithSession == {"app", "logoutAll", "factor", "delete"}

(* A request: `at' is its next call, `then' what follows the read of the   *)
(* generation it is in, `seen' the snapshot it will compare with.          *)
Idle == [kind |-> "none", at |-> "idle", then |-> "none", gen |-> 0, floor |-> 0, born |-> 0,
         seen |-> Zero, epoch |-> Zero, looked |-> 0, tries |-> 0,
         verified |-> Zero, inc |-> 0, cursor |-> 0, mark |-> 0]

EpochInit ==
  /\ claims = [k \in Revisions |-> Zero] /\ head = Zero
  /\ row = [inc |-> 1, state |-> "live"]
  /\ markers = [i \in Incarnations |-> [cursor |-> 0, erased |-> FALSE]]
  /\ sessions = {0}
  /\ req = [r \in Requests |-> Idle]
  /\ begun = 0 /\ granted = [changes |-> 0, late |-> FALSE]

Set(r, rec)  == req' = [req EXCEPT ![r] = rec]
Finish(r)    == Set(r, Idle)
Read(q, purpose) == [q EXCEPT !.at = "head", !.then = purpose, !.seen = Zero,
                              !.epoch = Zero, !.looked = 0]

(* The last generation committed: history of what a request began after.   *)
Top == LET used == {k \in Revisions : ~Free(k)}
       IN IF used = {} THEN Zero
          ELSE claims[CHOOSE k \in used : \A j \in used : j <= k]

(***************************************************************************)
(* Requests.  Some begin by verifying a session; a login reads the account,*)
(* a reset or a job revokes without one, a registration finds the row      *)
(* absent, being deleted or pending.                                       *)
(***************************************************************************)
Deletes(q) == [Idle EXCEPT !.kind = q.kind, !.inc = row.inc, !.born = q.born,
                        !.mark = IF markers[row.inc].cursor = 0 THEN 1 ELSE markers[row.inc].cursor]

(* finishDeletion: eraseFactors is skipped when the marker says it is done.*)
Cleanup(q) == Read(Deletes(q), IF markers[row.inc].erased THEN "revoke" ELSE "fence")

MarkDeleting ==
  /\ row' = [row EXCEPT !.state = "deleting"]
  /\ markers' = [markers EXCEPT ![row.inc].cursor = IF @ = 0 THEN 1 ELSE @]

Began(r, q) ==
  /\ begun' = begun + 1
  /\ Set(r, IF q.then = "verify" THEN [q EXCEPT !.floor = Top.revision, !.born = row.inc] ELSE q)

Begin(r) ==
  /\ req[r].at = "idle" /\ begun < MaxRequests
  /\ \E k \in Kinds : LET q == [Idle EXCEPT !.kind = k] IN
       \/ /\ k \in WithSession
          /\ \E g \in sessions : Began(r, Read([q EXCEPT !.gen = g], "verify"))
          /\ UNCHANGED <<row, markers>>
       \/ /\ k = "login" /\ row.state = "live"
          /\ Began(r, Read([q EXCEPT !.inc = row.inc], "mint"))
          /\ UNCHANGED <<row, markers>>
       \/ /\ k = "reset" /\ row.state = "live"
          /\ Began(r, Read(q, "revoke"))
          /\ UNCHANGED <<row, markers>>
       \/ /\ k = "job" /\ row.state \in {"live", "deleting"}
          /\ Began(r, Cleanup(q)) /\ MarkDeleting
       \/ /\ k = "register" /\ row.state = "deleting"
          /\ Began(r, Cleanup(q)) /\ MarkDeleting
       \/ /\ k = "register" /\ row.state = "registering"
          /\ Began(r, Read([q EXCEPT !.inc = row.inc], "activate"))
          /\ UNCHANGED <<row, markers>>
       \/ /\ k = "register" /\ row.state = "none"
          /\ Began(r, [q EXCEPT !.at = "enrol"])
          /\ UNCHANGED <<row, markers>>
  /\ UNCHANGED <<claims, head, sessions, granted>>

(***************************************************************************)
(* SessionEpochs.read: the head, then one probe per generation beyond it.  *)
(***************************************************************************)
ReadHead(r) ==
  /\ req[r].at = "head"
  /\ Set(r, [req[r] EXCEPT !.at = "probe", !.seen = head, !.epoch = head, !.looked = 0])
  /\ UNCHANGED <<claims, head, row, markers, sessions, begun, granted>>

(* Mutant: the head is trusted, and nothing after it is looked at.         *)
TrustHead(r) ==
  /\ req[r].at = "probe" /\ Set(r, [req[r] EXCEPT !.at = "read"])
  /\ UNCHANGED <<claims, head, row, markers, sessions, begun, granted>>

Probe(r) ==
  LET q == req[r]
      k == q.epoch.revision + 1
  IN /\ q.at = "probe"
     /\ \/ /\ Free(k)
           /\ Set(r, [q EXCEPT !.at = IF q.epoch # q.seen THEN "repair" ELSE "read"])
        \/ /\ ~Free(k)
           /\ Set(r, [q EXCEPT !.epoch = claims[k], !.looked = @ + 1,
                               !.at = IF q.looked + 1 = ScanLimit THEN "recover" ELSE "probe"])
     /\ UNCHANGED <<claims, head, row, markers, sessions, begun, granted>>

(* The head is moved by compare-exchange; a scan cut short moves it too,   *)
(* and fails.                                                              *)
Repair(r) ==
  /\ req[r].at \in {"repair", "recover"}
  /\ head' = IF head = req[r].seen THEN req[r].epoch ELSE head
  /\ IF req[r].at = "repair" THEN Set(r, [req[r] EXCEPT !.at = "read"]) ELSE Finish(r)
  /\ UNCHANGED <<claims, row, markers, sessions, begun, granted>>

(* A query may not write: it uses what it read and leaves the head behind. *)
ReadOnly(r) ==
  /\ req[r].at = "repair" /\ req[r].kind = "app"
  /\ Set(r, [req[r] EXCEPT !.at = "read"])
  /\ UNCHANGED <<claims, head, row, markers, sessions, begun, granted>>

(***************************************************************************)
(* verifySession, and what an authorised request goes on to do.            *)
(***************************************************************************)
Accepts(q) ==
  IF q.epoch.deleting THEN q.kind = "delete" /\ q.gen = q.epoch.generation
                      ELSE q.gen = q.epoch.revision

Verify(r) ==
  LET q == req[r]
  IN /\ q.at = "read" /\ q.then = "verify"
     /\ IF Accepts(q) THEN Set(r, [q EXCEPT !.at = "accepted", !.verified = q.epoch])
                      ELSE Finish(r)
     /\ UNCHANGED <<claims, head, row, markers, sessions, begun, granted>>

Authorised(r) ==
  LET q == req[r]
  IN /\ q.at = "accepted"
     /\ \/ q.kind = "app" /\ Finish(r) /\ UNCHANGED <<row, markers>>
        \/ /\ q.kind = "logoutAll" /\ Set(r, Read([Idle EXCEPT !.kind = q.kind], "revoke"))
           /\ UNCHANGED <<row, markers>>
        \/ /\ q.kind = "factor"
           /\ IF row.state = "live" THEN Set(r, Read([Idle EXCEPT !.kind = q.kind, !.inc = row.inc,
                                                              !.verified = q.verified], "change"))
                                    ELSE Finish(r)
           /\ UNCHANGED <<row, markers>>
        \/ /\ q.kind = "delete" /\ row.state # "none"
           /\ Set(r, Cleanup(q)) /\ MarkDeleting
        \/ q.kind = "delete" /\ row.state = "none" /\ Finish(r) /\ UNCHANGED <<row, markers>>
     /\ UNCHANGED <<claims, head, sessions, begun, granted>>

(* A login mints with the generation read before the credential is checked.*)
Mint(r) ==
  LET q == req[r]
  IN /\ q.at = "read" /\ q.then = "mint"
     /\ sessions' = IF row = [inc |-> q.inc, state |-> "live"]
                    THEN sessions \cup {q.epoch.revision} ELSE sessions
     /\ Finish(r)
     /\ UNCHANGED <<claims, head, row, markers, begun, granted>>

(***************************************************************************)
(* The claims.  A lost claim starts over with a fresh scan.                *)
(***************************************************************************)
Lost(r) ==
  /\ IF req[r].tries + 1 = Attempts THEN Finish(r)
     ELSE Set(r, Read([req[r] EXCEPT !.tries = @ + 1], req[r].then))
  /\ UNCHANGED claims

Won(r, e, next) ==
  /\ e.revision \in Revisions
  /\ claims' = [claims EXCEPT ![e.revision] = e]
  /\ Set(r, [req[r] EXCEPT !.at = next, !.epoch = e, !.tries = 0, !.seen = Zero, !.looked = 0])

TooLate(e) == e.revision < Top.revision

Noted(e) == granted' = [granted EXCEPT !.late = @ \/ TooLate(e)]

Revoke(r) ==
  LET next == Successor(req[r].epoch)
  IN /\ req[r].at = "read" /\ req[r].then = "revoke"
     /\ IF Free(next.revision) THEN Won(r, next, "publish") /\ Noted(next)
                               ELSE Lost(r) /\ UNCHANGED granted
     /\ UNCHANGED <<head, row, markers, sessions, begun>>

(* SessionEpochs.changeFactor: the policy and the revocation in one claim. *)
Stale(q) ==
  LET expected == IF q.verified.name = q.inc THEN q.verified.factor ELSE 0
  IN \/ q.epoch.deleting \/ q.epoch.fence # q.verified.fence
     \/ q.epoch.name = q.inc /\ q.epoch.factor # expected

ChangeFactor(r) ==
  LET q == req[r]
      expected == IF q.verified.name = q.inc THEN q.verified.factor ELSE 0
      next == Changed(q.epoch, q.inc, expected + 1)
  IN /\ q.at = "read" /\ q.then = "change"
     /\ \/ Stale(q) /\ Finish(r) /\ UNCHANGED <<claims, granted>>
        \/ /\ ~Stale(q) /\ Free(next.revision) /\ next.revision \in Revisions
           /\ claims' = [claims EXCEPT ![next.revision] = next]
           /\ granted' = [changes |-> granted.changes + IF row.inc = q.inc THEN 1 ELSE 0,
                           late |-> granted.late \/ TooLate(next)]
           /\ Finish(r)
        \/ ~Stale(q) /\ ~Free(next.revision) /\ Lost(r) /\ UNCHANGED granted
     /\ UNCHANGED <<head, row, markers, sessions, begun>>

BeginDeletion(r) ==
  LET q == req[r]
      next == Fenced(q.epoch)
  IN /\ q.at = "read" /\ q.then = "fence"
     /\ \/ /\ q.epoch.deleting /\ Set(r, [q EXCEPT !.at = "publish", !.tries = 0])
           /\ UNCHANGED <<claims, granted>>
        \/ /\ ~q.epoch.deleting /\ Free(next.revision) /\ Won(r, next, "publish")
           /\ granted' = [granted EXCEPT !.late = @ \/ TooLate(next)
                                                   \/ row # [inc |-> q.inc, state |-> "deleting"]]
        \/ ~q.epoch.deleting /\ ~Free(next.revision) /\ Lost(r) /\ UNCHANGED granted
     /\ UNCHANGED <<head, row, markers, sessions, begun>>

Activate(r) ==
  LET q == req[r]
      next == Activated(q.epoch)
  IN /\ q.at = "read" /\ q.then = "activate"
     /\ \/ /\ ~q.epoch.deleting /\ UNCHANGED <<claims, granted>>
           /\ Set(r, [q EXCEPT !.at = "enable", !.seen = Zero, !.looked = 0])
        \/ q.epoch.deleting /\ Free(next.revision) /\ Won(r, next, "enable") /\ Noted(next)
        \/ q.epoch.deleting /\ ~Free(next.revision) /\ Lost(r) /\ UNCHANGED granted
     /\ UNCHANGED <<head, row, markers, sessions, begun>>

(***************************************************************************)
(* The head after a revocation (one try) and after the fence of a deletion *)
(* (publishDeletion, until the head is not behind).                        *)
(***************************************************************************)
Published(q) ==
  CASE q.then = "fence"                       -> [q EXCEPT !.at = "erase", !.cursor = q.mark]
    [] q.then = "revoke" /\ q.kind \in {"delete", "job", "register"}
         -> [Idle EXCEPT !.kind = q.kind, !.inc = q.inc, !.born = q.born, !.at = "remove"]
    [] OTHER                                  -> Idle

PublishHead(r) ==
  LET q == req[r]
  IN /\ q.at = "publish"
     /\ Set(r, IF head.revision >= q.epoch.revision THEN Published(q)
               ELSE [q EXCEPT !.at = "swap", !.seen = head])
     /\ UNCHANGED <<claims, head, row, markers, sessions, begun, granted>>

SwapHead(r) ==
  LET q == req[r]
  IN /\ q.at = "swap"
     /\ \/ head = q.seen /\ head' = q.epoch /\ Set(r, Published(q))
        \/ head # q.seen /\ q.then = "revoke" /\ Set(r, Published(q)) /\ UNCHANGED head
        \/ /\ head # q.seen /\ q.then = "fence" /\ UNCHANGED head
           /\ IF q.tries + 1 = Attempts THEN Finish(r)
              ELSE Set(r, [q EXCEPT !.at = "publish", !.tries = @ + 1])
     /\ UNCHANGED <<claims, row, markers, sessions, begun, granted>>

(***************************************************************************)
(* eraseFactors: every generation before the fence that names a factor is  *)
(* released and claimed again, anonymous; the marker remembers how far.    *)
(***************************************************************************)
EraseLook(r) ==
  LET q == req[r]
      previous == claims[q.cursor]
  IN /\ q.at = "erase" /\ q.cursor < q.epoch.revision
     /\ Set(r, IF previous = Zero THEN [q EXCEPT !.at = "fill"]
               ELSE IF previous.name = 0 THEN [q EXCEPT !.cursor = @ + 1]
               ELSE [q EXCEPT !.at = "release", !.seen = previous])
     /\ UNCHANGED <<claims, head, row, markers, sessions, begun, granted>>

EraseRelease(r) ==
  LET q == req[r]
      free == [claims EXCEPT ![q.cursor] = Zero]
  IN /\ q.at = "release"
     /\ IF claims[q.cursor] \in {q.seen, Zero}
        THEN claims' = free /\ Set(r, [q EXCEPT !.at = "fill"])
        ELSE Finish(r) /\ UNCHANGED claims
     /\ UNCHANGED <<head, row, markers, sessions, begun, granted>>

EraseFill(r) ==
  LET q == req[r]
      anonymous == [claims EXCEPT ![q.cursor] = Anonymous(q.cursor, q.epoch)]
  IN /\ q.at = "fill"
     /\ IF Free(q.cursor)
        THEN claims' = anonymous /\ Set(r, [q EXCEPT !.at = "erase", !.cursor = @ + 1])
        ELSE Finish(r) /\ UNCHANGED claims
     /\ UNCHANGED <<head, row, markers, sessions, begun, granted>>

(* The budget of the request ends: progress is saved, the request fails.   *)
ErasePause(r) ==
  LET q == req[r]
  IN /\ q.at = "erase" /\ q.cursor < q.epoch.revision /\ q.cursor > q.mark
     /\ markers' = IF markers[q.inc] = [cursor |-> q.mark, erased |-> FALSE]
                   THEN [markers EXCEPT ![q.inc].cursor = q.cursor] ELSE markers
     /\ Finish(r)
     /\ UNCHANGED <<claims, head, row, sessions, begun, granted>>

EraseDone(r) ==
  LET q == req[r]
  IN /\ q.at = "erase" /\ q.cursor >= q.epoch.revision
     /\ IF markers[q.inc] = [cursor |-> q.mark, erased |-> FALSE]
        THEN /\ markers' = [markers EXCEPT ![q.inc] = [cursor |-> q.cursor, erased |-> TRUE]]
             /\ Set(r, Read(q, "revoke"))
        ELSE Finish(r) /\ UNCHANGED markers
     /\ UNCHANGED <<claims, head, row, sessions, begun, granted>>

(* The row goes last; a registration that found it goes on with its own.   *)
RemoveRow(r) ==
  LET q == req[r]
  IN /\ q.at = "remove"
     /\ row' = IF row = [inc |-> q.inc, state |-> "deleting"]
               THEN [row EXCEPT !.state = "none"] ELSE row
     /\ IF q.kind = "register" THEN Set(r, [q EXCEPT !.at = "enrol"]) ELSE Finish(r)
     /\ UNCHANGED <<claims, head, markers, sessions, begun, granted>>

Enrol(r) ==
  /\ req[r].at = "enrol"
  /\ IF row.state = "none"
     THEN /\ row.inc + 1 \in Incarnations
          /\ row' = [inc |-> row.inc + 1, state |-> "registering"]
          /\ granted' = [granted EXCEPT !.changes = 0]
          /\ Set(r, Read([req[r] EXCEPT !.inc = row.inc + 1, !.tries = 0], "activate"))
     ELSE Finish(r) /\ UNCHANGED <<row, granted>>
  /\ UNCHANGED <<claims, head, markers, sessions, begun>>

Enable(r) ==
  /\ req[r].at = "enable"
  /\ row' = IF row = [inc |-> req[r].inc, state |-> "registering"]
            THEN [row EXCEPT !.state = "live"] ELSE row
  /\ Finish(r)
  /\ UNCHANGED <<claims, head, markers, sessions, begun, granted>>

(* A trap, an exhausted budget or a lost process ends a request anywhere.  *)
Die(r) ==
  /\ req[r].at # "idle" /\ Finish(r)
  /\ UNCHANGED <<claims, head, row, markers, sessions, begun, granted>>

Reading(r)  == ReadHead(r) \/ Probe(r) \/ Repair(r) \/ ReadOnly(r)
Claiming(r) == Revoke(r) \/ ChangeFactor(r) \/ BeginDeletion(r) \/ Activate(r)
Erasing(r)  == EraseLook(r) \/ EraseRelease(r) \/ EraseFill(r) \/ ErasePause(r) \/ EraseDone(r)

EpochStep(r) ==
  \/ Begin(r) \/ Reading(r) \/ Verify(r) \/ Authorised(r) \/ Mint(r) \/ Claiming(r)
  \/ PublishHead(r) \/ SwapHead(r) \/ Erasing(r) \/ RemoveRow(r) \/ Enrol(r) \/ Enable(r) \/ Die(r)

EpochNext == \E r \in Requests : EpochStep(r)

EpochSpec == EpochInit /\ [][EpochNext]_epochVars

Epochs == [revision: Nat, name: Nat, factor: Nat, fence: Nat, deleting: BOOLEAN, generation: Nat]

(* The shapes, and each claimed generation under its own number.           *)
EpochTypeOK ==
  /\ \A k \in Revisions : claims[k] \in Epochs /\ claims[k].revision \in {0, k}
  /\ head \in Epochs
  /\ row \in [inc: Nat, state: {"live", "deleting", "none", "registering"}]
  /\ markers \in [Incarnations -> [cursor: Nat, erased: BOOLEAN]]
  /\ sessions \subseteq Nat /\ begun \in 0..MaxRequests
  /\ granted \in [changes: Nat, late: BOOLEAN]
  /\ \A r \in Requests : req[r].epoch \in Epochs /\ req[r].seen \in Epochs
                        /\ req[r].kind \in Kinds \cup {"none"}

(* The history of a deleted account was erased under the scan of r: r read *)
(* the head before the fence of that deletion was in it.                   *)
Overtaken(r) ==
  \E k \in Revisions : /\ claims[k].deleting
                       /\ req[r].seen.revision <= claims[k].generation

(* A session of a generation that ended before the request began is not    *)
(* accepted, whatever heads lag and scans interleave: logout of all        *)
(* sessions, password reset, a changed factor and deletion all end it      *)
(* (verifySession, SessionEpochs.read).  The exception is a scan overtaken *)
(* by the erasure of the deleted account's history.                        *)
RevokedStaysOut ==
  \A r \in Requests :
    req[r].at = "accepted" /\ ~req[r].verified.deleting
      => req[r].gen >= req[r].floor \/ Overtaken(r)

(* While the account lives, the policy in force is the last acknowledged   *)
(* factor change and no acknowledged change was lost or answered twice:    *)
(* revocations keep the policy they did not read a newer one over          *)
(* (SessionEpochs.changeFactor, successor).  The exceptions are a deletion *)
(* that another request overtook, whose fence, claimed after the account   *)
(* was registered again, drops the policy of the new incarnation; and a    *)
(* claim in the midst of the history that an erasure is taking out, which  *)
(* makes a fence under the number of a later one, so that a change that    *)
(* was authorised there passes for one of an account registered since.     *)
FactorStands ==
  row.state = "live" /\ ~Top.deleting /\ ~granted.late
    => IF Top.name = row.inc THEN granted.changes = Top.factor ELSE granted.changes = 0

(* A deletion removes the account that was there when its request began,   *)
(* never one registered since under the same name and password             *)
(* (Auth.deleteAccount; docs/auth/configuration.md:214).                   *)
ReplacementSurvives ==
  \A r \in Requests : req[r].kind = "delete" /\ req[r].inc # 0 => req[r].inc = req[r].born
=============================================================================
