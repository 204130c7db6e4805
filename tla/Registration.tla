---------------------------- MODULE Registration ----------------------------
(***************************************************************************)
(* Account names, e-mail addresses and the identity index of one realm     *)
(* (src/server/auth/AuthController.ts, AuthMaintenance.ts): registration,  *)
(* with a password or by Google, and deletion.                             *)
(*                                                                         *)
(* The three collections are written one compare-exchange at a time, and   *)
(* any request may die between two of them; the next request for the name  *)
(* finishes or undoes what it finds.  One action is one database call and  *)
(* the local work up to the next.  An identity here is the name: a person  *)
(* who registers a name again uses the same password.  What registration   *)
(* does to the session generations is in SessionEpochs.                    *)
(***************************************************************************)
EXTENDS Naturals

CONSTANTS
  Names, Emails,
  Registrants,     (* requests that may run at the same time             *)
  IndexTries,      (* tries of the index's compare-exchange: 4           *)
  MaxRegistrants   (* bound: requests that ever begin                    *)

ASSUME RegistrationAssumption == IndexTries \in Nat \ {0} /\ MaxRegistrants \in Nat

VARIABLES
  accounts,   (* accounts: the row of each name                          *)
  emails,     (* emails: which incarnation of which name owns an address *)
  index,      (* userAccounts: the incarnation each identity points to   *)
  deleted,    (* deletedAccounts: incarnations that deletion has fenced  *)
  born,       (* incarnations given out (accountId: 32 random bytes)     *)
  work,       (* the requests                                            *)
  count       (* requests that have begun                                *)

registrationVars == <<accounts, emails, index, deleted, born, work, count>>

NoRow   == [inc |-> 0, email |-> 0, registering |-> FALSE, deleting |-> FALSE]
NoOwner == [name |-> 0, inc |-> 0]
Live(n) == accounts[n].inc # 0 /\ ~accounts[n].registering /\ ~accounts[n].deleting

(* `row', `owner' and `listed' are snapshots the request compares with.    *)
Resting == [at |-> "idle", job |-> "none", name |-> 0, email |-> 0, row |-> NoRow,
            owner |-> NoOwner, listed |-> 0, tries |-> 0]

RegistrationInit ==
  /\ accounts = [n \in Names |-> NoRow]
  /\ emails = [e \in Emails |-> NoOwner]
  /\ index = [n \in Names |-> 0]
  /\ deleted = {} /\ born = 0
  /\ work = [w \in Registrants |-> Resting]
  /\ count = 0

Put(w, rec) == work' = [work EXCEPT ![w] = rec]
Rest(w)     == Put(w, Resting)
Go(w, step) == Put(w, [work[w] EXCEPT !.at = step])

Claimed(q) == [name |-> q.name, inc |-> q.row.inc]

(***************************************************************************)
(* A request begins with the row it finds.                                 *)
(***************************************************************************)
(* registerFinish, and googleLogin for a new or pending account.           *)
Register(w) ==
  /\ work[w].at = "idle" /\ count < MaxRegistrants
  /\ \E n \in Names, e \in Emails :
       Put(w, [Resting EXCEPT !.job = "register", !.name = n, !.email = e, !.row = accounts[n],
                 !.at = IF accounts[n].deleting THEN "mark" ELSE "create"])
  /\ count' = count + 1
  /\ UNCHANGED <<accounts, emails, index, deleted, born>>

(* deleteAccount with a session; the row is marked at once.                *)
Delete(w) ==
  /\ work[w].at = "idle" /\ count < MaxRegistrants
  /\ \E n \in Names :
       /\ Live(n) \/ accounts[n].deleting
       /\ accounts' = [accounts EXCEPT ![n].deleting = TRUE]
       /\ Put(w, [Resting EXCEPT !.job = "delete", !.name = n, !.at = "mark",
                                 !.row = [accounts[n] EXCEPT !.deleting = TRUE]])
  /\ count' = count + 1
  /\ UNCHANGED <<emails, index, deleted, born>>

(* deleteUser from a job: by the index, then only the incarnation it names.*)
DeleteUser(w) ==
  /\ work[w].at = "idle" /\ count < MaxRegistrants
  /\ \E n \in Names :
       /\ index[n] # 0
       /\ Put(w, [Resting EXCEPT !.job = "delete", !.name = n, !.listed = index[n], !.at = "find"])
  /\ count' = count + 1
  /\ UNCHANGED <<accounts, emails, index, deleted, born>>

FindUser(w) ==
  LET q == work[w]
      n == q.name
  IN /\ q.at = "find"
     /\ IF accounts[n].inc = q.listed
        THEN /\ accounts' = [accounts EXCEPT ![n].deleting = TRUE]
             /\ Put(w, [q EXCEPT !.at = "mark", !.row = [accounts[n] EXCEPT !.deleting = TRUE],
                                 !.listed = 0])
        ELSE /\ Put(w, [q EXCEPT !.at = "unindex", !.row.inc = q.listed, !.listed = 0])
             /\ UNCHANGED accounts
     /\ UNCHANGED <<emails, index, deleted, born, count>>

(***************************************************************************)
(* Registration: the row, the address, the index, then the row goes live.  *)
(***************************************************************************)
(* A pending row is resumed by the password that began it, with its own    *)
(* address; otherwise the name must be free.                               *)
CreateRow(w) ==
  LET q == work[w]
      n == q.name
      new == [inc |-> born + 1, email |-> q.email, registering |-> TRUE, deleting |-> FALSE]
  IN /\ q.at = "create"
     /\ \/ /\ q.row.registering /\ q.row.email = q.email
           /\ Go(w, "reserve") /\ UNCHANGED <<accounts, born>>
        \/ /\ ~(q.row.registering /\ q.row.email = q.email)
           /\ accounts[n] = NoRow
           /\ accounts' = [accounts EXCEPT ![n] = new] /\ born' = born + 1
           /\ Put(w, [q EXCEPT !.at = "reserve", !.row = new])
        \/ /\ ~(q.row.registering /\ q.row.email = q.email)
           /\ accounts[n] # NoRow /\ Rest(w) /\ UNCHANGED <<accounts, born>>
     /\ UNCHANGED <<emails, index, deleted, count>>

(* reserveEmail, call by call.                                             *)
Reserve(w) ==
  LET q == work[w]
  IN /\ q.at = "reserve"
     /\ IF emails[q.row.email] = NoOwner
        THEN emails' = [emails EXCEPT ![q.row.email] = Claimed(q)] /\ Go(w, "list")
        ELSE Go(w, "owner") /\ UNCHANGED emails
     /\ UNCHANGED <<accounts, index, deleted, born, count>>

LookOwner(w) ==
  LET q == work[w]
      owner == emails[q.row.email]
  IN /\ q.at = "owner"
     /\ Put(w, [q EXCEPT !.owner = owner,
                         !.at = CASE owner = NoOwner    -> "again"
                                  [] owner = Claimed(q) -> "list"
                                  [] OTHER              -> "prior"])
     /\ UNCHANGED <<accounts, emails, index, deleted, born, count>>

(* The owner keeps the address while its row, pending or live, is the      *)
(* incarnation that reserved it.                                           *)
(* Mutant: a registration under way has not reserved it.                   *)
KeepsWhenLive(q) ==
  LET prior == accounts[q.owner.name]
  IN ~prior.deleting /\ ~prior.registering /\ prior.email = q.row.email /\ prior.inc = q.owner.inc

Keeps(q) ==
  LET prior == accounts[q.owner.name]
  IN ~prior.deleting /\ prior.email = q.row.email /\ prior.inc \notin deleted
     /\ prior.inc = q.owner.inc

LookPrior(w) ==
  LET q == work[w]
  IN /\ q.at = "prior"
     /\ Go(w, IF Keeps(q) THEN "undo" ELSE "reclaim")
     /\ UNCHANGED <<accounts, emails, index, deleted, born, count>>

Reclaim(w) ==
  LET q == work[w]
  IN /\ q.at = "reclaim"
     /\ IF emails[q.row.email] = q.owner
        THEN emails' = [emails EXCEPT ![q.row.email] = NoOwner] /\ Go(w, "again")
        ELSE Go(w, "undo") /\ UNCHANGED emails
     /\ UNCHANGED <<accounts, index, deleted, born, count>>

ReserveAgain(w) ==
  LET q == work[w]
  IN /\ q.at = "again"
     /\ IF emails[q.row.email] = NoOwner
        THEN emails' = [emails EXCEPT ![q.row.email] = Claimed(q)] /\ Go(w, "list")
        ELSE Go(w, "undo") /\ UNCHANGED emails
     /\ UNCHANGED <<accounts, index, deleted, born, count>>

(* The address is taken: the row goes, unless somebody changed it since.   *)
Undo(w) ==
  LET q == work[w]
  IN /\ q.at = "undo"
     /\ accounts' = IF accounts[q.name] = q.row THEN [accounts EXCEPT ![q.name] = NoRow] ELSE accounts
     /\ Rest(w)
     /\ UNCHANGED <<emails, index, deleted, born, count>>

(* AuthMaintenance.index: another incarnation in the index is replaced     *)
(* only by the one whose row is there.                                     *)
ListLook(w) ==
  LET q == work[w]
      n == q.name
  IN /\ q.at = "list"
     /\ Put(w, [q EXCEPT !.owner = NoOwner, !.listed = index[n],
                         !.at = CASE index[n] = q.row.inc -> "enable"
                                  [] index[n] = 0         -> "insert"
                                  [] OTHER                -> "confirm"])
     /\ UNCHANGED <<accounts, emails, index, deleted, born, count>>

ListConfirm(w) ==
  LET q == work[w]
  IN /\ q.at = "confirm"
     /\ IF accounts[q.name].inc = q.row.inc THEN Go(w, "insert") ELSE Rest(w)
     /\ UNCHANGED <<accounts, emails, index, deleted, born, count>>

ListInsert(w) ==
  LET q == work[w]
  IN /\ q.at = "insert"
     /\ IF index[q.name] = q.listed
        THEN index' = [index EXCEPT ![q.name] = q.row.inc] /\ Put(w, [q EXCEPT !.at = "enable", !.tries = 0, !.listed = 0])
        ELSE /\ UNCHANGED index
             /\ IF q.tries + 1 = IndexTries THEN Rest(w)
                ELSE Put(w, [q EXCEPT !.at = "list", !.tries = @ + 1])
     /\ UNCHANGED <<accounts, emails, deleted, born, count>>

EnableRow(w) ==
  LET q == work[w]
  IN /\ q.at = "enable"
     /\ accounts' = IF accounts[q.name] = q.row
                    THEN [accounts EXCEPT ![q.name].registering = FALSE] ELSE accounts
     /\ Rest(w)
     /\ UNCHANGED <<emails, index, deleted, born, count>>

(***************************************************************************)
(* finishDeletion: the guard of the incarnation, the address, the row and, *)
(* last, the index.  A registration that began with a row being deleted    *)
(* goes on from the row it read.                                           *)
(***************************************************************************)
MarkDeleted(w) ==
  /\ work[w].at = "mark"
  /\ deleted' = deleted \cup {work[w].row.inc}
  /\ Go(w, "address")
  /\ UNCHANGED <<accounts, emails, index, born, count>>

LookAddress(w) ==
  LET q == work[w]
  IN /\ q.at = "address"
     /\ Go(w, IF emails[q.row.email] = Claimed(q) THEN "release" ELSE "remove")
     /\ UNCHANGED <<accounts, emails, index, deleted, born, count>>

ReleaseAddress(w) ==
  LET q == work[w]
  IN /\ q.at = "release"
     /\ emails' = IF emails[q.row.email] = Claimed(q)
                  THEN [emails EXCEPT ![q.row.email] = NoOwner] ELSE emails
     /\ Go(w, "remove")
     /\ UNCHANGED <<accounts, index, deleted, born, count>>

Remove(w) ==
  LET q == work[w]
  IN /\ q.at = "remove"
     /\ IF accounts[q.name] = q.row
        THEN accounts' = [accounts EXCEPT ![q.name] = NoRow] /\ Go(w, "unindex")
        ELSE /\ UNCHANGED accounts
             /\ IF q.job = "register" THEN Go(w, "create") ELSE Rest(w)
     /\ UNCHANGED <<emails, index, deleted, born, count>>

(* The pointer is read and compared in one step: no other write to it may  *)
(* come between, or the compare-exchange fails and starts over.            *)
Unindex(w) ==
  LET q == work[w]
  IN /\ q.at = "unindex"
     /\ index' = IF index[q.name] = q.row.inc THEN [index EXCEPT ![q.name] = 0] ELSE index
     /\ IF q.job = "register" THEN Go(w, "create") ELSE Rest(w)
     /\ UNCHANGED <<accounts, emails, deleted, born, count>>

(* A trap, an exhausted budget or a lost process ends a request anywhere.  *)
Abandon(w) ==
  /\ work[w].at # "idle" /\ Rest(w)
  /\ UNCHANGED <<accounts, emails, index, deleted, born, count>>

Reserving(w) == Reserve(w) \/ LookOwner(w) \/ LookPrior(w) \/ Reclaim(w) \/ ReserveAgain(w)
Listing(w)   == ListLook(w) \/ ListConfirm(w) \/ ListInsert(w)
Deleting(w)  == MarkDeleted(w) \/ LookAddress(w) \/ ReleaseAddress(w) \/ Remove(w) \/ Unindex(w)

RegistrationStep(w) ==
  \/ Register(w) \/ Delete(w) \/ DeleteUser(w) \/ FindUser(w)
  \/ CreateRow(w) \/ Reserving(w) \/ Undo(w) \/ Listing(w) \/ EnableRow(w)
  \/ Deleting(w) \/ Abandon(w)

RegistrationNext == \E w \in Registrants : RegistrationStep(w)

RegistrationSpec == RegistrationInit /\ [][RegistrationNext]_registrationVars

Rows == [inc: Nat, email: Emails \cup {0}, registering: BOOLEAN, deleting: BOOLEAN]

(* The shapes; no incarnation is given out twice.                          *)
RegistrationTypeOK ==
  /\ accounts \in [Names -> Rows]
  /\ emails \in [Emails -> [name: Names \cup {0}, inc: Nat]]
  /\ index \in [Names -> Nat] /\ deleted \subseteq Nat /\ born \in Nat /\ count \in 0..MaxRegistrants
  /\ \A w \in Registrants : work[w].row \in Rows
  /\ \A m, n \in Names : accounts[m].inc # 0 /\ accounts[m].inc = accounts[n].inc => m = n

(* A live account can be found by its address and by its identity, and no  *)
(* deletion has fenced it: whichever registrations, deletions and deaths   *)
(* came between, nobody took its address over (reserveEmail), dropped its  *)
(* pointer (AuthMaintenance.index, unindex) or brought it back.            *)
LiveIsReachable ==
  \A n \in Names : Live(n) =>
    /\ emails[accounts[n].email] = [name |-> n, inc |-> accounts[n].inc]
    /\ index[n] = accounts[n].inc
    /\ accounts[n].inc \notin deleted
=============================================================================
