----------------------------- MODULE MCBackend -----------------------------
(***************************************************************************)
(* Small instances for TLC of the database a request sees (RecordStore,    *)
(* DocumentScan), of the accounts built on it (SessionEpochs,              *)
(* Registration, SignIn), and of what a server keeps between requests      *)
(* (Caches).  They share no state, so one behaviour explores one and the   *)
(* others keep their first state: `part' says which.                       *)
(* Of RecordStore it explores the rows of a collection with a @unique      *)
(* field, those of one without, or the unique family and the counters.     *)
(***************************************************************************)
EXTENDS RecordStore, DocumentScan, SessionEpochs, Registration, SignIn,
        Caches, TLC

CONSTANTS v1, v2, mark, i1

VARIABLE part

(* Two rows of a collection with a @unique field and a row of another.     *)
SmallMarks == (v1 :> mark) @@ (v2 :> Blank)

(* The operations tried with a key, without one, or both.                  *)
SmallKeys == ("create" :> {i1}) @@ ("patch" :> {NoIdem}) @@ ("enqueue" :> {NoIdem})
          @@ ("delete" :> {NoIdem}) @@ ("getDelete" :> {i1, NoIdem})
          @@ ("claim" :> {i1}) @@ ("add" :> {i1})

(* Two items under one hash, two hashes in one bucket, an empty bucket,    *)
(* and an item that fits in no page.                                       *)
SmallItems   == 1..5
SmallHashes  == <<1, 0, 1, 4, 5>>
SmallWeights == <<1, 1, 2, 1, 3>>

BackendInit ==
  /\ part \in {"records", "plain", "shared", "scan", "generations", "registration", "signing in", "cache", "keys"}
  /\ Init /\ ScanInit /\ EpochInit /\ RegistrationInit /\ SignInInit
  /\ CacheInit /\ KeysInit
  /\ part # "scan" => family = "documents" /\ present = {}
  /\ part # "signing in" => policy.method = "none"

(* The one part that a step changes.                                       *)
Only(names) ==
  /\ part \in names /\ part' = part
  /\ part \notin {"records", "plain", "shared"} => UNCHANGED vars
  /\ part # "scan" => UNCHANGED scanVars
  /\ part # "generations" => UNCHANGED epochVars
  /\ part # "registration" => UNCHANGED registrationVars
  /\ part # "signing in" => UNCHANGED signInVars
  /\ part # "cache" => UNCHANGED cacheVars
  /\ part # "keys" => UNCHANGED keyVars

Touched == DOMAIN mem.rows \cup {answer[2] : answer \in DOMAIN mem.answers}

BackendNext ==
  \/ Only({"records"}) /\ Next /\ UNCHANGED <<mem.claims, mem.sums>> /\ Touched' \subseteq RowKeys \ Plain
  \/ Only({"plain"}) /\ Next /\ UNCHANGED <<mem.claims, mem.sums>> /\ Touched' \subseteq Plain
  \/ Only({"shared"}) /\ Next /\ UNCHANGED <<mem.rows, mem.answers>>
  \/ Only({"scan"}) /\ ScanNext
  \/ Only({"generations"}) /\ EpochNext
  \/ Only({"registration"}) /\ RegistrationNext
  \/ Only({"signing in"}) /\ SignInNext
  \/ Only({"cache"}) /\ CacheNext
  \/ Only({"keys"}) /\ KeysNext

BackendSpec ==
  BackendInit /\ [][BackendNext]_<<vars, scanVars, epochVars, registrationVars, signInVars,
                                   cacheVars, keyVars, part>>

(* Dispatches and requests, and the rows of one collection or names, are   *)
(* interchangeable.                                                        *)
Symmetry == {r @@ n : r \in Permutations(Requests), n \in Permutations(Names)}
=============================================================================
