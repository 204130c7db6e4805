----------------------------- MODULE BlobStore -----------------------------
(***************************************************************************)
(* What the storage of blobs promises to its callers (docs/database/       *)
(* blobs.md), with no files, no locks and no disk: a key holds one object  *)
(* or none.  An upload replaces the object whole and a deletion takes it   *)
(* away, each at one moment between its request and its answer; a call     *)
(* that is refused changes nothing, and one that dies with the server took *)
(* place or did not.  A download is given an object that the key held      *)
(* while it asked, and is told that there is none only if there was none   *)
(* or the object was replaced meanwhile.                                   *)
(***************************************************************************)
CONSTANTS BlobCalls, BlobKeys, Absent

VARIABLES
  objects,   (* the object of each key, named by the upload that brought it *)
  asked      (* of each call: what it asks, how far it is, what it was told *)

storeVars == <<objects, asked>>

Unasked == [op |-> "none", key |-> Absent, at |-> "new", got |-> Absent]

StoreInit == objects = [k \in BlobKeys |-> Absent] /\ asked = [c \in BlobCalls |-> Unasked]

Becomes(c, from, to) == asked[c].at = from /\ asked' = [asked EXCEPT ![c].at = to]

Ask(c) ==
  /\ asked[c] = Unasked
  /\ \E op \in {"upload", "delete", "download"}, k \in BlobKeys, at \in {"open", "refused"} :
       asked' = [asked EXCEPT ![c] = [op |-> op, key |-> k, at |-> at, got |-> Absent]]
  /\ objects' = objects

Replace(c) ==
  /\ asked[c].op \in {"upload", "delete"} /\ Becomes(c, "open", "done")
  /\ objects' = [objects EXCEPT ![asked[c].key] = IF asked[c].op = "upload" THEN c ELSE Absent]

Inspect(c) ==
  LET found == objects[asked[c].key]
  IN /\ asked[c].op = "download" /\ asked[c].at = "open"
     /\ asked' = [asked EXCEPT ![c].at = IF found = Absent THEN "answered" ELSE "done", ![c].got = found]
     /\ objects' = objects

Reply(c) ==
  /\ \/ Becomes(c, "done", "answered") \/ Becomes(c, "open", "refused")
     \/ /\ asked[c].op = "download" /\ asked[c].at = "done"
        /\ objects[asked[c].key] # asked[c].got
        /\ asked' = [asked EXCEPT ![c].at = "answered", ![c].got = Absent]
  /\ objects' = objects

(* The server dies: nobody who waited is told anything.                    *)
Perish ==
  /\ asked' = [c \in BlobCalls |-> IF asked[c].at \in {"open", "done"}
                                   THEN [asked[c] EXCEPT !.at = "lost"] ELSE asked[c]]
  /\ objects' = objects

StoreNext == Perish \/ \E c \in BlobCalls : Ask(c) \/ Replace(c) \/ Inspect(c) \/ Reply(c)

StoreSpec == StoreInit /\ [][StoreNext]_storeVars
=============================================================================
