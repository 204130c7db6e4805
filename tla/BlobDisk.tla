------------------------------ MODULE BlobDisk ------------------------------
(***************************************************************************)
(* The blobs of `toiljs dev' (src/src/devserver/files/disk.ts): a directory*)
(* with a body file per upload, a manifest per key that names the body of  *)
(* its object, and a lock per key in the memory of the server.             *)
(*                                                                         *)
(* Calls interleave at every await, so each await is a step.  A body file  *)
(* has a random name and is written by one upload: it, its temporary file  *)
(* and its draft of the manifest go by the name of their upload.  Signed   *)
(* tickets and URLs, ranges and headers are left out: they decide whether  *)
(* a call is made and how an object is sent, never what is stored.         *)
(***************************************************************************)
EXTENDS Naturals, Sequences, FiniteSets

CONSTANTS
  BlobCalls,     (* requests; each is made at most once                   *)
  BlobKeys,      (* the objects' names                                    *)
  Absent,        (* no manifest                                           *)
  MaxUploads,    (* uploads at a time: 4 in the code                      *)
  MaxBlobFaults  (* bound: crashes and failures of the file system        *)

ASSUME BlobAssumption ==
  /\ Absent \notin BlobCalls /\ Absent \notin BlobKeys
  /\ MaxUploads \in Nat \ {0} /\ MaxBlobFaults \in Nat

VARIABLES
  manifests,     (* <id>.json: the body each key has, or Absent           *)
  bodies, temporaries, drafts,  (* <id>-<random>.blob, .upload-<random>,  *)
                 (* and the .blob.json files before their rename          *)
  line,          (* locks: the calls that hold (first) or await each lock *)
  blobCall,      (* what each request asks, its next step, what it read   *)
  strays,        (* history: files whose upload died, or that the system  *)
                 (* would not remove                                      *)
  blobFaults     (* how many there were                                   *)

blobVars == <<manifests, bodies, temporaries, drafts, line, blobCall, strays, blobFaults>>

Unmade == [op |-> "none", key |-> Absent, step |-> "new", saw |-> Absent]

BlobInit ==
  /\ manifests = [k \in BlobKeys |-> Absent]
  /\ bodies = {} /\ temporaries = {} /\ drafts = {}
  /\ line = [k \in BlobKeys |-> <<>>]
  /\ blobCall = [c \in BlobCalls |-> Unmade]
  /\ strays = {} /\ blobFaults = 0

Steps(c, from, to) == blobCall[c].step = from /\ blobCall' = [blobCall EXCEPT ![c].step = to]

InFlight(c) == blobCall[c].step \notin {"new", "answered", "refused", "lost"}

(* activeUploads: from the first byte to the end of upload's finally.      *)
ActiveUploads == {c \in BlobCalls : blobCall[c].op = "upload" /\ InFlight(c)}

(***************************************************************************)
(* locked: a call takes its place behind the last one as soon as it asks,  *)
(* goes on when that one has released, and releases even when it throws.   *)
(***************************************************************************)
(* Mutant: nobody waits.                                                   *)
NoLock(c) == TRUE

HoldsLock(c) == LET waiting == line[blobCall[c].key] IN waiting # <<>> /\ Head(waiting) = c

Queued(c, k) == line' = [line EXCEPT ![k] = Append(@, c)]

Released(c) == line' = [line EXCEPT ![blobCall[c].key] = Tail(@)]

(***************************************************************************)
(* upload: the body is streamed to a temporary file, or the transfer ends  *)
(* early, is too long or too short, and the file is removed.               *)
(***************************************************************************)
StartUpload(c, k) ==
  LET full == Cardinality(ActiveUploads) >= MaxUploads
  IN /\ blobCall[c] = Unmade
     /\ blobCall' = [blobCall EXCEPT ![c] = [op |-> "upload", key |-> k, saw |-> Absent,
                                             step |-> IF full THEN "refused" ELSE "receiving"]]
     /\ temporaries' = IF full THEN temporaries ELSE temporaries \cup {c}
     /\ UNCHANGED <<manifests, bodies, drafts, line, strays, blobFaults>>

Received(c) ==
  /\ Steps(c, "receiving", "waiting") /\ Queued(c, blobCall[c].key)
  /\ UNCHANGED <<manifests, bodies, temporaries, drafts, strays, blobFaults>>

Interrupted(c) ==
  /\ Steps(c, "receiving", "refused") /\ temporaries' = temporaries \ {c}
  /\ UNCHANGED <<manifests, bodies, drafts, line, strays, blobFaults>>

(* Under the lock: read the manifest that is to be replaced or removed.    *)
ReadOld(c) ==
  LET next == IF blobCall[c].op = "upload" THEN "placing" ELSE "unlinking"
  IN /\ blobCall[c].step = "waiting" /\ HoldsLock(c)
     /\ blobCall' = [blobCall EXCEPT ![c].step = next, ![c].saw = manifests[blobCall[c].key]]
     /\ UNCHANGED <<manifests, bodies, temporaries, drafts, line, strays, blobFaults>>

(* Mutant: the old body goes before the manifest that names it.            *)
PlaceOver(c) ==
  /\ Steps(c, "placing", "describing")
  /\ temporaries' = temporaries \ {c} /\ bodies' = (bodies \ {blobCall[c].saw}) \cup {c}
  /\ UNCHANGED <<manifests, drafts, line, strays, blobFaults>>

Place(c) ==
  /\ Steps(c, "placing", "describing")
  /\ temporaries' = temporaries \ {c} /\ bodies' = bodies \cup {c}
  /\ UNCHANGED <<manifests, drafts, line, strays, blobFaults>>

Describe(c) ==
  /\ Steps(c, "describing", "committing") /\ drafts' = drafts \cup {c}
  /\ UNCHANGED <<manifests, bodies, temporaries, line, strays, blobFaults>>

Commit(c) ==
  /\ Steps(c, "committing", "clearing")
  /\ drafts' = drafts \ {c} /\ manifests' = [manifests EXCEPT ![blobCall[c].key] = c]
  /\ UNCHANGED <<bodies, temporaries, line, strays, blobFaults>>

(* A rename or a write fails before the commit: what was made is removed.  *)
FailIO(c) ==
  /\ blobFaults < MaxBlobFaults /\ blobFaults' = blobFaults + 1
  /\ \E at \in {"placing", "describing", "committing"} : Steps(c, at, "undoing")
  /\ UNCHANGED <<manifests, bodies, temporaries, drafts, line, strays>>

(* When the body cannot be removed either, its draft is not tried          *)
(* (disk.ts 237).                                                          *)
Undo(c) ==
  /\ Steps(c, "undoing", "refused") /\ Released(c)
  /\ temporaries' = temporaries \ {c}
  /\ \/ bodies' = bodies \ {c} /\ drafts' = drafts \ {c} /\ UNCHANGED strays
     \/ strays' = strays \cup {c} /\ UNCHANGED <<bodies, drafts>>
  /\ UNCHANGED <<manifests, blobFaults>>

(* The DELETE request.                                                     *)
StartDelete(c, k) ==
  /\ blobCall[c] = Unmade /\ Queued(c, k)
  /\ blobCall' = [blobCall EXCEPT ![c] = [op |-> "delete", key |-> k, step |-> "waiting", saw |-> Absent]]
  /\ UNCHANGED <<manifests, bodies, temporaries, drafts, strays, blobFaults>>

UnlinkManifest(c) ==
  /\ Steps(c, "unlinking", "clearing")
  /\ manifests' = [manifests EXCEPT ![blobCall[c].key] = Absent]
  /\ UNCHANGED <<bodies, temporaries, drafts, line, strays, blobFaults>>

(* The end of both: the old body is removed, and when that fails nobody    *)
(* is told; then the lock is released and the call answered.               *)
Clear(c) ==
  /\ Steps(c, "clearing", "answered") /\ Released(c)
  /\ \/ bodies' = bodies \ {blobCall[c].saw} /\ UNCHANGED <<strays, blobFaults>>
     \/ /\ blobCall[c].saw # Absent
        /\ blobFaults < MaxBlobFaults /\ blobFaults' = blobFaults + 1
        /\ strays' = strays \cup {blobCall[c].saw} /\ bodies' = bodies
  /\ UNCHANGED <<manifests, temporaries, drafts>>

(***************************************************************************)
(* GET and HEAD take no lock: the manifest is read, then its body opened.  *)
(* What was opened is sent to its end even if the file is removed.         *)
(***************************************************************************)
StartDownload(c, k) ==
  /\ blobCall[c] = Unmade
  /\ blobCall' = [blobCall EXCEPT ![c] = [op |-> "download", key |-> k, step |-> "reading", saw |-> Absent]]
  /\ UNCHANGED <<manifests, bodies, temporaries, drafts, line, strays, blobFaults>>

ReadManifest(c) ==
  LET found == manifests[blobCall[c].key]
  IN /\ blobCall[c].step = "reading"
     /\ blobCall' = [blobCall EXCEPT ![c].step = IF found = Absent THEN "answered" ELSE "opening",
                                     ![c].saw = found]
     /\ UNCHANGED <<manifests, bodies, temporaries, drafts, line, strays, blobFaults>>

Open(c) ==
  /\ blobCall[c].step = "opening"
  /\ blobCall' = [blobCall EXCEPT ![c].step = "answered",
                                  ![c].saw = IF @ \in bodies THEN @ ELSE Absent]
  /\ UNCHANGED <<manifests, bodies, temporaries, drafts, line, strays, blobFaults>>

(* The server dies, its locks with it, and starts again on the directory   *)
(* as it finds it.                                                         *)
Named == {manifests[k] : k \in BlobKeys}

Restart ==
  /\ blobFaults < MaxBlobFaults /\ blobFaults' = blobFaults + 1
  /\ \E c \in BlobCalls : InFlight(c)
  /\ blobCall' = [c \in BlobCalls |-> IF InFlight(c) THEN [blobCall[c] EXCEPT !.step = "lost"] ELSE blobCall[c]]
  /\ line' = [k \in BlobKeys |-> <<>>]
  /\ strays' = strays \cup temporaries \cup drafts \cup (bodies \ Named)
  /\ UNCHANGED <<manifests, bodies, temporaries, drafts>>

BlobNext ==
  \/ Restart
  \/ \E c \in BlobCalls, k \in BlobKeys : StartUpload(c, k) \/ StartDelete(c, k) \/ StartDownload(c, k)
  \/ \E c \in BlobCalls :
       \/ Received(c) \/ Interrupted(c) \/ ReadOld(c) \/ Place(c) \/ Describe(c) \/ Commit(c)
       \/ FailIO(c) \/ Undo(c) \/ UnlinkManifest(c) \/ Clear(c) \/ ReadManifest(c) \/ Open(c)

BlobSpec == BlobInit /\ [][BlobNext]_blobVars

(***************************************************************************)
(* Properties                                                              *)
(***************************************************************************)
(* The directory behaves as a store of whole objects, whatever overlaps or *)
(* dies: an upload takes place when its manifest is renamed, a deletion    *)
(* when it is unlinked, and a download is of the manifest it read.         *)
Progress(s) ==
  CASE s \in {"clearing", "opening"} -> "done"
    [] s \in {"new", "answered", "refused", "lost"} -> s
    [] OTHER -> "open"

Image(r) == [op |-> r.op, key |-> r.key, at |-> Progress(r.step),
             got |-> IF r.op = "download" THEN r.saw ELSE Absent]

Asked == [c \in BlobCalls |-> Image(blobCall[c])]

Abstract == INSTANCE BlobStore WITH objects <- manifests, asked <- Asked

ImplementsBlobStore == Abstract!StoreSpec

(* No file is left that nobody will ever remove (disk.ts 193-248), but for *)
(* those of an upload that died with the server or that the file system    *)
(* would not let go: every other body is named by a manifest or in the     *)
(* hands of the call that made it or will remove it.                       *)
InHand ==
  LET calls == {c \in BlobCalls : InFlight(c) /\ blobCall[c].op # "download"}
  IN calls \cup {blobCall[c].saw : c \in calls}

NothingLeft ==
  /\ bodies \subseteq Named \cup InHand \cup strays
  /\ temporaries \cup drafts \subseteq InHand \cup strays
=============================================================================
