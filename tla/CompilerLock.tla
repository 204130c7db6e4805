---------------------------- MODULE CompilerLock ----------------------------
(***************************************************************************)
(* withCompilerLock (src/src/compiler/compiler-lock.ts): one build of a    *)
(* checkout at a time, among the calls of one process, which queue, and    *)
(* among processes, which meet at a lock file.  A process may die between  *)
(* any two calls to the file system, and its number may be given to a      *)
(* process that has nothing to do with builds.                             *)
(*                                                                         *)
(* A call is its own token (randomUUID); what it does with the lock is in  *)
(* CompilerBuild.                                                          *)
(***************************************************************************)
EXTENDS Naturals, Sequences, FiniteSets

CONSTANTS
  Calls,        (* calls of withCompilerLock                               *)
  Home,         (* the process of each                                     *)
  NoCall,
  MaxCrashes,   (* bound: processes that die                               *)
  MaxIoFaults   (* bound: writes of the lock's record that fail            *)

(* The lock file when it was created and its record is not written.        *)
Unwritten == "unwritten"

ASSUME CompilerLockAssumption ==
  /\ NoCall \notin Calls /\ Unwritten \notin Calls /\ NoCall # Unwritten
  /\ DOMAIN Home = Calls
  /\ MaxCrashes \in Nat /\ MaxIoFaults \in Nat

Processes == {Home[c] : c \in Calls}

VARIABLES
  process,   (* of each number: "up", "dead", or "reused" by another program *)
  queues,    (* the calls of each process in order, the first one active   *)
  lock,      (* NoCall when there is no file, Unwritten, or its owner      *)
  reaper,    (* the call that made the file lock.reaping, NoCall when none *)
  step,      (* where each call is                                         *)
  stale,     (* the owner a call read in the lock                          *)
  faults     (* writes that failed                                         *)

lockVars == <<process, queues, lock, reaper, step, stale, faults>>

LockInit ==
  /\ process = [p \in Processes |-> "up"]
  /\ queues = [p \in Processes |-> <<>>]
  /\ lock = NoCall /\ reaper = NoCall
  /\ step = [c \in Calls |-> "idle"]
  /\ stale = [c \in Calls |-> NoCall]
  /\ faults = 0

Alive(p) == process[p] # "dead"

At(c, s) == step[c] = s /\ process[Home[c]] = "up"

Goto(c, s) == step' = [step EXCEPT ![c] = s]

(* The active call of its process, after those that came before it.        *)
Enter(c) ==
  /\ At(c, "idle")
  /\ Goto(c, "open")
  /\ queues' = [queues EXCEPT ![Home[c]] = Append(@, c)]
  /\ UNCHANGED <<process, lock, reaper, stale, faults>>

Active(c, s) == At(c, s) /\ Head(queues[Home[c]]) = c

(***************************************************************************)
(* openSync 'wx', then the record.  When the record cannot be written the  *)
(* call throws, with the lock acquired.                                    *)
(***************************************************************************)
OpenLock(c) ==
  /\ Active(c, "open")
  /\ IF lock = NoCall THEN lock' = Unwritten /\ Goto(c, "write") ELSE lock' = lock /\ Goto(c, "read")
  /\ UNCHANGED <<process, queues, reaper, stale, faults>>

WriteOwner(c) ==
  /\ At(c, "write")
  /\ \/ lock' = c /\ Goto(c, "work") /\ faults' = faults
     \/ faults < MaxIoFaults /\ faults' = faults + 1 /\ Goto(c, "release") /\ lock' = lock
  /\ UNCHANGED <<process, queues, reaper, stale>>

(***************************************************************************)
(* The lock of a dead owner: only one call may reap it, and it reads the   *)
(* lock again once it may.                                                 *)
(***************************************************************************)
Owner == IF lock \in Calls THEN lock ELSE NoCall

ReadOwner(c) ==
  /\ At(c, "read")
  /\ stale' = [stale EXCEPT ![c] = Owner]
  /\ Goto(c, IF Owner = NoCall THEN "wait" ELSE "probe")
  /\ UNCHANGED <<process, queues, lock, reaper, faults>>

ProbeOwner(c) ==
  /\ At(c, "probe")
  /\ Goto(c, IF Alive(Home[stale[c]]) THEN "wait" ELSE "claim")
  /\ UNCHANGED <<process, queues, lock, reaper, stale, faults>>

ClaimReaper(c) ==
  /\ At(c, "claim")
  /\ IF reaper = NoCall THEN reaper' = c /\ Goto(c, "check") ELSE reaper' = reaper /\ Goto(c, "wait")
  /\ UNCHANGED <<process, queues, lock, stale, faults>>

(* Mutant: what was read before the reaper was claimed is good enough.     *)
ReapsUnread(c) == ~Alive(Home[stale[c]])

StillStale(c) == Owner = stale[c] /\ ~Alive(Home[stale[c]])

CheckAgain(c) ==
  /\ At(c, "check")
  /\ Goto(c, IF StillStale(c) THEN "unlink" ELSE "unclaim")
  /\ UNCHANGED <<process, queues, lock, reaper, stale, faults>>

Unlink(c) ==
  /\ At(c, "unlink")
  /\ lock' = NoCall /\ Goto(c, "unclaim")
  /\ UNCHANGED <<process, queues, reaper, stale, faults>>

RemoveReaper(c) ==
  /\ At(c, "unclaim")
  /\ reaper' = NoCall /\ Goto(c, "wait")
  /\ UNCHANGED <<process, queues, lock, stale, faults>>

(* 50 ms later it tries again; after 300 s it throws and leaves the lock.  *)
TryAgain(c) ==
  /\ At(c, "wait")
  /\ Goto(c, "open")
  /\ stale' = [stale EXCEPT ![c] = NoCall]
  /\ UNCHANGED <<process, queues, lock, reaper, faults>>

Leave(c) == queues' = [queues EXCEPT ![Home[c]] = Tail(@)]

GiveUp(c) ==
  /\ At(c, "wait")
  /\ Goto(c, "ended") /\ Leave(c)
  /\ UNCHANGED <<process, lock, reaper, stale, faults>>

(***************************************************************************)
(* The end of the work, however it ended: the lock goes when it is the     *)
(* call's own or has no record, and the next call of the process starts.   *)
(***************************************************************************)
ReadOwn(c) ==
  /\ At(c, "release")
  /\ Goto(c, IF Owner \in {NoCall, c} THEN "remove" ELSE "leave")
  /\ UNCHANGED <<process, queues, lock, reaper, stale, faults>>

RemoveLock(c) ==
  /\ At(c, "remove")
  /\ lock' = NoCall /\ Goto(c, "leave")
  /\ UNCHANGED <<process, queues, reaper, stale, faults>>

EndCall(c) ==
  /\ At(c, "leave")
  /\ Goto(c, "ended") /\ Leave(c)
  /\ UNCHANGED <<process, lock, reaper, stale, faults>>

LockStep(c) ==
  \/ OpenLock(c) \/ WriteOwner(c) \/ ReadOwner(c) \/ ProbeOwner(c) \/ ClaimReaper(c)
  \/ CheckAgain(c) \/ Unlink(c) \/ RemoveReaper(c) \/ TryAgain(c)
  \/ ReadOwn(c) \/ RemoveLock(c) \/ EndCall(c)

(***************************************************************************)
(* The machine: a process dies with its calls, its files stay; later its   *)
(* number may be another program's.                                        *)
(***************************************************************************)
Die(p) ==
  /\ process[p] = "up"
  /\ Cardinality({q \in Processes : process[q] # "up"}) < MaxCrashes
  /\ process' = [process EXCEPT ![p] = "dead"]
  /\ UNCHANGED <<queues, lock, reaper, step, stale, faults>>

ReuseNumber(p) ==
  /\ process[p] = "dead"
  /\ process' = [process EXCEPT ![p] = "reused"]
  /\ UNCHANGED <<queues, lock, reaper, step, stale, faults>>
=============================================================================
