--------------------------- MODULE CompilerBuild ---------------------------
(***************************************************************************)
(* What a call does with the compiler lock: the server's tiers are         *)
(* compiled apart, checked and published together, with a manifest of each *)
(* for reuse (src/src/compiler/compiler-build.ts, compiler-cache.ts); then *)
(* `build' publishes the client (client-publication.ts), and `dev' stays,  *)
(* watches the sources and builds again (watchServer in compiler/index.ts).*)
(*                                                                         *)
(* Editors change the sources at any time.  From its last check of them to *)
(* its end a build waits for nothing; that somebody else changes the       *)
(* artifacts by hand just then is left out.                                *)
(***************************************************************************)
EXTENDS CompilerLock

CONSTANTS
  Tiers,      (* the passes in their order, Rpc among them                 *)
  Rpc,        (* the tier whose output finalize completes: shared/server.ts *)
  Files,      (* sources; a file that is not there is a content            *)
  Reads,      (* the sources each tier reads                               *)
  Watched,    (* those that isServerSource or isEmailSource accepts        *)
  Contents, First,
  Uncached,   (* calls under TOILJS_BUILD_CACHE=0                          *)
  Dev,        (* the process of `toiljs dev'                               *)
  Releases,   (* what the client build may yield                           *)
  Documents, Assets,   (* of each release: the .html files, all the others *)
  MaxEdits,   (* bound: changes of a source                                *)
  MaxHands    (* bound: changes of an artifact by hand                     *)

TierSet == {Tiers[i] : i \in DOMAIN Tiers}

ASSUME CompilerBuildAssumption ==
  /\ Rpc \in TierSet /\ First \in Contents
  /\ Reads \in [TierSet -> SUBSET Files] /\ Watched \subseteq Files
  /\ DOMAIN Documents = Releases /\ DOMAIN Assets = Releases
  /\ \A r, q \in Releases : Documents[r] \cap Assets[q] = {}
  /\ MaxEdits \in Nat /\ MaxHands \in Nat

VARIABLES
  source,     (* the content of each file                                  *)
  output,     (* the artifact of each tier that has one                    *)
  manifest,   (* .toil/compiler/<tier>.json, of each tier that has one     *)
  work,       (* what each call that builds has so far                     *)
  edits, hands,
  watch,      (* watchServer: on, the events and timer to come, its flags  *)
  unbuilt,    (* history: a watched edit no build of dev started after     *)
  site,       (* the client's directory: the release of every file in it   *)
  dropped     (* history: documents a pruning is about to remove           *)

workVars == <<source, output, manifest, work, edits, hands, watch, unbuilt, site, dropped>>

Nothing == [x \in {} |-> x]
Extended(f, x, v) == [y \in DOMAIN f \cup {x} |-> IF y = x THEN v ELSE f[y]]
Without(f, x) == [y \in DOMAIN f \ {x} |-> f[y]]

(* An artifact: what it was compiled of; shared/server.ts is complete once *)
(* finalize has seen it (the routes that finalize takes from the stream    *)
(* artifact when the compiler wrote none are left out).                    *)
Compiled(in, final) == [of |-> in, final |-> final]
ByHand == [of |-> Nothing, final |-> FALSE]

Inputs(t, s) == [f \in Reads[t] |-> s[f]]

BuildInit ==
  /\ source = [f \in Files |-> First]
  /\ output = Nothing /\ manifest = Nothing /\ work = Nothing
  /\ edits = 0 /\ hands = 0
  /\ watch = [on |-> FALSE, event |-> {}, timer |-> FALSE, building |-> FALSE, queued |-> FALSE,
              planned |-> FALSE]
  /\ unbuilt = FALSE
  /\ site = Nothing /\ dropped = {}

tierVars == <<source, output, manifest, edits, hands, watch, unbuilt>>
Elsewhere == UNCHANGED <<process, queues, lock, reaper, stale, faults>>

Current(in) == \A f \in DOMAIN in : in[f] = source[f]

(***************************************************************************)
(* runCompilerPasses.  A tier is reused when its manifest still tells the  *)
(* truth about what it read and what it wrote.                             *)
(***************************************************************************)
Reusable(t) ==
  /\ t \in DOMAIN manifest /\ Current(manifest[t].in)
  /\ t \in DOMAIN output /\ output[t] = manifest[t].out

Plan(c) ==
  /\ At(c, "work")
  /\ work' = Extended(work, c, [cached |-> IF c \in Uncached THEN {} ELSE {t \in TierSet : Reusable(t)},
                            read |-> [t \in TierSet |-> Nothing], done |-> {}, checked |-> Nothing])
  /\ IF Home[c] = Dev THEN unbuilt' = FALSE /\ watch' = [watch EXCEPT !.planned = TRUE]
     ELSE UNCHANGED <<unbuilt, watch>>
  /\ Goto(c, "compile")
  /\ Elsewhere /\ UNCHANGED <<source, output, manifest, edits, hands, site, dropped>>

Compiling(c) == TierSet \ work[c].cached

ReadInput(c) ==
  /\ At(c, "compile")
  /\ \E t \in Compiling(c) : \E f \in Reads[t] \ DOMAIN work[c].read[t] :
       work' = [work EXCEPT ![c].read[t] = Extended(@, f, source[f])]
  /\ Elsewhere /\ UNCHANGED <<step, tierVars, site, dropped>>

FinishPass(c) ==
  /\ At(c, "compile")
  /\ \E t \in Compiling(c) \ work[c].done :
       /\ Reads[t] = DOMAIN work[c].read[t]
       /\ Current(work[c].read[t])
       /\ work' = [work EXCEPT ![c].done = @ \cup {t}]
  /\ Elsewhere /\ UNCHANGED <<step, tierVars, site, dropped>>

(* Any failure: a pass, its inputs that changed, a signal.  The passes     *)
(* under way are stopped first, and nothing was published.                 *)
Abandon(c) == Goto(c, "release") /\ work' = Without(work, c)

FailPass(c) ==
  /\ At(c, "compile")
  /\ Abandon(c)
  /\ Elsewhere /\ UNCHANGED <<tierVars, site, dropped>>

(* The check of all tiers once all are done, then validate.                *)
Input(c, t) == IF t \in work[c].cached THEN manifest[t].in ELSE work[c].read[t]

(* Mutant: reused tiers are not looked at again.                           *)
ChecksCompiled(c) == \A t \in Compiling(c) : Current(Input(c, t))

StillTrue(c) ==
  /\ \A t \in TierSet : Current(Input(c, t))
  /\ \A t \in work[c].cached : t \in DOMAIN output /\ output[t] = manifest[t].out

CheckAll(c) ==
  /\ At(c, "compile") /\ work[c].done = Compiling(c)
  /\ \/ StillTrue(c) /\ Goto(c, "publish") /\ work' = [work EXCEPT ![c].checked = source, ![c].done = {}]
     \/ Abandon(c)
  /\ Elsewhere /\ UNCHANGED <<tierVars, site, dropped>>

(* The tier that is done next, in the order of the passes.                 *)
NextTier(c, t) ==
  LET todo == Compiling(c) \ work[c].done
  IN t \in todo /\ \E i \in DOMAIN Tiers : t = Tiers[i] /\ \A j \in 1..(i - 1) : Tiers[j] \notin todo

Publish(c) ==
  /\ At(c, "publish")
  /\ \/ /\ work[c].done = Compiling(c)
        /\ Goto(c, "finalize") /\ work' = [work EXCEPT ![c].done = {}] /\ output' = output
     \/ \E t \in TierSet :
          /\ NextTier(c, t)
          /\ output' = Extended(output, t, Compiled(work[c].read[t], t # Rpc))
          /\ work' = [work EXCEPT ![c].done = @ \cup {t}]
          /\ step' = step
  /\ Elsewhere /\ UNCHANGED <<source, manifest, edits, hands, watch, unbuilt, site, dropped>>

Finalize(c) ==
  /\ At(c, "finalize")
  /\ output' = [output EXCEPT ![Rpc] = Compiled(@.of, TRUE)]
  /\ Goto(c, IF c \in Uncached THEN "built" ELSE "save")
  /\ Elsewhere /\ UNCHANGED <<source, manifest, work, edits, hands, watch, unbuilt, site, dropped>>

SaveManifest(c) ==
  /\ At(c, "save")
  /\ \/ work[c].done = Compiling(c) /\ Goto(c, "built") /\ UNCHANGED <<manifest, work>>
     \/ \E t \in TierSet :
          /\ NextTier(c, t)
          /\ manifest' = Extended(manifest, t, [in |-> work[c].read[t], out |-> output[t]])
          /\ work' = [work EXCEPT ![c].done = @ \cup {t}]
          /\ step' = step
  /\ Elsewhere /\ UNCHANGED <<source, output, edits, hands, watch, unbuilt, site, dropped>>

(***************************************************************************)
(* What comes after the server: a rebuild of dev is done, the first build  *)
(* of dev starts to watch, `build' may compile the client too.             *)
(***************************************************************************)
ServerOnly(c) ==
  /\ At(c, "built") /\ (Home[c] = Dev => watch.on)
  /\ Abandon(c)
  /\ Elsewhere /\ UNCHANGED <<tierVars, site, dropped>>

StartWatching(c) ==
  /\ At(c, "built") /\ Home[c] = Dev /\ ~watch.on
  /\ watch' = [watch EXCEPT !.on = TRUE]
  /\ Abandon(c)
  /\ Elsewhere /\ UNCHANGED <<source, output, manifest, edits, hands, unbuilt, site, dropped>>

(* ClientPublication.run compiles into a directory of its own.             *)
CompileClient(c) ==
  /\ At(c, "built") /\ Home[c] # Dev
  /\ \E r \in Releases :
       work' = Extended(work, c, [release |-> r, left |-> Documents[r] \cup Assets[r]])
  /\ Goto(c, "client")
  /\ Elsewhere /\ UNCHANGED <<tierVars, site, dropped>>

(* A failure or a signal before the first file leaves the site alone.      *)
CancelClient(c) ==
  /\ At(c, "client") /\ work[c].left = Documents[work[c].release] \cup Assets[work[c].release]
  /\ Abandon(c)
  /\ Elsewhere /\ UNCHANGED <<tierVars, site, dropped>>

(* Assets first, then documents, index.html last.                          *)
Ready(c) ==
  LET left == work[c].left
      assets == left \ Documents[work[c].release]
  IN IF assets # {} THEN assets ELSE IF left = {"index.html"} THEN left ELSE left \ {"index.html"}

PublishFile(c) ==
  /\ At(c, "client") /\ work[c].left # {}
  /\ \E x \in Ready(c) :
       /\ site' = Extended(site, x, work[c].release)
       /\ work' = [work EXCEPT ![c].left = @ \ {x}]
       /\ dropped' = dropped \ {x}
  /\ Elsewhere /\ UNCHANGED <<step, tierVars>>

AllDocuments == UNION {Documents[r] : r \in Releases}

(* Then every file that is not of this release goes, in any order.         *)
Old(c) == DOMAIN site \ (Documents[work[c].release] \cup Assets[work[c].release])

Prune(c) ==
  /\ At(c, "client") /\ work[c].left = {}
  /\ IF Old(c) = {} THEN Abandon(c) /\ UNCHANGED <<site, dropped>>
     ELSE \E x \in Old(c) :
       /\ site' = Without(site, x)
       /\ dropped' = (Old(c) \cap AllDocuments) \ {x}
       /\ UNCHANGED <<step, work>>
  /\ Elsewhere /\ UNCHANGED tierVars

(***************************************************************************)
(* watchServer: the event of a server or email source starts a timer       *)
(* again, the timer a rebuild; one that runs is followed by one more.  The *)
(* event of any other file a tier reads (toilconfig.json, a declaration, a *)
(* module outside the server's directories) is let pass, and events before *)
(* the watcher is on reach nobody: a later build finds what they changed.  *)
(***************************************************************************)
Watching == watch.on /\ process[Dev] = "up"

Edit ==
  /\ edits < MaxEdits /\ edits' = edits + 1
  /\ \E f \in Files : \E x \in Contents \ {source[f]} :
       /\ source' = [source EXCEPT ![f] = x]
       /\ IF Watching THEN /\ unbuilt' = (unbuilt \/ f \in Watched)
                           /\ watch' = [watch EXCEPT !.event = @ \cup {f}]
          ELSE UNCHANGED <<unbuilt, watch>>
  /\ UNCHANGED <<lockVars, output, manifest, work, hands, site, dropped>>

HandChange ==
  /\ hands < MaxHands /\ hands' = hands + 1
  /\ \A c \in Calls : process[Home[c]] = "up" => step[c] \notin {"publish", "finalize", "save", "built"}
  /\ \E t \in DOMAIN output : output' \in {Without(output, t), Extended(output, t, ByHand)}
  /\ UNCHANGED <<lockVars, source, manifest, work, edits, watch, unbuilt, site, dropped>>

besidesWatch == <<source, output, manifest, work, edits, hands, site, dropped>>

WatchEvent ==
  /\ Watching
  /\ \E f \in watch.event :
       watch' = [watch EXCEPT !.event = @ \ {f}, !.timer = @ \/ f \in Watched]
  /\ UNCHANGED <<lockVars, unbuilt, besidesWatch>>

EnterDev == \E c \in Calls : Home[c] = Dev /\ Enter(c)

(* Mutant: a rebuild that runs is enough.                                  *)
SkipsBusy ==
  /\ Watching /\ watch.timer
  /\ IF watch.building THEN watch' = [watch EXCEPT !.timer = FALSE] /\ UNCHANGED lockVars
     ELSE watch' = [watch EXCEPT !.timer = FALSE, !.building = TRUE, !.planned = FALSE] /\ EnterDev
  /\ UNCHANGED <<unbuilt, besidesWatch>>

TimerFires ==
  /\ Watching /\ watch.timer
  /\ IF watch.building THEN watch' = [watch EXCEPT !.timer = FALSE, !.queued = TRUE] /\ UNCHANGED lockVars
     ELSE watch' = [watch EXCEPT !.timer = FALSE, !.building = TRUE, !.planned = FALSE] /\ EnterDev
  /\ UNCHANGED <<unbuilt, besidesWatch>>

(* The end of a rebuild.  One that did not get the lock says so and is not *)
(* tried again.                                                            *)
RebuildEnds ==
  /\ Watching /\ watch.building /\ queues[Dev] = <<>>
  /\ IF watch.queued THEN /\ watch' = [watch EXCEPT !.queued = FALSE, !.planned = FALSE]
                          /\ EnterDev /\ unbuilt' = unbuilt
     ELSE /\ watch' = [watch EXCEPT !.building = FALSE]
          /\ unbuilt' = (unbuilt /\ watch.planned)
          /\ UNCHANGED lockVars
  /\ UNCHANGED besidesWatch

(***************************************************************************)
(* Calls of `build' start at any time, `dev' starts with its first.        *)
(***************************************************************************)
StartCall(c) ==
  /\ Home[c] = Dev => \A d \in Calls : Home[d] = Dev => step[d] = "idle"
  /\ Enter(c) /\ UNCHANGED workVars

WorkStep(c) ==
  \/ Plan(c) \/ ReadInput(c) \/ FinishPass(c) \/ FailPass(c) \/ CheckAll(c) \/ Publish(c)
  \/ Finalize(c) \/ SaveManifest(c) \/ ServerOnly(c) \/ StartWatching(c) \/ CompileClient(c)
  \/ CancelClient(c) \/ PublishFile(c) \/ Prune(c)

LockMoves(c) == LockStep(c) /\ UNCHANGED workVars

BuildNext ==
  \/ \E c \in Calls : StartCall(c) \/ LockMoves(c) \/ WorkStep(c) \/ (GiveUp(c) /\ UNCHANGED workVars)
  \/ \E p \in Processes : (Die(p) \/ ReuseNumber(p)) /\ UNCHANGED workVars
  \/ Edit \/ HandChange \/ WatchEvent \/ TimerFires \/ RebuildEnds

buildVars == <<lockVars, workVars>>

BuildSpec == LockInit /\ BuildInit /\ [][BuildNext]_buildVars

(* Two calls never build the same checkout at once, whichever processes    *)
(* died, reaped or were slow to, and the lock stays that of the one that   *)
(* builds (withCompilerLock).                                              *)
Holding == {"write", "work", "compile", "publish", "finalize", "save", "built", "client", "release", "remove"}

Holds(c) == step[c] \in Holding /\ process[Home[c]] = "up"

OneBuilder ==
  \A c \in Calls : Holds(c) =>
    /\ lock = c \/ (lock = Unwritten /\ step[c] \in {"write", "release", "remove"})
    /\ \A d \in Calls \ {c} : ~Holds(d)

(* A build that succeeds leaves the artifacts of one state of the sources, *)
(* that of its last check: edits while tiers compile, reused tiers, builds *)
(* that died half-way and artifacts changed by hand leave no mixture       *)
(* (runCompilerPasses, compilerCacheMiss).                                 *)
OneGeneration ==
  \A c \in Calls : At(c, "built") =>
    \A t \in TierSet : output[t] = Compiled(Inputs(t, work[c].checked), TRUE)

(* A document in the client's directory finds every file of its release    *)
(* there, while a build publishes, when it dies half-way and when the next *)
(* one cleans up; but for a document the new release dropped, which may be *)
(* removed after its files (ClientPublication.run).                        *)
DocumentsComplete ==
  \A d \in (DOMAIN site \cap AllDocuments) \ dropped : Assets[site[d]] \subseteq DOMAIN site

(* What a build leaves belongs together: its tiers are of one source, and  *)
(* every document finds the files it names.                                *)
BuildWhole == OneGeneration /\ DocumentsComplete

(* While dev watches, an edit of a watched source is followed by a build   *)
(* that starts after it, or the rebuild that could not get the lock said   *)
(* so: none is forgotten between its event, those of other files, the      *)
(* timer, the build that runs and the one queued behind it (watchServer).  *)
NoEditForgotten ==
  Watching /\ unbuilt =>
    \/ watch.event \cap Watched # {} \/ watch.timer \/ watch.queued
    \/ watch.building /\ ~watch.planned
=============================================================================
