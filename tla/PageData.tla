------------------------------ MODULE PageData ------------------------------
(***************************************************************************)
(* The data of the page a browser shows: loaders and their cache           *)
(* (src/src/client/routing/loader.ts), navigation (navigation/navigation.ts*)
(* and prefetch.ts) and the actions that write and then revalidate         *)
(* (routing/action.ts).                                                    *)
(*                                                                         *)
(* Scripts of one page never interleave: a step is one callback.  Fetches, *)
(* writes and renders overlap between them.  A page is one entry of the    *)
(* cache; its layouts and slots have entries of their own, read alike.     *)
(***************************************************************************)
EXTENDS Naturals, Sequences, FiniteSets

CONSTANTS
  Pages,         (* URLs: pathname and search                             *)
  Policy,        (* revalidate of each: "each" is 0, "timed" a number of  *)
                 (* seconds, "forever" false, "none" a page with no loader*)
  Start,         (* the URL of the document                               *)
  Runs,          (* actions that may be under way                         *)
  MaxEntries,    (* MAX_ENTRIES: 32                                       *)
  MaxFetches,    (* bound: fetches that ever start                        *)
  MaxEpoch,      (* bound: navigations and refreshes                      *)
  MaxWrites      (* bound: writes                                         *)

ASSUME PageAssumption ==
  /\ Policy \in [Pages -> {"each", "timed", "forever", "none"}] /\ Start \in Pages
  /\ MaxEntries \in Nat \ {0} /\ MaxFetches \in Nat \ {0}
  /\ MaxEpoch \in Nat /\ MaxWrites \in Nat

VARIABLES
  served,     (* the server's data of each page: how often it was written *)
  cache,      (* the keys, with their entries and the fetch each key came *)
              (* with: a key keeps its place in the order of the map      *)
  fetches,    (* every entry ever made; evicted or invalidated ones Gone  *)
  warmed,     (* prefetch.ts dataWarmed                                   *)
  location, epoch,   (* window.location, navigationEpoch()                *)
  shown,      (* the data last rendered, and what was owed to the page    *)
  runs,       (* useAction: a write under way, and what it revalidates    *)
  owed        (* history: the write that each page must show by now       *)

pageVars == <<served, cache, fetches, warmed, location, epoch, shown, runs, owed>>

(* An entry: `data' is what its loader read, NotRead before that.          *)
NotRead == MaxWrites + 1

Fetch(k, ahead) == [key |-> k, status |-> "pending", epoch |-> epoch, prefetched |-> ahead,
                    loads |-> Policy[k] # "none", data |-> NotRead, used |-> {}]

Gone == [key |-> Start, status |-> "gone", epoch |-> 0, prefetched |-> FALSE,
         loads |-> FALSE, data |-> NotRead, used |-> {}]

Under(k)  == {c \in cache : c.key = k}
Cached(k) == {c.entry : c \in Under(k)}

Idle == [at |-> "idle", key |-> Start, targets |-> {}, wrote |-> 0]

(* hydrateLoaderData: the document came with the data of its page; the     *)
(* module of the page is still to load.                                    *)
PageInit ==
  /\ served = [k \in Pages |-> 0]
  /\ cache = {[key |-> Start, entry |-> 1, since |-> 1]}
  /\ fetches = <<[key |-> Start, status |-> "pending", epoch |-> 0, prefetched |-> TRUE,
                  loads |-> TRUE, data |-> 0, used |-> {}]>>
  /\ warmed = {} /\ location = Start /\ epoch = 0
  /\ shown = [data |-> 0, owed |-> 0]
  /\ runs = [r \in Runs |-> Idle]
  /\ owed = [k \in Pages |-> 0]

(***************************************************************************)
(* startFetch: a new entry under the key; the oldest entries leave, until  *)
(* the key itself is the oldest.                                           *)
(***************************************************************************)
Drop(fs, gone) == [i \in 1..Len(fs) |-> IF i \in gone THEN Gone ELSE fs[i]]

StartFetch(k, ahead) ==
  LET id   == Len(fetches) + 1
      next == (cache \ Under(k))
                \cup {[key |-> k, entry |-> id, since |-> since] :
                        since \in IF Under(k) = {} THEN {id} ELSE {c.since : c \in Under(k)}}
      over == {c \in next : /\ c.key # k
                            /\ Cardinality({d \in next : d.since > c.since}) >= MaxEntries}
  IN /\ Len(fetches) < MaxFetches
     /\ cache' = next \ over
     /\ fetches' = Append(Drop(fetches, {c.entry : c \in over}), Fetch(k, ahead))

(* The loader reads the server at some moment after its fetch started.     *)
(* Nobody looks at what a fetch that is gone settles to.                   *)
LoaderReads ==
  \E i \in 1..Len(fetches) :
    /\ fetches[i].status = "pending" /\ fetches[i].data = NotRead
    /\ fetches' = [fetches EXCEPT ![i].data = served[fetches[i].key]]
    /\ UNCHANGED <<served, cache, warmed, location, epoch, shown, runs, owed>>

Settle ==
  \E i \in 1..Len(fetches), status \in {"done", "error"} :
    /\ fetches[i].status = "pending"
    /\ status = "done" => fetches[i].data # NotRead
    /\ fetches' = [fetches EXCEPT ![i].status = status]
    /\ UNCHANGED <<served, cache, warmed, location, epoch, shown, runs, owed>>

(* isStale of a settled entry: a failure is kept for its navigation, so    *)
(* that it is shown and not fetched again; a number of seconds may have    *)
(* passed or not.                                                          *)
FailedBefore(f) == f.status = "error" /\ f.epoch # epoch

Stale(f) ==
  \/ FailedBefore(f)
  \/ /\ f.status = "done" /\ f.loads /\ Policy[f.key] \in {"each", "none"}
     /\ ~f.prefetched /\ f.epoch # epoch

Expired(f) == f.status = "done" /\ f.loads /\ Policy[f.key] = "timed"

(***************************************************************************)
(* readRouteData, when React renders the page of the location: a missing   *)
(* or stale entry is fetched, a settled one shown or its error thrown, and *)
(* a prefetched one claimed for this navigation.                           *)
(***************************************************************************)
Claim(f) == [f EXCEPT !.used = @ \cup {epoch}, !.prefetched = FALSE,
                      !.epoch = IF f.prefetched THEN epoch ELSE @]

Refetch ==
  /\ \A i \in Cached(location) : Stale(fetches[i]) \/ Expired(fetches[i])
  /\ StartFetch(location, FALSE)
  /\ UNCHANGED <<served, warmed, location, epoch, shown, runs, owed>>

Show ==
  \E i \in Cached(location) :
    /\ fetches[i].status = "done" /\ ~Stale(fetches[i])
    /\ fetches' = [fetches EXCEPT ![i] = Claim(fetches[i])]
    /\ shown' = [data |-> fetches[i].data, owed |-> owed[location]]
    /\ UNCHANGED <<served, cache, warmed, location, epoch, runs, owed>>

(***************************************************************************)
(* navigate and popstate; prefetchData when a link is pointed at.          *)
(***************************************************************************)
Navigate ==
  /\ epoch < MaxEpoch /\ epoch' = epoch + 1
  /\ \E k \in Pages : location' = k
  /\ UNCHANGED <<served, cache, fetches, warmed, shown, runs, owed>>

PrefetchData ==
  \E k \in Pages \ warmed :
    /\ warmed' = warmed \cup {k}
    /\ IF \A i \in Cached(k) : FailedBefore(fetches[i])
       THEN StartFetch(k, TRUE) ELSE UNCHANGED <<cache, fetches>>
    /\ UNCHANGED <<served, location, epoch, shown, runs, owed>>

(***************************************************************************)
(* useAction: the write takes effect at the server, the answer arrives     *)
(* later, then applyRevalidate invalidates and refreshes.  A failed run    *)
(* revalidates nothing.                                                    *)
(***************************************************************************)
RunAction(r) ==
  /\ runs[r].at = "idle"
  /\ \E k \in Pages : \E targets \in {Pages, {k}, {}} :
       runs' = [runs EXCEPT ![r] = [at |-> "sent", key |-> k, targets |-> targets, wrote |-> 0]]
  /\ UNCHANGED <<served, cache, fetches, warmed, location, epoch, shown, owed>>

Write(r) ==
  LET k == runs[r].key
  IN /\ runs[r].at = "sent" /\ served[k] < MaxWrites
     /\ served' = [served EXCEPT ![k] = @ + 1]
     /\ runs' = [runs EXCEPT ![r].at = "written", ![r].wrote = served[k] + 1]
     /\ UNCHANGED <<cache, fetches, warmed, location, epoch, shown, owed>>

ActionFails(r) ==
  /\ runs[r].at \in {"sent", "written"}
  /\ runs' = [runs EXCEPT ![r] = Idle]
  /\ UNCHANGED <<served, cache, fetches, warmed, location, epoch, shown, owed>>

(* invalidateLoaderData forgets the entries, pending ones too.             *)
(* Mutant: what is under way is left alone.                                *)
SettledOf(keys)   == {c \in cache : c.key \in keys /\ fetches[c.entry].status # "pending"}
Invalidated(keys) == {c \in cache : c.key \in keys}

ActionDone(r) ==
  LET q == runs[r]
      gone == Invalidated(q.targets)
  IN /\ q.at = "written"
     /\ q.targets # {} => epoch < MaxEpoch
     /\ cache' = cache \ gone
     /\ fetches' = Drop(fetches, {c.entry : c \in gone})
     /\ epoch' = IF q.targets = {} THEN epoch ELSE epoch + 1
     /\ owed' = IF q.key \in q.targets /\ q.wrote > owed[q.key] THEN [owed EXCEPT ![q.key] = q.wrote] ELSE owed
     /\ runs' = [runs EXCEPT ![r] = Idle]
     /\ UNCHANGED <<served, warmed, location, shown>>

PageNext ==
  \/ LoaderReads \/ Settle \/ Refetch \/ Show \/ Navigate \/ PrefetchData
  \/ \E r \in Runs : RunAction(r) \/ Write(r) \/ ActionFails(r) \/ ActionDone(r)

PageSpec == PageInit /\ [][PageNext]_pageVars

(* Once an action has succeeded and revalidated a page, a render of the    *)
(* page shows what the action wrote or something newer, whichever loaders, *)
(* prefetches and other actions were under way (useAction, startFetch,     *)
(* invalidateLoaderData).                                                  *)
FreshAfterAction == shown.data >= shown.owed

(* Under revalidate = 0 what one fetch brought is shown in one navigation  *)
(* only, and a navigation fetches its page once: neither a prefetched      *)
(* entry nor a failed one, nor a fetch still under way from an earlier     *)
(* visit, makes it show old data or fetch in a loop.  A fetch that was     *)
(* evicted or invalidated does not count (isStale, readRouteData).         *)
OncePerNavigation ==
  \A i, j \in 1..Len(fetches) :
    Policy[fetches[i].key] = "each" =>
      /\ Cardinality(fetches[i].used) <= 1
      /\ i < j /\ fetches[j].key = fetches[i].key
           /\ {fetches[i].status, fetches[j].status} \subseteq {"done", "error"}
         => fetches[j].epoch # fetches[i].epoch

(* The data of a page is of its navigation and of the last action.         *)
PagesCurrent == FreshAfterAction /\ OncePerNavigation
=============================================================================
