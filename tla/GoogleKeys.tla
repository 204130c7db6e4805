----------------------------- MODULE GoogleKeys -----------------------------
(***************************************************************************)
(* The keys of Google that verify its identity tokens (src/src/devserver/  *)
(* runtime/google.ts): fetched by one dispatch for all, kept for as long   *)
(* as the answer says, and fetched again, but not often, when a token      *)
(* names a key that is not among them.                                     *)
(*                                                                         *)
(* A key is known by its kid; Google publishes some and takes others away  *)
(* at any time.  What else a token must satisfy does not depend on time    *)
(* spent here and is left out.                                             *)
(***************************************************************************)
EXTENDS Naturals

CONSTANTS
  Kids,        (* keys that Google ever publishes                          *)
  Lifetimes,   (* max-age of an answer, in the units of the clock          *)
  MaxLifetime, (* 21600 s                                                  *)
  Cooldown,    (* 30 s                                                     *)
  FetchLimit,  (* AbortSignal.timeout: 5 s                                 *)
  MaxSecond    (* bound: the last moment explored                          *)

ASSUME KeysAssumption ==
  /\ Lifetimes \subseteq Nat /\ MaxLifetime \in Nat \ {0} /\ Cooldown \in Nat \ {0}
  /\ FetchLimit \in Nat /\ MaxSecond \in Nat

VARIABLES
  second,     (* Date.now()                                                *)
  published,  (* the keys of Google                                        *)
  gone,       (* since when a key is no longer published                   *)
  known,      (* keys, expires, refreshAfter, needsRefresh                 *)
  fetch,      (* the fetch under way, `pending'                            *)
  late,       (* history: how long after its key was gone the last token   *)
              (* of such a key was accepted                                *)
  spacing     (* history: the least time between two fetches               *)

keyVars == <<second, published, gone, known, fetch, late, spacing>>

Least(a, b) == IF a < b THEN a ELSE b

NoFetch == [phase |-> "none", since |-> 0, body |-> {}]

KeysInit ==
  /\ second = 0 /\ published = Kids /\ gone = [k \in Kids |-> 0]
  /\ known = [keys |-> {}, expires |-> 0, after |-> 0, need |-> FALSE]
  /\ fetch = NoFetch
  /\ late = 0 /\ spacing = Cooldown

(* prepareGoogleKeys at the beginning of a dispatch; one that finds a      *)
(* fetch under way waits for it, and one that needs none goes on.          *)
PrepareGoogleKeys ==
  /\ fetch = NoFetch
  /\ known.need \/ second >= known.expires
  /\ second >= known.after
  /\ spacing' = IF known.after = 0 THEN spacing ELSE Least(spacing, Cooldown + second - known.after)
  /\ known' = [known EXCEPT !.after = second + Cooldown]
  /\ fetch' = [phase |-> "asked", since |-> second, body |-> {}]
  /\ UNCHANGED <<second, published, gone, late>>

(* Google answers with the keys of that moment, or with nothing usable.    *)
GoogleAnswers ==
  /\ fetch.phase = "asked"
  /\ fetch' = [fetch EXCEPT !.phase = "answered", !.body = published]
  /\ UNCHANGED <<second, published, gone, known, late, spacing>>

(* The answer has arrived: its time counts from here.                      *)
KeysArrive ==
  /\ fetch.phase = "answered" /\ fetch.body # {}
  /\ \E ttl \in Lifetimes :
       known' = [known EXCEPT !.keys = fetch.body, !.need = FALSE,
                              !.expires = second + Least(ttl, MaxLifetime)]
  /\ fetch' = NoFetch
  /\ UNCHANGED <<second, published, gone, late, spacing>>

FetchFails ==
  /\ fetch # NoFetch /\ fetch' = NoFetch
  /\ UNCHANGED <<second, published, gone, known, late, spacing>>

Lateness(k) == IF k \in published THEN 0 ELSE second - gone[k]

(* verifyGoogleToken: a token of an unknown key asks for a refresh, but    *)
(* only while the keys themselves are good.                                *)
VerifyGoogleToken ==
  \E k \in Kids :
    /\ second < known.expires
    /\ IF k \in known.keys
       THEN late' = Lateness(k) /\ UNCHANGED known
       ELSE known' = [known EXCEPT !.need = TRUE] /\ UNCHANGED late
    /\ UNCHANGED <<second, published, gone, fetch, spacing>>

Rotate ==
  \E k \in Kids :
    /\ \/ k \in published /\ published' = published \ {k} /\ gone' = [gone EXCEPT ![k] = second]
       \/ k \notin published /\ published' = published \cup {k} /\ gone' = [gone EXCEPT ![k] = 0]
    /\ UNCHANGED <<second, known, fetch, late, spacing>>

SecondPasses ==
  /\ second < MaxSecond /\ second' = second + 1
  /\ fetch # NoFetch => second - fetch.since < FetchLimit
  /\ UNCHANGED <<published, gone, known, fetch, late, spacing>>

KeysNext ==
  \/ PrepareGoogleKeys \/ GoogleAnswers \/ KeysArrive \/ FetchFails
  \/ VerifyGoogleToken \/ Rotate \/ SecondPasses

KeysSpec == KeysInit /\ [][KeysNext]_keyVars

(* A key that Google has taken away verifies nothing any longer once the   *)
(* longest lifetime and one fetch have passed, whatever fetches failed in  *)
(* between and whatever kids were asked for; and nobody makes this server  *)
(* ask Google more than once in a cooldown (google.ts, "never one outbound *)
(* request per random kid").                                               *)
KeysHonest ==
  /\ late < MaxLifetime + FetchLimit
  /\ spacing >= Cooldown
=============================================================================
