--------------------------- MODULE ResponseCache ---------------------------
(***************************************************************************)
(* The cache of responses in front of the guest (src/src/devserver/http/   *)
(* cache.ts, and dispatchEnvelopeRequest of http/runtime.ts): what a       *)
(* directive of the application lets one request's answer do for others.   *)
(*                                                                         *)
(* A dispatch awaits the guest between the lookup and the store, so two    *)
(* requests for one page may answer in either order.  A key stands for     *)
(* host, method, path and body; only methods that may be cached are shown. *)
(***************************************************************************)
EXTENDS Naturals, FiniteSets

CONSTANTS
  Visitors,    (* callers that send a cookie or an authorization           *)
  Anyone,      (* a caller that sends neither                              *)
  Viewed,      (* keys                                                     *)
  Viewers,     (* requests that may run at the same time                   *)
  MaxStored,   (* MAX_ENTRIES: 4096                                        *)
  Minutes,     (* lifetimes a directive may ask for                        *)
  MaxMinutes,  (* MAX_EDGE_MINUTES                                         *)
  MaxGuest,    (* bound: how long the guest takes                          *)
  MaxMoment    (* bound: the last moment explored                          *)

ASSUME CacheAssumption ==
  /\ MaxStored \in Nat \ {0} /\ Minutes \subseteq Nat /\ MaxMinutes \in Nat
  /\ MaxGuest \in Nat /\ MaxMoment \in Nat

VARIABLES
  moment,     (* Date.now(), in minutes                                    *)
  store,      (* entries: a key, its expiry and an answer                  *)
  viewing,    (* requests that wait for the guest                          *)
  reply       (* the last response that was sent, and what it was made of  *)

cacheVars == <<moment, store, viewing, reply>>

Own == [own |-> TRUE]

CacheInit ==
  /\ moment = 0 /\ store = {} /\ viewing = {}
  /\ reply = Own

Keyed(k)    == {e \in store : e.key = k}
Shorter(a, b) == IF a < b THEN a ELSE b

FromCache(answer) == [own |-> FALSE, of |-> answer, age |-> moment - answer.since]

(* lookupCache: an entry that has expired goes.  Who asks does not matter. *)
View(v) ==
  \E k \in Viewed, who \in Visitors \cup {Anyone} :
    LET fresh == {e \in Keyed(k) : e.expiry > moment}
    IN /\ \A q \in viewing : q.by # v
       /\ \/ \E e \in fresh : reply' = FromCache(e.answer) /\ UNCHANGED <<store, viewing>>
          \/ /\ fresh = {} /\ store' = store \ Keyed(k)
             /\ viewing' = viewing \cup {[by |-> v, key |-> k, who |-> who, since |-> moment]}
             /\ UNCHANGED reply
       /\ UNCHANGED moment

(* Mutant: an answer for a visitor is stored like any other.               *)
EligibleAnyone(answer) == answer.minutes > 0 /\ answer.good /\ ~answer.cookie

(* What goes into the cache.  The scope of the directive only words the     *)
(* header for the browser: a private answer is stored like any other.      *)
Eligible(answer) ==
  /\ answer.minutes > 0 /\ answer.good /\ ~answer.cookie
  /\ answer.for = Anyone \/ answer.auth

(* A full cache drops what has expired, and if that is nothing, all.       *)
Kept ==
  LET left == {e \in store : e.expiry > moment}
  IN IF Cardinality(store) < MaxStored THEN store
     ELSE IF Cardinality(left) < MaxStored THEN left ELSE {}

(* What the guest may answer: with a status of success or another, with or *)
(* without Set-Cookie, by a directive or by none (no minutes) that allows  *)
(* sharing what was made for a visitor (auth) or marks it private.         *)
Answers(q) == [for : {q.who}, since : {q.since}, minutes : Minutes, auth : BOOLEAN,
               private : BOOLEAN, cookie : BOOLEAN, good : BOOLEAN]

Entry(q, answer) == [key |-> q.key, answer |-> answer,
                     expiry |-> moment + Shorter(answer.minutes, MaxMinutes)]

(* When the guest has answered.                                            *)
ApplyCacheRule(v) ==
  \E q \in viewing : \E answer \in Answers(q) :
    /\ q.by = v
    /\ reply' = Own
    /\ store' = IF Eligible(answer) THEN {e \in Kept : e.key # q.key} \cup {Entry(q, answer)}
                ELSE store
    /\ viewing' = viewing \ {q}
    /\ UNCHANGED moment

(* The guest fails: nothing is stored.                                     *)
GuestFails(v) ==
  \E q \in viewing :
    /\ q.by = v /\ viewing' = viewing \ {q}
    /\ UNCHANGED <<moment, store, reply>>

MinutePasses ==
  /\ moment < MaxMoment /\ moment' = moment + 1
  /\ \A q \in viewing : moment - q.since < MaxGuest
  /\ UNCHANGED <<store, viewing, reply>>

CacheNext ==
  \/ \E v \in Viewers : View(v) \/ ApplyCacheRule(v) \/ GuestFails(v)
  \/ MinutePasses

CacheSpec == CacheInit /\ [][CacheNext]_cacheVars

(* An answer that was made for another request carries no cookie, is no    *)
(* visitor's unless the application said so, and is no older than it       *)
(* allowed, plus the time the guest took: however many requests for the    *)
(* page ran at once, and in whatever order they ended (cache.ts, "Same     *)
(* safety rails as the edge").  The cache stays within its size.  Two more *)
(* things the documentation promises are not so, and not claimed: that an  *)
(* answer shared by auth never goes to a caller without cookie or          *)
(* authorization (docs/services/caching.md:117; lookupCache asks nobody),  *)
(* and that a private one is never in this cache (caching.md:48, 87).      *)
SharedRightly ==
  /\ Cardinality(store) <= MaxStored
  /\ \A e, f \in store : e.key = f.key => e = f
  /\ ~reply.own => /\ reply.of.good /\ ~reply.of.cookie
                   /\ reply.of.for = Anyone \/ reply.of.auth
                   /\ reply.age <= Shorter(reply.of.minutes, MaxMinutes) + MaxGuest
=============================================================================
