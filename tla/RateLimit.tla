----------------------------- MODULE RateLimit -----------------------------
(***************************************************************************)
(* One route with @ratelimit, seen by one caller (src/src/devserver/       *)
(* config/ratelimit.ts): what each of the four strategies admits.          *)
(*                                                                         *)
(* Routes and callers have counters of their own, so one of each is        *)
(* enough.  The clock is Date.now() and does not step back here.           *)
(***************************************************************************)
EXTENDS Naturals, Sequences

CONSTANTS
  Strategies,  (* those explored, of "fixed", "sliding", "bucket", "trailing" *)
  Rules,       (* pairs of numbers given to the decorator                 *)
  Milli,       (* clock ticks of a second: 1000 in the code               *)
  MaxClock     (* bound: the last moment explored                         *)

ASSUME RateAssumption ==
  /\ Strategies \subseteq {"fixed", "sliding", "bucket", "trailing"}
  /\ Rules \subseteq Nat \X Nat /\ Milli \in Nat \ {0} /\ MaxClock \in Nat

VARIABLES
  clock,      (* Date.now()                                               *)
  limiter,    (* the RouteLimiter: it keeps the rule it was first given   *)
  counter,    (* the KeyState of the caller                               *)
  admitted    (* history: when each request that was let in came          *)

rateVars == <<clock, limiter, counter, admitted>>

Larger(a, b) == IF a > b THEN a ELSE b
Smaller(a, b) == IF a < b THEN a ELSE b

(* The decorator's two numbers, at least one each.                         *)
RateInit ==
  /\ clock = 0
  /\ \E s \in Strategies, r \in Rules :
       limiter = [strategy |-> s, limit |-> Larger(1, r[1]), window |-> Larger(1, r[2])]
  /\ counter = [tokens |-> limiter.limit * Milli, last |-> 0,
                window |-> 0, cur |-> 0, prev |-> 0, events |-> <<>>]
  /\ admitted = <<>>

WindowMs == limiter.window * Milli

Verdict(allowed) == admitted' = IF allowed THEN Append(admitted, clock) ELSE admitted

(***************************************************************************)
(* checkBucket: thousandths of tokens come back with the time, and a       *)
(* request takes a whole one.                                              *)
(***************************************************************************)
Refilled == Smaller(limiter.limit * Milli,
                    counter.tokens + (clock - counter.last) * limiter.window)

CheckBucket ==
  LET allowed == Refilled >= Milli
  IN /\ limiter.strategy = "bucket" /\ Verdict(allowed)
     /\ counter' = [counter EXCEPT !.tokens = IF allowed THEN Refilled - Milli ELSE Refilled,
                                   !.last = clock]
     /\ UNCHANGED <<clock, limiter>>

(***************************************************************************)
(* checkWindow: buckets aligned to the clock; the sliding one weighs the   *)
(* one before by the part of it that is still in reach, rounded down.      *)
(***************************************************************************)
(* Mutant: the window before is forgotten.                                 *)
RolledAlone ==
  LET this == clock \div WindowMs
  IN IF this > counter.window THEN [counter EXCEPT !.window = this, !.prev = 0, !.cur = 0] ELSE counter

Rolled ==
  LET this == clock \div WindowMs
  IN CASE this = counter.window + 1 ->
            [counter EXCEPT !.window = this, !.prev = counter.cur, !.cur = 0]
       [] this > counter.window + 1 ->
            [counter EXCEPT !.window = this, !.prev = 0, !.cur = 0]
       [] OTHER -> counter

Effective(c) ==
  IF limiter.strategy = "sliding"
    THEN (c.prev * (WindowMs - (clock % WindowMs))) \div WindowMs + c.cur
    ELSE c.cur

CheckWindow ==
  LET allowed == Effective(Rolled) < limiter.limit
  IN /\ limiter.strategy \in {"fixed", "sliding"} /\ Verdict(allowed)
     /\ counter' = [Rolled EXCEPT !.cur = IF allowed THEN @ + 1 ELSE @, !.last = clock]
     /\ UNCHANGED <<clock, limiter>>

(***************************************************************************)
(* checkTrailing: the times of what was let in; those at the front that    *)
(* are old are passed over, up to the first one that is not.               *)
(***************************************************************************)
StillIn(t) == t + WindowMs > clock

Skips(events, n) ==
  /\ \A k \in 1..n : ~StillIn(events[k])
  /\ n < Len(events) => StillIn(events[n + 1])

Recent(events) ==
  SubSeq(events, 1 + CHOOSE n \in 0..Len(events) : Skips(events, n), Len(events))

CheckTrailing ==
  LET events == Recent(counter.events)
      allowed == Len(events) < limiter.limit
  IN /\ limiter.strategy = "trailing" /\ Verdict(allowed)
     /\ counter' = [counter EXCEPT !.events = IF allowed THEN Append(events, clock) ELSE events,
                                   !.last = clock]
     /\ UNCHANGED <<clock, limiter>>

ClockTicks ==
  /\ clock < MaxClock /\ clock' = clock + 1
  /\ UNCHANGED <<limiter, counter, admitted>>

RateNext == CheckBucket \/ CheckWindow \/ CheckTrailing \/ ClockTicks

RateSpec == RateInit /\ [][RateNext]_rateVars

(***************************************************************************)
(* What each strategy promises of the n requests it lets in from one       *)
(* moment to another, `span' ticks later (docs/services/ratelimit.md,      *)
(* "The four strategies").                                                 *)
(***************************************************************************)
RoundedUp(a, b) == (a + b - 1) \div b

Bound(span) ==
  CASE limiter.strategy = "bucket" -> (limiter.limit * Milli + span * limiter.window) \div Milli
    [] limiter.strategy = "trailing" -> limiter.limit
    [] limiter.strategy = "fixed" -> 2 * limiter.limit
    [] limiter.strategy = "sliding" -> limiter.limit
         + (IF span = 0 THEN 0 ELSE RoundedUp(limiter.limit * (span - 1), WindowMs))

(* A bucket bounds what any stretch lets in, the others one of a window.   *)
InReach(span) == limiter.strategy = "bucket" \/ span < WindowMs

(* A caller gets no more through than the strategy says, over any stretch  *)
(* of time that it chooses and whatever it tries in between: the trailing  *)
(* window is exact, a bucket is its burst and its refill, a fixed window   *)
(* is twice its limit around a boundary, and a sliding one lets only what  *)
(* has passed of the new window come on top of a full one before it.       *)
WithinRate ==
  \A i, j \in 1..Len(admitted) : LET span == admitted[j] - admitted[i] IN
    i <= j /\ InReach(span) => j - i + 1 <= Bound(span)
=============================================================================
