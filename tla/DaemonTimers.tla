---------------------------- MODULE DaemonTimers ----------------------------
(***************************************************************************)
(* The timers of @scheduled tasks (src/src/devserver/daemon/index.ts,      *)
(* registerTask, armCron, refresh and stop; cron.ts): a repeating timer    *)
(* for an interval, one timer at a time for a cron expression, in a        *)
(* process whose only thread also runs the tasks.                          *)
(*                                                                         *)
(* A tick runs to its end before any other callback, so the set `ticking'  *)
(* is always empty when a timer fires and is left out, as is runTask,      *)
(* which runs a task without touching its timer.  What a tick does to the  *)
(* database is in EventFold.  The clock does not step, and the run-time    *)
(* fires no timer early.                                                   *)
(***************************************************************************)
EXTENDS Integers, Sequences, FiniteSets, FiniteSetsExt

CONSTANTS
  Crons, Intervals,  (* the tasks of each kind                            *)
  Matches,       (* the minutes in which the masks of a cron match        *)
  Period,        (* the length of an interval                             *)
  MinuteMs,      (* a minute, in units of the shortest timer (1 ms)       *)
  MaxDelay,      (* the longest timer: 2^31-1 ms.  setTimeout takes a     *)
                 (* longer delay for the shortest one                     *)
  Never,         (* no timer                                              *)
  MaxLate,       (* how late a timer fires when nothing else runs         *)
  Busy,          (* how long ticks take                                   *)
  MaxTime, MaxLoads  (* bounds: moments, and loads of the artifact        *)

ASSUME TimersAssumption ==
  /\ Crons \cap Intervals = {}
  /\ Matches \in [Crons -> SUBSET Nat] /\ Period \in [Intervals -> Nat \ {0}]
  /\ {MinuteMs, MaxDelay} \subseteq Nat \ {0} /\ {MaxLate, MaxTime, MaxLoads} \cup Busy \subseteq Nat
  /\ Never \notin Nat

VARIABLES
  now,           (* Date.now()                                            *)
  running,       (* the daemon is started                                 *)
  timers,        (* timers: when the timer of each task is due            *)
  loads,         (* epochValue, which each start bumps, and failed loads  *)
  since,         (* history: when the daemon was last started             *)
  ticks          (* history: the ticks: of which task, from when to when  *)

timerVars == <<now, running, timers, loads, since, ticks>>

Tasks == Crons \cup Intervals
NoTimers == [t \in Tasks |-> Never]

TimersInit ==
  /\ now = 0 /\ running = FALSE /\ timers = NoTimers
  /\ loads = 0 /\ since = 0 /\ ticks = <<>>

MinuteOf(moment) == moment \div MinuteMs

(* nextCronFireMs: the start of the next matching minute after this one.   *)
(* Mutant: after this one, or this one.                                    *)
NextCronFrom(c, moment) ==
  LET later == {m \in Matches[c] : m >= MinuteOf(moment)}
  IN IF later = {} THEN Never ELSE Min(later) * MinuteMs

NextCron(c, moment) ==
  LET later == {m \in Matches[c] : m > MinuteOf(moment)}
  IN IF later = {} THEN Never ELSE Min(later) * MinuteMs

(* What setTimeout and setInterval make of a delay.                        *)
Delay(ms) == IF ms < 1 \/ ms > MaxDelay THEN 1 ELSE ms

(* armCron, and registerTask's setInterval.                                *)
Armed(t, moment) ==
  IF t \in Intervals THEN moment + Delay(Period[t])
  ELSE LET next == NextCron(t, moment)
       IN IF next = Never THEN Never ELSE moment + Delay(next - moment)

(***************************************************************************)
(* The callback of a timer.  The one of a cron looks whether its masks     *)
(* match now, and is armed again once the tick has ended; a repeating one  *)
(* is due again a period after it fired.                                   *)
(***************************************************************************)
Fire(t) ==
  LET runs == t \in Crons => MinuteOf(now) \in Matches[t]
  IN /\ timers[t] # Never /\ timers[t] <= now
     /\ \E busy \in IF runs THEN Busy ELSE {0} :
          /\ now' = now + busy
          /\ ticks' = IF runs THEN Append(ticks, [task |-> t, from |-> now, to |-> now + busy, load |-> loads])
                      ELSE ticks
          /\ timers' = [timers EXCEPT ![t] = Armed(t, IF t \in Crons THEN now + busy ELSE now)]
     /\ UNCHANGED <<running, loads, since>>

(* refresh, for a new cold artifact: the daemon that runs is stopped and   *)
(* its timers are cleared; the new one starts and arms its own, or does    *)
(* not start (no daemon in it, a refused import, a failing onStart).       *)
Refresh(starts) ==
  /\ loads < MaxLoads /\ loads' = loads + 1
  /\ running' = starts /\ since' = now
  /\ timers' = IF starts THEN [t \in Tasks |-> Armed(t, now)] ELSE NoTimers
  /\ UNCHANGED <<now, ticks>>

(* close, or refresh when the artifact is gone.                            *)
Stop ==
  /\ running /\ running' = FALSE /\ timers' = NoTimers
  /\ UNCHANGED <<now, loads, since, ticks>>

ClockMoves ==
  /\ now < MaxTime /\ \A t \in Tasks : timers[t] # Never => now - timers[t] < MaxLate
  /\ now' = now + 1
  /\ UNCHANGED <<running, timers, loads, since, ticks>>

TimersNext ==
  \/ ClockMoves \/ Stop
  \/ \E t \in Tasks : now < MaxTime /\ Fire(t)
  \/ \E starts \in BOOLEAN : Refresh(starts)

TimersSpec == TimersInit /\ [][TimersNext]_timerVars

(***************************************************************************)
(* Properties                                                              *)
(***************************************************************************)
SameMinute(x, y) == x.task = y.task /\ MinuteOf(x.from) = MinuteOf(y.from)

(* A task runs at most once per due tick (docs/concepts/tiers.md:104), and *)
(* the ticks of a cron are minutes (docs/background/daemons.md:63).        *)
OncePerMinute ==
  \A i, j \in 1..Len(ticks) :
    i < j /\ ticks[i].task \in Crons => ~SameMinute(ticks[i], ticks[j])

(* Some tick runs from before a moment to it or past it.                   *)
During(moment, tasks) ==
  \E i \in 1..Len(ticks) : ticks[i].task \in tasks /\ ticks[i].from < moment /\ ticks[i].to >= moment

(* However ticks overrun and hold each other up, and whenever the artifact *)
(* is replaced: a cron ticks twice in a minute only when its next minute   *)
(* is further away than a timer reaches, and misses one only if its own    *)
(* tick went on into it or some tick to its end; and an interval is never  *)
(* shorter than its period while one artifact is loaded.                   *)
OnSchedule ==
  /\ \A i, j \in 1..Len(ticks) : LET x == ticks[i] y == ticks[j] IN
       /\ i < j /\ x.task \in Crons /\ SameMinute(x, y) =>
            LET next == NextCron(x.task, x.to) IN next # Never /\ next - x.to > MaxDelay
       /\ i < j /\ x.task \in Intervals /\ x.task = y.task /\ x.load = y.load =>
            y.from - x.from >= Period[x.task]
  /\ running =>
       \A c \in Crons : \A m \in Matches[c] :
         (since < m * MinuteMs /\ (m + 1) * MinuteMs <= now) =>
            \/ \E i \in 1..Len(ticks) : ticks[i].task = c /\ MinuteOf(ticks[i].from) = m
            \/ During(m * MinuteMs, {c}) \/ During((m + 1) * MinuteMs, Tasks)
=============================================================================
