----------------------------- MODULE RateLimiter -----------------------------
(***************************************************************************)
(* The rate limiter of antikythera-security (src/rate_limit.rs): three     *)
(* sliding windows per session behind one mutex, the limit on sessions,    *)
(* the cleanup thread and update_config.                                   *)
(*                                                                         *)
(* Time is a number of ticks, and an instant is kept as its age.  Every    *)
(* operation holds the mutex from its first read to its last write, so it  *)
(* is one action; the cleanup thread takes the mutex between them.         *)
(***************************************************************************)
EXTENDS Integers, Subsequences

CONSTANTS
  Sessions,
  Configs,      \* values of RateLimitConfig that update_config may install
  First,        \* the one RateLimiter::new is given
  Size,         \* of each window, in ticks: 60 s, 3600 s and 86400 s
  IdleTimeout,  \* 300 s, after which the cleanup drops a session
  Interval,     \* cleanup_interval_secs
  Width,        \* 2^32, the modulus of the limits
  MaxUpdates    \* bound on the calls of update_config

Windows == {"minute", "hour", "day"}

\* The windows that check asks before w.
Before(w) ==
  CASE w = "minute" -> {}
    [] w = "hour" -> {"minute"}
    [] w = "day" -> {"minute", "hour"}

ASSUME ConfigsAreConfigs ==
  /\ First \in Configs
  /\ \A c \in Configs :
       /\ c.enabled \in BOOLEAN
       /\ c.limit \in [Windows -> 0..(Width - 1)]
       /\ c.burst \in 0..(Width - 1)
       /\ c.sessions \in Nat
  /\ Width \in Nat \ {0} /\ Interval \in Nat

\* A session that is idle for so long that it is dropped has nothing left in
\* its minute (60 s and 300 s in the code).
ASSUME SizesAreOrdered ==
  /\ \A w \in Windows : Size[w] \in Nat \ {0}
  /\ IdleTimeout \in Nat
  /\ Size["minute"] <= IdleTimeout
  /\ IdleTimeout < Size["hour"] /\ Size["hour"] < Size["day"]

VARIABLES
  config,
  tracked,   \* the keys of session_limits
  window,    \* ages of the requests in each window, expired ones included
  limits,    \* max_requests and burst_allowance of the windows of a session
  idle,      \* age of last_activity, up to IdleTimeout
  cleaner,   \* whether the cleanup thread runs
  elapsed,   \* of its loop, up to Interval
  updates,   \* history: calls of update_config
  served     \* history: ages of the requests of a day that were let through
             \* and that nobody asked to forget

tracking == <<tracked, window, limits, idle>>
thread == <<cleaner, elapsed>>
rateVars == <<config, tracking, thread, updates, served>>

Empty == [w \in Windows |-> <<>>]

LimitsOf(c) == [limit |-> c.limit, burst |-> c.burst]

RateInit ==
  /\ config = First
  /\ tracked = {}
  /\ window = [s \in Sessions |-> Empty]
  /\ limits = [s \in Sessions |-> LimitsOf(First)]
  /\ idle = [s \in Sessions |-> 0]
  /\ cleaner = First.enabled /\ elapsed = 0
  /\ updates = 0
  /\ served = [s \in Sessions |-> <<>>]

-----------------------------------------------------------------------------
(* TimeWindow::check *)

Younger(ages, n) == Subsequence(ages, {i \in DOMAIN ages : ages[i] < n})

Retained(s, w) == Younger(window[s][w], Size[w])

\* The sum of two u32 wraps.
EffectiveLimit(l, w) == (l.limit[w] + l.burst) % Width

HasRoom(s, l, w) == Len(Retained(s, w)) < EffectiveLimit(l, w)

-----------------------------------------------------------------------------
(* Mutant of Charged: the day is charged first. *)
ChargedDayFirst(s, l) ==
  [w \in Windows |->
    IF w = "day" \/ \A v \in Before(w) : HasRoom(s, l, v)
    THEN Retained(s, w) \o IF HasRoom(s, l, w) THEN <<0>> ELSE <<>>
    ELSE window[s][w]]

\* check asks the windows in order and stops at the first that is full; what
\* the ones before it recorded stays.
Charged(s, l) ==
  [w \in Windows |->
    IF \A v \in Before(w) : HasRoom(s, l, v)
    THEN Retained(s, w) \o IF HasRoom(s, l, w) THEN <<0>> ELSE <<>>
    ELSE window[s][w]]

\* A session that is not tracked yet gets windows with the present limits.
\* record_request is the same call.
Check(s) ==
  LET l == IF s \in tracked THEN limits[s] ELSE LimitsOf(config) IN
  /\ config.enabled
  /\ s \in tracked \/ Cardinality(tracked) < config.sessions
  /\ tracked' = tracked \cup {s}
  /\ limits' = [limits EXCEPT ![s] = l]
  /\ idle' = [idle EXCEPT ![s] = 0]
  /\ window' = [window EXCEPT ![s] = Charged(s, l)]
  /\ served' = [served EXCEPT ![s] =
                  IF \A w \in Windows : HasRoom(s, l, w) THEN Append(@, 0) ELSE @]
  /\ UNCHANGED <<config, thread, updates>>

ResetSession(s) ==
  /\ s \in tracked
  /\ window' = [window EXCEPT ![s] = Empty]
  /\ served' = [served EXCEPT ![s] = <<>>]
  /\ UNCHANGED <<config, tracked, limits, idle, thread, updates>>

RemoveSession(s) ==
  /\ s \in tracked
  /\ tracked' = tracked \ {s}
  /\ window' = [window EXCEPT ![s] = Empty]
  /\ served' = [served EXCEPT ![s] = <<>>]
  /\ UNCHANGED <<config, limits, idle, thread, updates>>

(* Mutant of UpdateConfig: the shutdown flag stays set, and the new thread
   stops at its first tick. *)
UpdateConfigStops(c) ==
  /\ updates < MaxUpdates
  /\ updates' = updates + 1
  /\ config' = c
  /\ cleaner' = FALSE /\ elapsed' = 0
  /\ UNCHANGED <<tracking, served>>

\* The thread is joined and, if the limiter is enabled, started anew.
UpdateConfig(c) ==
  /\ updates < MaxUpdates
  /\ updates' = updates + 1
  /\ config' = c
  /\ cleaner' = c.enabled /\ elapsed' = 0
  /\ UNCHANGED <<tracking, served>>

Idle(s) == idle[s] >= IdleTimeout

(* Mutant of Cleanup: it drops every session. *)
CleanupAll ==
  /\ cleaner /\ elapsed >= Interval
  /\ elapsed' = 0
  /\ tracked' = {}
  /\ window' = [s \in Sessions |-> Empty]
  /\ UNCHANGED <<config, limits, idle, cleaner, updates, served>>

Cleanup ==
  /\ cleaner /\ elapsed >= Interval
  /\ elapsed' = 0
  /\ tracked' = {s \in tracked : ~Idle(s)}
  /\ window' = [s \in Sessions |-> IF Idle(s) THEN Empty ELSE window[s]]
  /\ UNCHANGED <<config, limits, idle, cleaner, updates, served>>

Older(a, bound) == IF a < bound THEN a + 1 ELSE bound

Aged(ages, bound) == [i \in DOMAIN ages |-> Older(ages[i], bound)]

\* Time passes.
Tick ==
  /\ window' = [s \in Sessions |-> [w \in Windows |-> Aged(window[s][w], Size[w])]]
  /\ served' = [s \in Sessions |-> Younger(Aged(served[s], Size["day"]), Size["day"])]
  /\ idle' = [s \in Sessions |-> IF s \in tracked THEN Older(idle[s], IdleTimeout) ELSE 0]
  /\ elapsed' = Older(elapsed, Interval)
  /\ UNCHANGED <<config, tracked, limits, cleaner, updates>>

RateNext ==
  \/ \E s \in Sessions : Check(s) \/ ResetSession(s) \/ RemoveSession(s)
  \/ \E c \in Configs : UpdateConfig(c)
  \/ Cleanup \/ Tick

RateSpec == RateInit /\ [][RateNext]_rateVars

\* Time passes, and the thread that runs wakes.
RateFairness == WF_rateVars(Tick) /\ WF_rateVars(Cleanup)

RateFairSpec == RateSpec /\ RateFairness

-----------------------------------------------------------------------------
(* Properties *)

RateTypeOK ==
  /\ config \in Configs
  /\ tracked \subseteq Sessions
  /\ \A s \in Sessions, w \in Windows :
       /\ \A i \in DOMAIN window[s][w] : window[s][w][i] \in 0..Size[w]
       /\ Len(window[s][w]) <= EffectiveLimit(limits[s], w)
  /\ idle \in [Sessions -> 0..IdleTimeout]
  /\ cleaner = config.enabled
  /\ elapsed \in 0..Interval

\* The requests let through in the last stretch of the length of w.
Served(s, w) == Younger(served[s], Size[w])

WindowHolds(w) ==
  \A s \in Sessions :
    Len(Served(s, w)) <= IF s \in tracked THEN EffectiveLimit(limits[s], w) ELSE 0

\* No session gets more requests through in a minute than the windows it was
\* tracked with allow, whatever the cleanup and update_config do.
MinuteHolds == WindowHolds("minute")

\* The day is charged for the requests that were let through and no other.
DayChargesServed ==
  \A s \in tracked :
    \A a \in 0..(Size["day"] - 1) :
      Cardinality({i \in DOMAIN window[s]["day"] : window[s]["day"][i] = a})
        <= Cardinality({i \in DOMAIN served[s] : served[s][i] = a})

\* A session that stays idle gives its place back while the limiter is on.
IdleSessionsLeave ==
  \A s \in Sessions :
    (s \in tracked /\ Idle(s)) ~> (s \notin tracked \/ ~Idle(s) \/ ~config.enabled)
=============================================================================
