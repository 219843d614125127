----------------------------- MODULE RateLimiter -----------------------------
(***************************************************************************)
(* The sliding-window rate limiters, for one key: the process-local one,   *)
(* which endpoints call from the threads of a pool, and the Redis one,     *)
(* whose commands are each atomic and awaited one after another.  Time     *)
(* passes in ticks, several to a second.  A call that stops half way, its  *)
(* Redis unreachable, is one that takes no further step; keys that expire  *)
(* after two idle windows hold nothing that would still count.             *)
(***************************************************************************)
EXTENDS Integers, FiniteSets

CONSTANTS
  Checks,       \* calls of check_rate_limit, each made once, numbered as they begin
  MaxRequests,  \* max_requests
  Window,       \* window_seconds, in ticks
  Second,       \* ticks in a second
  LastTick      \* bound: the clock stops there

(* Limits and windows are at least 1 wherever one is set.                  *)
ASSUME LimiterAssumption ==
  Checks \subseteq Nat /\ MaxRequests \in Nat \ {0} /\ Window \in Nat \ {0} /\ Second \in Nat \ {0} /\ LastTick \in Nat

VARIABLES
  now,
  limiter,      \* the limiter the settings select: "memory" or "redis"
  stamps,       \* _requests[key]: the calls whose times the list holds
  zset,         \* the sorted set of the key: the calls it holds, scored with their times
  limited,      \* limited[c]: how far call c has come
  overlapped    \* history: calls during which another one was under way

limiterVars == <<now, limiter, stamps, zset, limited, overlapped>>

-----------------------------------------------------------------------------
(* at: the time the call read; kept: the list it has filtered; place: its  *)
(* turn among the calls that were ever appended to the list.               *)
MemorySteps == {"filtered", "counted", "below", "full"}
RedisSteps == {"pruned", "added", "over"}
Moving == {"arrived"} \cup MemorySteps \cup RedisSteps
Ended == {"admitted", "refused", "failed"}
LimitedCall ==
  [step : {"waiting"} \cup Moving \cup Ended,
   at : 0..LastTick, kept : SUBSET Checks, place : Nat, retry : Int]

LimiterTypeOK ==
  /\ now \in 0..LastTick /\ limiter \in {"memory", "redis"}
  /\ stamps \subseteq Checks /\ zset \subseteq Checks /\ overlapped \subseteq Checks
  /\ limited \in [Checks -> LimitedCall]

LimiterInit ==
  /\ now = 0 /\ limiter \in {"memory", "redis"}
  /\ stamps = {} /\ zset = {} /\ overlapped = {}
  /\ limited = [c \in Checks |-> [step |-> "waiting", at |-> 0, kept |-> {}, place |-> 0, retry |-> 0]]

ClockTick == now < LastTick /\ now' = now + 1 /\ UNCHANGED <<limiter, stamps, zset, limited, overlapped>>

UnderWay == {c \in Checks : limited[c].step \in Moving}

InWindowLess(stamp, t) == stamp + Window > t + 1
InWindow(stamp, t) == stamp + Window > t
StillIn(S, t) == {s \in S : InWindow(limited[s].at, t)}

Goes(c, step) == limited' = [limited EXCEPT ![c].step = step]
Same == UNCHANGED <<now, limiter, overlapped>>

(* A call reads the clock.                                                 *)
Arrive(c) ==
  /\ limited[c].step = "waiting" /\ \A d \in Checks : d < c => limited[d].step # "waiting"
  /\ limited' = [limited EXCEPT ![c].step = "arrived", ![c].at = now]
  /\ overlapped' = IF UnderWay = {} THEN overlapped ELSE overlapped \cup UnderWay \cup {c}
  /\ UNCHANGED <<now, limiter, stamps, zset>>

(* Seconds until the oldest stamp leaves the window, whole ones only.      *)
RetryAfterNone(oldest, t) == 0
RetryAfter(oldest, t) == IF oldest + Window <= t THEN 0 ELSE (oldest + Window - t) \div Second

-----------------------------------------------------------------------------
(* InMemoryRateLimiter: the stamps in the window are copied ...            *)
Filter(c) ==
  /\ limiter = "memory" /\ limited[c].step = "arrived"
  /\ limited' = [limited EXCEPT ![c].step = "filtered", ![c].kept = StillIn(stamps, limited[c].at)]
  /\ Same /\ UNCHANGED <<stamps, zset>>

(* ... the copy replaces the list, whatever was appended meanwhile ...     *)
Replace(c) ==
  /\ limited[c].step = "filtered"
  /\ stamps' = limited[c].kept
  /\ limited' = [limited EXCEPT ![c].step = "counted", ![c].kept = {}]
  /\ Same /\ UNCHANGED zset

(* ... whose length decides ...                                            *)
Count(c) ==
  /\ limited[c].step = "counted"
  /\ Goes(c, IF Cardinality(stamps) >= MaxRequests THEN "full" ELSE "below")
  /\ Same /\ UNCHANGED <<stamps, zset>>

(* ... and which takes the stamp of a call that is let in.                 *)
AppendStamp(c) ==
  /\ limited[c].step = "below"
  /\ limited' = [limited EXCEPT ![c].step = "admitted",
                                ![c].place = Cardinality({d \in Checks : limited[d].step = "admitted"})]
  /\ stamps' = stamps \cup {c}
  /\ Same /\ UNCHANGED zset

(* The first entry is read from the list, which may have become empty.     *)
TurnAway(c) ==
  /\ limited[c].step = "full"
  /\ \/ stamps = {} /\ Goes(c, "failed")
     \/ \E o \in stamps :
          /\ \A s \in stamps : limited[o].place <= limited[s].place
          /\ limited' = [limited EXCEPT ![c].step = "refused",
                                        ![c].retry = RetryAfter(limited[o].at, limited[c].at)]
  /\ Same /\ UNCHANGED <<stamps, zset>>

-----------------------------------------------------------------------------
(* RedisRateLimiter: every call adds its own stamp before it counts.  No   *)
(* two calls read the same microsecond.                                    *)
Prune(c) ==
  /\ limiter = "redis" /\ limited[c].step = "arrived"
  /\ zset' = StillIn(zset, limited[c].at)
  /\ Goes(c, "pruned")
  /\ Same /\ UNCHANGED stamps

Add(c) ==
  /\ limited[c].step = "pruned"
  /\ zset' = zset \cup {c}
  /\ Goes(c, "added")
  /\ Same /\ UNCHANGED stamps

CountAll(c) ==
  /\ limited[c].step = "added"
  /\ Goes(c, IF Cardinality(zset) > MaxRequests THEN "over" ELSE "admitted")
  /\ Same /\ UNCHANGED <<stamps, zset>>

(* The whole window when the set has become empty.  A stamp so late that   *)
(* it had left the window is told as 0 here, as a negative number there.   *)
TurnAwayOver(c) ==
  /\ limited[c].step = "over"
  /\ \/ zset = {} /\ limited' = [limited EXCEPT ![c].step = "refused", ![c].retry = Window \div Second]
     \/ \E o \in zset :
          /\ \A s \in zset : limited[o].at <= limited[s].at
          /\ limited' = [limited EXCEPT ![c].step = "refused",
                                        ![c].retry = RetryAfter(limited[o].at, limited[c].at)]
  /\ Same /\ UNCHANGED <<stamps, zset>>

LimiterNext ==
  \/ ClockTick
  \/ \E c \in Checks :
       \/ Arrive(c)
       \/ Filter(c) \/ Replace(c) \/ Count(c) \/ AppendStamp(c) \/ TurnAway(c)
       \/ Prune(c) \/ Add(c) \/ CountAll(c) \/ TurnAwayOver(c)

LimiterSpec == LimiterInit /\ [][LimiterNext]_limiterVars

-----------------------------------------------------------------------------
(* The window of a call that reads the time t.                             *)
Span(t) == (t - Window + 1)..t

AdmittedIn(S, t) == {c \in S : limited[c].step = "admitted" /\ limited[c].at \in Span(t)}

(* Lost stamps and late counts only ever concern calls that overlap: of    *)
(* the others no window admits more than the limit, and none of them ends  *)
(* in an error instead of an answer.                                       *)
SerialCallsLimited ==
  /\ \A t \in 0..now : Cardinality(AdmittedIn(Checks \ overlapped, t)) <= MaxRequests
  /\ \A c \in Checks \ overlapped : limited[c].step # "failed"

(* If no call overlapped another, a client that the local limiter refuses  *)
(* and that waits a second more than it was told is let in, unless others  *)
(* were admitted in the meantime.  With Redis a refusal has a limit's      *)
(* worth of other calls in the window before it, refused ones included.    *)
RetryHonoured ==
  overlapped = {} =>
    \A d \in Checks : limited[d].step = "refused" =>
      /\ limiter = "memory" =>
           \A c \in Checks :
             limited[c].step = "refused" /\ limited[d].at >= limited[c].at + Second * (limited[c].retry + 1)
             => \E q \in Checks : limited[q].step = "admitted" /\ limited[q].at \in (limited[c].at + 1)..limited[d].at
      /\ limiter = "redis" =>
           Cardinality({q \in Checks \ {d} : limited[q].step \in Ended /\ limited[q].at \in Span(limited[d].at)})
             >= MaxRequests
=============================================================================
