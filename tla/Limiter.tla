------------------------------ MODULE Limiter -------------------------------
(***************************************************************************)
(* The rate limiter every replica keeps in memory                          *)
(* (internal/platform/ratelimit, Local): GCRA, one arrival time per key    *)
(* and rule.                                                               *)
(*                                                                         *)
(* A call reads the monotonic clock, then decides under the lock of the    *)
(* key's shard; other calls and the sweep may come in between.  A tick is  *)
(* no finer than the millisecond up to which a Retry-After is rounded.     *)
(***************************************************************************)
EXTENDS Integers, FiniteSetsExt

CONSTANTS
    Keys,    \* keys of one rule
    Callers, \* goroutines that serve a request
    Burst,   \* Rule.Burst
    Period,  \* Rule.Period, in ticks of the clock
    Second,  \* ticks in a second, the unit of a Retry-After header
    Charges, \* the units one call may charge: the code charges one; AllowN takes any, and
             \* lets no more than the burst through
    MaxTime  \* bound: how long the clock runs

ASSUME LimiterBounds ==
    /\ Burst \in Nat /\ Period \in Nat \ {0} /\ Second \in Nat \ {0}
    /\ Charges \subseteq 1 .. (IF Burst = 0 THEN 1 ELSE Burst)
    /\ MaxTime \in Nat

VARIABLES
    clock,    \* Clock.Now
    arrival,  \* shard.tat, by key; NoArrival where there is none
    asked,    \* what each caller asks, and when it read the clock
    charged,  \* history: the units of a key that were let through, by when the caller came
    told,     \* history: when the last caller refused was told to return, and with what
    overtaken \* history: keys removed between a caller's look at the clock and its decision

limiterVars == <<clock, arrival, asked, charged, told, overtaken>>

NoArrival == -1
NoCall == [key |-> {}, units |-> 0, now |-> 0]
Nobody == [until |-> 0, units |-> 0]

LimiterInit ==
    /\ clock = 0
    /\ arrival = [k \in Keys |-> NoArrival]
    /\ asked = [c \in Callers |-> NoCall]
    /\ charged = [k \in Keys |-> [t \in 0 .. MaxTime |-> 0]]
    /\ told = [k \in Keys |-> Nobody]
    /\ overtaken = {}

\* emissionInterval: in whole ticks.
Interval == IF Burst = 0 THEN Period ELSE Period \div Burst

Cost(units) == units * Interval

\* Mutant of From: time that has passed unused is kept as credit.
FromCredit(k, now) == IF arrival[k] = NoArrival THEN now ELSE arrival[k]

\* An arrival time that has passed is as good as none.
From(k, now) == IF arrival[k] < now THEN now ELSE arrival[k]

\* The first moment the call conforms; delayTolerance is the whole period.
AllowAt(k, now, units) == From(k, now) + Cost(units) - Period

\* A delay in seconds: rounded up by the middleware, the next whole one in the handlers.
RetryAfter(delay) == {(delay + Second - 1) \div Second, delay \div Second + 1}

\* AllowN reads the clock.
Ask(c, k, units) ==
    /\ asked[c] = NoCall
    /\ asked' = [asked EXCEPT ![c] = [key |-> {k}, units |-> units, now |-> clock]]
    /\ UNCHANGED <<clock, arrival, charged, told, overtaken>>

\* AllowN, with the shard locked.
Decide(c, k) ==
    /\ asked[c].key = {k}
    /\ LET now   == asked[c].now
           units == asked[c].units
       IN  IF AllowAt(k, now, units) > now
           THEN /\ \E s \in RetryAfter(AllowAt(k, now, units) - now) :
                      told' = [told EXCEPT ![k] = [until |-> clock + s * Second, units |-> units]]
                /\ UNCHANGED <<arrival, charged>>
           ELSE /\ arrival' = [arrival EXCEPT ![k] = From(k, now) + Cost(units)]
                /\ charged' = [charged EXCEPT ![k][now] = @ + units]
                /\ told' = [told EXCEPT ![k] = Nobody]
    /\ asked' = [asked EXCEPT ![c] = NoCall]
    /\ UNCHANGED <<clock, overtaken>>

\* Sweep, every few minutes, one shard after another with one look at the clock.
Sweep ==
    /\ \E now \in 0 .. clock :
          /\ arrival' = [k \in Keys |-> IF arrival[k] < now THEN NoArrival ELSE arrival[k]]
          /\ overtaken' = overtaken \cup
                {k \in Keys : \E c \in Callers : asked[c].key = {k} /\ arrival[k] \in asked[c].now .. now - 1}
    /\ UNCHANGED <<clock, asked, charged, told>>

ClockTicks ==
    /\ clock < MaxTime
    /\ clock' = clock + 1
    /\ UNCHANGED <<arrival, asked, charged, told, overtaken>>

LimiterNext ==
    \/ \E c \in Callers, k \in Keys : Decide(c, k) \/ \E units \in Charges : Ask(c, k, units)
    \/ Sweep
    \/ ClockTicks

LimiterSpec == LimiterInit /\ [][LimiterNext]_limiterVars

----------------------------------------------------------------------------
(* Properties. *)

LimiterTypeOK ==
    /\ clock \in 0 .. MaxTime
    /\ \A k \in Keys : arrival[k] \in NoArrival .. clock + Period
    /\ \A c \in Callers : asked[c] = NoCall \/ (asked[c].units \in Charges /\ asked[c].now \in 0 .. clock)
    /\ charged \in [Keys -> [0 .. MaxTime -> Nat]]
    /\ told \in [Keys -> [until : Nat, units : Nat]]
    /\ overtaken \subseteq Keys

UnitsWithin(k, first, last) == SumFunctionOnSet(charged[k], first .. last)

\* Whoever waits for as long as a refusal says is served, if nobody is served in between.
WaitingHelps ==
    \A k \in Keys : told[k] # Nobody /\ clock >= told[k].until
                        => AllowAt(k, clock, told[k].units) <= clock

\* Of the calls that come between two moments, those let through cost no more than the
\* burst and what is emitted meanwhile, however their decisions and the sweeps interleave,
\* unless a sweep removed the key between a caller's look at the clock and its decision; and
\* a Retry-After is never too short.
LimitIsKept ==
    /\ \A k \in Keys \ overtaken, first \in 0 .. clock : \A last \in first .. clock :
          Cost(UnitsWithin(k, first, last)) <= Period + (last - first)
    /\ WaitingHelps

=============================================================================
