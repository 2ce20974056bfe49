------------------------------ MODULE RateLimit ------------------------------
(***************************************************************************)
(* One key of the two fixed-window limiters (rate-limit.ts): the memory    *)
(* limiter, whose window starts with the first request, and the D1 one,    *)
(* whose windows are aligned to multiples of their length and whose        *)
(* statements may run in another order than their clocks were read.        *)
(***************************************************************************)
EXTENDS Clock, Integers, Sequences, FiniteSets

CONSTANTS
  Limit,        \* requests allowed per window
  Window,       \* its length
  Taker,        \* the calls that can be in progress at once
  MaxRequests   \* bound: requests admitted, and counted in one window

ASSUME LimitAssumption == Limit \in Nat /\ Window \in Nat \ {0} /\ MaxRequests \in Nat

VARIABLES
  limiter,    \* which limiter is configured
  bucket,     \* the start of the window and its count; count 0: no bucket yet
  takers,     \* Taker -> the clock its call read, 0 when idle
  admitted,   \* history: the admitted requests, each the clock it was admitted with, the start
              \* of its window and its number there
  disordered  \* history: a D1 statement ran after one of a later window

limitVars == <<limiter, bucket, takers, admitted, disordered>>

LimitInit ==
  /\ limiter \in {"memory", "d1"}
  /\ bucket = [start |-> 0, count |-> 0]
  /\ takers = [t \in Taker |-> 0]
  /\ admitted = <<>>
  /\ disordered = FALSE

\* The requests admitted in the stretch of one window's length from first on.
Stretch(first) == {i \in DOMAIN admitted : admitted[i].at \in first..(first + Window - 1)}

\* D1 goes on counting what it refuses.
Bounded == Len(admitted) < MaxRequests /\ bucket.count < MaxRequests

Admit(at) == admitted' = Append(admitted, [at |-> at, start |-> bucket'.start, nth |-> bucket'.count])

\* FixedWindowRateLimiter.take runs to its end with the clock its caller just read.
WindowIsOver == bucket.count = 0 \/ now - bucket.start >= Window
BelowLimitByOne == bucket.count <= Limit  \* fault: one request too many
BelowLimit == bucket.count < Limit

TakeInMemory ==
  /\ limiter = "memory"
  /\ Limit >= 1
  /\ Bounded
  /\ \/ WindowIsOver /\ bucket' = [start |-> now, count |-> 1]
     \/ ~WindowIsOver /\ BelowLimit /\ bucket' = [bucket EXCEPT !.count = @ + 1]
  /\ Admit(now)
  /\ UNCHANGED <<now, limiter, takers, disordered>>

AskLimiter(t) ==
  /\ limiter = "d1" /\ takers[t] = 0
  /\ Limit >= 1
  /\ Bounded
  /\ takers' = [takers EXCEPT ![t] = now]
  /\ UNCHANGED <<now, limiter, bucket, admitted, disordered>>

StartOf(at) == (at \div Window) * Window

\* The upsert: the same window counts on, any other one starts with this request.
TakeInD1(t) ==
  LET start == StartOf(takers[t])
      count == IF bucket.count # 0 /\ bucket.start = start THEN bucket.count + 1 ELSE 1
  IN  /\ takers[t] # 0
      /\ bucket' = [start |-> start, count |-> count]
      /\ IF count <= Limit THEN Admit(takers[t]) ELSE UNCHANGED admitted
      /\ takers' = [takers EXCEPT ![t] = 0]
      /\ disordered' = (disordered \/ start < bucket.start)
      /\ UNCHANGED <<now, limiter>>

LimitTick == Tick /\ UNCHANGED limitVars

LimitNext ==
  \/ TakeInMemory
  \/ \E t \in Taker : AskLimiter(t) \/ TakeInD1(t)
  \/ LimitTick

\* docs/deploy.md:102 promises atomic fixed windows. No stretch as long as a window sees more
\* than two limits of requests (the end of a window and the start of the next one), unless D1
\* ran the statements of two windows out of order: the count then starts anew.
LimitKept ==
  disordered \/ \A first \in 1..MaxTime : Cardinality(Stretch(first)) <= 2 * Limit
=============================================================================
