------------------------------ MODULE RateLimiter ------------------------------
(***************************************************************************)
(* InMemoryRateLimiter: per client, the wall-clock times of the calls it   *)
(* admitted.  check runs without an await under a lock, so a call is one   *)
(* action.  A clock adjustment may move the wall clock against real time.  *)
(*                                                                         *)
(* The n-th admission of a client stands for the list element appended by  *)
(* it: the list is a set of admission numbers, because its order and equal *)
(* timestamps play no part.                                                *)
(***************************************************************************)
EXTENDS Integers, Sequences, FiniteSets

CONSTANTS Client,      \* request.client.host values
          Limit,       \* settings.rate_limit_per_minute
          Window,      \* 60.0, in ticks
          MaxTime,     \* bound: real time
          MaxAdmitted, \* bound: admissions of a client
          MaxBack,     \* bound: ticks the wall clock is set back, in total
          MaxForward   \* bound: ticks it is set forward, in total

ASSUME LimiterAssumption ==
    /\ Limit \in Nat
    /\ Window \in Nat
    /\ MaxTime \in Nat
    /\ MaxAdmitted \in Nat
    /\ MaxBack \in Nat
    /\ MaxForward \in Nat

VARIABLES
    time,     \* history: real time
    wall,     \* time.time()
    bucket,   \* bucket[c]: the admissions whose timestamps _buckets[c] holds
    stamp,    \* stamp[c][n]: timestamp of c's n-th admission
    at,       \* history: at[c][n] is the real time of c's n-th admission
    back,     \* history: ticks the wall clock was set back so far
    forward   \* history: ticks it was set forward so far

clock == <<time, wall, back, forward>>
buckets == <<bucket, stamp, at>>
vars == <<clock, buckets>>

Init ==
    /\ time = 0
    /\ wall = 0
    /\ bucket = [c \in Client |-> {}]
    /\ stamp = [c \in Client |-> <<>>]
    /\ at = [c \in Client |-> <<>>]
    /\ back = 0
    /\ forward = 0

\* What check(c) keeps of the list.
Kept_AtTheEdge(c) == {n \in bucket[c] : wall - stamp[c][n] <= Window}
Kept_NoFuture(c) == {n \in bucket[c] : wall - stamp[c][n] \in 0..(Window - 1)}

Kept(c) == {n \in bucket[c] : wall - stamp[c][n] < Window}

\* check raises: 429.
Full(c) == Cardinality(Kept(c)) >= Limit

\* The list is filtered whether or not the call is admitted.
Refuse(c) ==
    /\ Full(c)
    /\ bucket' = [bucket EXCEPT ![c] = Kept(c)]
    /\ UNCHANGED <<clock, stamp, at>>

Admit(c) ==
    /\ ~Full(c)
    /\ Len(at[c]) < MaxAdmitted
    /\ bucket' = [bucket EXCEPT ![c] = Kept(c) \union {Len(stamp[c]) + 1}]
    /\ stamp' = [stamp EXCEPT ![c] = Append(@, wall)]
    /\ at' = [at EXCEPT ![c] = Append(@, time)]
    /\ UNCHANGED clock

Check(c) == Refuse(c) \/ Admit(c)

Tick ==
    /\ time < MaxTime
    /\ time' = time + 1
    /\ wall' = wall + 1
    /\ UNCHANGED <<back, forward, buckets>>

SetBack ==
    /\ back < MaxBack
    /\ back' = back + 1
    /\ wall' = wall - 1
    /\ UNCHANGED <<time, forward, buckets>>

SetForward ==
    /\ forward < MaxForward
    /\ forward' = forward + 1
    /\ wall' = wall + 1
    /\ UNCHANGED <<time, back, buckets>>

Next == (\E c \in Client : Check(c)) \/ Tick \/ SetBack \/ SetForward

Spec == Init /\ [][Next]_vars

-------------------------------------------------------------------------------
LimiterTypeOK ==
    /\ time \in Nat
    /\ wall \in Int
    /\ back \in Nat
    /\ forward \in Nat
    /\ stamp \in [Client -> Seq(Int)]
    /\ at \in [Client -> Seq(Nat)]
    /\ bucket \in [Client -> SUBSET Nat]
    /\ \A c \in Client : Len(at[c]) = Len(stamp[c]) /\ bucket[c] \subseteq DOMAIN at[c]

\* The admissions of c in the window that ends with its n-th one.
WindowBefore(c, n) == {m \in 1..n : at[c][n] - at[c][m] < Window}

\* In real time, no window of 60 seconds ever holds more than
\* rate_limit_per_minute admitted calls of a client, also if the wall clock is
\* set back while the window runs; a forward step forgets
\* calls too early, so the statement is about a clock never set forward.
LimitPerWindow ==
    forward = 0 =>
        \A c \in Client : \A n \in DOMAIN at[c] : Cardinality(WindowBefore(c, n)) <= Limit

\* How many windows of wall-clock time a window of real time can span when the
\* clock was set forward.
SpannedWindows == 1 + (forward + Window - 1) \div Window

\* A step forward makes the limiter forget calls it has just admitted, and the
\* limit starts afresh; but only once per window's worth of steps, also between
\* steps back, which leave timestamps in the future.
LimitAfterForwardSteps ==
    \A c \in Client : \A n \in DOMAIN at[c] :
        Cardinality(WindowBefore(c, n)) <= Limit * SpannedWindows

\* A client is refused only for calls that were really admitted within the
\* last window, lengthened by no more than the wall clock was set back since
\* the process started: refused calls and other clients' calls never count.
RefusalJustified ==
    \A c \in Client :
        Full(c) => Cardinality({n \in DOMAIN at[c] : time - at[c][n] < Window + back}) >= Limit
===============================================================================
