--------------------------- MODULE RateLimiterProofs ---------------------------
(***************************************************************************)
(* RateLimiter, for every number of clients, limit, window and clock step. *)
(***************************************************************************)
EXTENDS RateLimiter, FiniteSetTheorems, TLAPS

\* What the wall clock says of an admission's age is off by no more than the
\* clock was set.
AgesOK ==
    \A c \in Client : \A n \in DOMAIN at[c] :
        /\ at[c][n] <= time
        /\ wall - stamp[c][n] <= time - at[c][n] + forward
        /\ wall - stamp[c][n] >= time - at[c][n] - back

\* An admission that is no longer in the list is out of the window.
ForgottenOK ==
    forward = 0 =>
        \A c \in Client : \A n \in DOMAIN at[c] \ bucket[c] : time - at[c][n] >= Window

IInv == LimiterTypeOK /\ AgesOK /\ ForgottenOK /\ LimitPerWindow

-------------------------------------------------------------------------------
\* A bucket is finite, whatever check keeps of it.
LEMMA KeptFinite ==
    ASSUME LimiterTypeOK, NEW c \in Client
    PROVE  /\ IsFiniteSet(Kept(c))
           /\ Cardinality(Kept(c)) \in Nat
           /\ Kept(c) \subseteq 1..Len(at[c])
<1>1. Kept(c) \subseteq 1..Len(at[c])
  BY DEF LimiterTypeOK, Kept
<1>2. IsFiniteSet(1..Len(at[c]))
  BY FS_Interval DEF LimiterTypeOK
<1>3. IsFiniteSet(Kept(c))
  BY <1>1, <1>2, FS_Subset
<1> QED BY <1>1, <1>3, FS_CardinalityType

\* Filtering a list forgets nothing that is still in the real window.
LEMMA KeptCoversWindow ==
    ASSUME IInv, LimiterAssumption, forward = 0, NEW c \in Client,
           NEW n \in DOMAIN at[c], n \notin Kept(c)
    PROVE  time - at[c][n] >= Window
<1>1. CASE n \notin bucket[c]
  BY <1>1 DEF IInv, ForgottenOK
<1>2. CASE n \in bucket[c]
  <2>1. wall - stamp[c][n] <= time - at[c][n] + forward
    BY DEF IInv, AgesOK
  <2>2. ~(wall - stamp[c][n] < Window)
    BY <1>2 DEF Kept
  <2>3. /\ time \in Nat /\ at[c][n] \in Nat /\ wall \in Int /\ Window \in Nat
        /\ stamp[c][n] \in Int
    BY DEF IInv, LimiterTypeOK, LimiterAssumption
  <2> QED BY <2>1, <2>2, <2>3
<1> QED BY <1>1, <1>2

\* The initial state satisfies the invariant: nothing was admitted yet.
LEMMA IInvInit == ASSUME LimiterAssumption, Init PROVE IInv
BY DEF LimiterAssumption, Init, IInv, LimiterTypeOK, AgesOK, ForgottenOK, LimitPerWindow

\* A step of the clock moves all ages together.
LEMMA IInvClock ==
    ASSUME LimiterAssumption, IInv, Tick \/ SetBack \/ SetForward
    PROVE  IInv'
<1> USE DEF Tick, SetBack, SetForward, buckets
<1>1. LimiterTypeOK'
  BY DEF IInv, LimiterTypeOK
<1>2. AgesOK'
  <2> SUFFICES ASSUME NEW c \in Client, NEW n \in DOMAIN at[c]
               PROVE  /\ at[c][n] <= time'
                      /\ wall' - stamp[c][n] <= time' - at[c][n] + forward'
                      /\ wall' - stamp[c][n] >= time' - at[c][n] - back'
    BY DEF AgesOK
  <2>1. /\ at[c][n] <= time
        /\ wall - stamp[c][n] <= time - at[c][n] + forward
        /\ wall - stamp[c][n] >= time - at[c][n] - back
    BY DEF IInv, AgesOK
  <2>2. /\ time \in Nat /\ at[c][n] \in Nat /\ wall \in Int
        /\ stamp[c][n] \in Int /\ back \in Nat /\ forward \in Nat
    BY DEF IInv, LimiterTypeOK
  <2>3. CASE Tick BY <2>1, <2>2, <2>3
  <2>4. CASE SetBack BY <2>1, <2>2, <2>4
  <2>5. CASE SetForward BY <2>1, <2>2, <2>5
  <2> QED BY <2>3, <2>4, <2>5
<1>3. ASSUME forward' = 0 PROVE forward = 0 /\ time' \in Nat /\ time' >= time
  BY <1>3 DEF IInv, LimiterTypeOK
<1>4. ForgottenOK'
  <2> SUFFICES ASSUME forward' = 0, NEW c \in Client, NEW n \in DOMAIN at[c] \ bucket[c]
               PROVE  time' - at[c][n] >= Window
    BY DEF ForgottenOK
  <2>1. time - at[c][n] >= Window
    BY <1>3 DEF IInv, ForgottenOK
  <2>2. time \in Nat /\ at[c][n] \in Nat /\ Window \in Nat
    BY DEF IInv, LimiterTypeOK, LimiterAssumption
  <2> QED BY <1>3, <2>1, <2>2
<1>5. LimitPerWindow'
  BY <1>3 DEF IInv, LimitPerWindow, WindowBefore
<1> QED BY <1>1, <1>2, <1>4, <1>5 DEF IInv

\* A refused call only drops what is out of the window.
LEMMA IInvRefuse ==
    ASSUME LimiterAssumption, IInv, NEW c \in Client, Refuse(c)
    PROVE  IInv'
<1> USE DEF Refuse, clock
<1>1. LimiterTypeOK'
  BY KeptFinite DEF IInv, LimiterTypeOK, Kept
<1>2. AgesOK'
  BY DEF IInv, AgesOK
<1>3. ForgottenOK'
  <2> SUFFICES ASSUME forward = 0, NEW d \in Client, NEW n \in DOMAIN at[d] \ bucket'[d]
               PROVE  time - at[d][n] >= Window
    BY DEF ForgottenOK
  <2>1. CASE d = c
    <3>1. n \notin Kept(c)
      BY <2>1 DEF IInv, LimiterTypeOK
    <3> QED BY <2>1, <3>1, KeptCoversWindow
  <2>2. CASE d # c
    BY <2>2 DEF IInv, LimiterTypeOK, ForgottenOK
  <2> QED BY <2>1, <2>2
<1>4. LimitPerWindow'
  BY DEF IInv, LimitPerWindow, WindowBefore
<1> QED BY <1>1, <1>2, <1>3, <1>4 DEF IInv

\* An admitted call is one more than what the filtered list holds, and that
\* list holds everything admitted in the real window.
LEMMA IInvAdmit ==
    ASSUME LimiterAssumption, IInv, NEW c \in Client, Admit(c)
    PROVE  IInv'
<1> DEFINE new == Len(at[c]) + 1
<1>1. /\ time \in Nat /\ wall \in Int /\ back \in Nat /\ forward \in Nat
      /\ Limit \in Nat /\ Window \in Nat
      /\ at \in [Client -> Seq(Nat)] /\ stamp \in [Client -> Seq(Int)]
      /\ bucket \in [Client -> SUBSET Nat]
      /\ Len(stamp[c]) = Len(at[c])
      /\ UNCHANGED clock
  BY DEF IInv, LimiterTypeOK, LimiterAssumption, Admit
<1>2. /\ at' = [at EXCEPT ![c] = Append(at[c], time)]
      /\ stamp' = [stamp EXCEPT ![c] = Append(stamp[c], wall)]
      /\ bucket' = [bucket EXCEPT ![c] = Kept(c) \union {new}]
  BY <1>1 DEF Admit
<1>3. /\ DOMAIN at'[c] = DOMAIN at[c] \union {new}
      /\ \A n \in DOMAIN at[c] : at'[c][n] = at[c][n] /\ stamp'[c][n] = stamp[c][n]
      /\ at'[c][new] = time /\ stamp'[c][new] = wall
      /\ bucket'[c] = Kept(c) \union {new}
      /\ Len(at'[c]) = new /\ Len(stamp'[c]) = new
      /\ DOMAIN at[c] = 1..Len(at[c]) /\ Len(at[c]) \in Nat
  BY <1>1, <1>2
<1>4. \A d \in Client \ {c} : at'[d] = at[d] /\ stamp'[d] = stamp[d] /\ bucket'[d] = bucket[d]
  BY <1>1, <1>2
<1>5. LimiterTypeOK'
  <2>1. Kept(c) \subseteq DOMAIN at[c] /\ new \in Nat
    BY <1>3, KeptFinite DEF IInv
  <2>2. at' \in [Client -> Seq(Nat)] /\ stamp' \in [Client -> Seq(Int)]
    BY <1>1, <1>2
  <2>3. bucket' \in [Client -> SUBSET Nat]
    BY <1>1, <1>2, <1>3, <2>1
  <2>4. ASSUME NEW d \in Client
        PROVE  Len(at'[d]) = Len(stamp'[d]) /\ bucket'[d] \subseteq DOMAIN at'[d]
    <3>1. CASE d = c BY <1>3, <2>1, <3>1
    <3>2. CASE d # c BY <1>4, <3>2 DEF IInv, LimiterTypeOK
    <3> QED BY <3>1, <3>2
  <2> QED BY <1>1, <2>2, <2>3, <2>4 DEF LimiterTypeOK, clock
<1>6. AgesOK'
  <2> SUFFICES ASSUME NEW d \in Client, NEW n \in DOMAIN at'[d]
               PROVE  /\ at'[d][n] <= time
                      /\ wall - stamp'[d][n] <= time - at'[d][n] + forward
                      /\ wall - stamp'[d][n] >= time - at'[d][n] - back
    BY <1>1 DEF AgesOK, clock
  <2>1. CASE d = c /\ n = new
    BY <1>1, <1>3, <2>1
  <2>2. CASE d = c /\ n # new
    BY <1>3, <2>2 DEF IInv, AgesOK
  <2>3. CASE d # c
    BY <1>4, <2>3 DEF IInv, AgesOK
  <2> QED BY <2>1, <2>2, <2>3
<1>7. ForgottenOK'
  <2> SUFFICES ASSUME forward = 0, NEW d \in Client, NEW n \in DOMAIN at'[d] \ bucket'[d]
               PROVE  time - at'[d][n] >= Window
    BY <1>1 DEF ForgottenOK, clock
  <2>1. CASE d = c
    <3>1. n \in DOMAIN at[c] /\ n \notin Kept(c) /\ at'[c][n] = at[c][n]
      BY <1>3, <2>1
    <3> QED BY <2>1, <3>1, KeptCoversWindow
  <2>2. CASE d # c
    BY <1>4, <2>2 DEF IInv, ForgottenOK
  <2> QED BY <2>1, <2>2
<1>8. LimitPerWindow'
  <2> SUFFICES ASSUME forward = 0, NEW d \in Client, NEW n \in DOMAIN at'[d]
               PROVE  Cardinality({m \in 1..n : at'[d][n] - at'[d][m] < Window}) <= Limit
    BY <1>1 DEF LimitPerWindow, WindowBefore, clock
  <2>1. CASE d = c /\ n = new
    <3> DEFINE W == {m \in 1..new : time - at'[c][m] < Window}
    <3>1. \A m \in DOMAIN at[c] : time - at[c][m] < Window => m \in Kept(c)
      <4> SUFFICES ASSUME NEW m \in DOMAIN at[c], m \notin Kept(c)
                   PROVE  ~(time - at[c][m] < Window)
        OBVIOUS
      <4>1. time - at[c][m] >= Window
        BY KeptCoversWindow
      <4>2. at[c][m] \in Nat
        BY <1>1
      <4> QED BY <1>1, <4>1, <4>2
    <3>2. W \subseteq Kept(c) \union {new}
      <4> SUFFICES ASSUME NEW m \in W, m # new PROVE m \in Kept(c)
        OBVIOUS
      <4>1. m \in DOMAIN at[c]
        BY <1>3
      <4> QED BY <1>3, <3>1, <4>1
    <3>3. IsFiniteSet(Kept(c)) /\ Cardinality(Kept(c)) \in Nat
      BY KeptFinite DEF IInv
    <3>4. /\ IsFiniteSet(Kept(c) \union {new})
          /\ Cardinality(Kept(c) \union {new}) \in Nat
          /\ Cardinality(Kept(c) \union {new}) <= Cardinality(Kept(c)) + 1
      <4>1. /\ IsFiniteSet(Kept(c) \union {new})
            /\ \/ Cardinality(Kept(c) \union {new}) = Cardinality(Kept(c))
               \/ Cardinality(Kept(c) \union {new}) = Cardinality(Kept(c)) + 1
        BY <3>3, FS_AddElement
      <4> QED BY <3>3, <4>1
    <3>5. Cardinality(W) \in Nat /\ Cardinality(W) <= Cardinality(Kept(c) \union {new})
      BY <3>2, <3>4, FS_Subset, FS_CardinalityType
    <3>6. Cardinality(Kept(c)) < Limit
      BY <1>1, <3>3 DEF Admit, Full
    <3>7. Cardinality(W) <= Limit
      BY <1>1, <3>3, <3>4, <3>5, <3>6
    <3> QED BY <1>3, <2>1, <3>7
  <2>2. CASE d = c /\ n # new
    <3>1. n \in DOMAIN at[c] /\ 1..n \subseteq DOMAIN at[c]
      BY <1>3, <2>2
    <3>2. {m \in 1..n : at'[c][n] - at'[c][m] < Window} = WindowBefore(c, n)
      BY <1>3, <3>1 DEF WindowBefore
    <3> QED BY <2>2, <3>1, <3>2 DEF IInv, LimitPerWindow
  <2>3. CASE d # c
    BY <1>4, <2>3 DEF IInv, LimitPerWindow, WindowBefore
  <2> QED BY <2>1, <2>2, <2>3
<1> QED BY <1>5, <1>6, <1>7, <1>8 DEF IInv

\* A call refused now is refused for admissions of its client that the real
\* window, with the steps back, still holds.
LEMMA RefusalFromInvariant ==
    ASSUME LimiterAssumption, IInv
    PROVE  RefusalJustified
<1> SUFFICES ASSUME NEW c \in Client, Full(c)
             PROVE  Cardinality({n \in DOMAIN at[c] : time - at[c][n] < Window + back}) >= Limit
  BY DEF RefusalJustified
<1> DEFINE R == {n \in DOMAIN at[c] : time - at[c][n] < Window + back}
<1>1. Kept(c) \subseteq R
  <2> SUFFICES ASSUME NEW n \in Kept(c) PROVE n \in R
    OBVIOUS
  <2>1. n \in DOMAIN at[c] /\ wall - stamp[c][n] < Window
    BY DEF Kept, IInv, LimiterTypeOK
  <2>2. wall - stamp[c][n] >= time - at[c][n] - back
    BY <2>1 DEF IInv, AgesOK
  <2>3. /\ time \in Nat /\ at[c][n] \in Nat /\ wall \in Int /\ back \in Nat
        /\ stamp[c][n] \in Int /\ Window \in Nat
    BY <2>1, LimiterAssumption DEF IInv, LimiterTypeOK, LimiterAssumption
  <2> QED BY <2>1, <2>2, <2>3
<1>2. IsFiniteSet(R)
  <2>1. R \subseteq 1..Len(at[c])
    BY DEF IInv, LimiterTypeOK
  <2>2. IsFiniteSet(1..Len(at[c]))
    BY FS_Interval DEF IInv, LimiterTypeOK
  <2> QED BY <2>1, <2>2, FS_Subset
<1>3. Cardinality(R) \in Nat /\ Cardinality(Kept(c)) <= Cardinality(R)
  BY <1>1, <1>2, FS_Subset, FS_CardinalityType
<1>4. Cardinality(Kept(c)) \in Nat
  BY KeptFinite DEF IInv
<1> QED BY <1>3, <1>4, LimiterAssumption DEF Full, LimiterAssumption

LEMMA LimiterInvariance == Spec => []IInv
<1>1. Init => IInv
  BY IInvInit, LimiterAssumption
<1>2. IInv /\ [Next]_vars => IInv'
  <2> SUFFICES ASSUME IInv, [Next]_vars PROVE IInv'
    OBVIOUS
  <2>1. CASE \E c \in Client : Refuse(c)
    BY <2>1, IInvRefuse, LimiterAssumption
  <2>2. CASE \E c \in Client : Admit(c)
    BY <2>2, IInvAdmit, LimiterAssumption
  <2>3. CASE Tick \/ SetBack \/ SetForward
    BY <2>3, IInvClock, LimiterAssumption
  <2>4. CASE UNCHANGED vars
    BY <2>4 DEF vars, clock, buckets, IInv, LimiterTypeOK, AgesOK, ForgottenOK,
                LimitPerWindow, WindowBefore
  <2> QED BY <2>1, <2>2, <2>3, <2>4 DEF Next, Check
<1> QED BY <1>1, <1>2, PTL DEF Spec

-------------------------------------------------------------------------------
\* The admissions of a client never exceed the limit in any window of real
\* time, for every history of calls and of clock steps back.
THEOREM NeverOverTheLimit == Spec => []LimitPerWindow
<1>1. IInv => LimitPerWindow
  BY DEF IInv
<1> QED BY <1>1, LimiterInvariance, PTL

\* A refusal rests on as many admissions as the limit, none older than the
\* window and the steps back of the clock together.
THEOREM RefusalsAreJustified == Spec => []RefusalJustified
BY RefusalFromInvariant, LimiterInvariance, LimiterAssumption, PTL

-------------------------------------------------------------------------------
(* The clock set forward *)

\* How far the clock was set forward at each admission is in no variable: ahead
\* is any history of it that fits what the state has.  at + ahead is a clock
\* that is never set back, and differs from the wall clock by the steps back.
Steady(ahead, c, n) == at[c][n] + ahead[c][n]

\* The admissions of c in the window of the steady clock that ends with its n-th.
SteadyWindow(ahead, c, n) ==
    {m \in 1..n : Steady(ahead, c, n) - Steady(ahead, c, m) < Window}

History(ahead, c) ==
    /\ Len(ahead[c]) = Len(at[c])
    /\ \A n \in DOMAIN at[c] :
        /\ ahead[c][n] <= forward
        /\ Steady(ahead, c, n) - stamp[c][n] <= back
        /\ n \notin bucket[c] => (time + forward) - Steady(ahead, c, n) >= Window
        /\ \A m \in 1..n : at[c][m] <= at[c][n] /\ ahead[c][m] <= ahead[c][n]
        /\ Cardinality(SteadyWindow(ahead, c, n)) <= Limit

\* No window of the steady clock holds more admissions than the limit.
SteadyLimit ==
    /\ wall = time + forward - back
    /\ \E ahead \in [Client -> Seq(Nat)] : \A c \in Client : History(ahead, c)

LEMMA SteadyInit == ASSUME LimiterAssumption, Init PROVE SteadyLimit
<1> DEFINE none == [c \in Client |-> <<>>]
<1>1. none \in [Client -> Seq(Nat)] /\ \A c \in Client : History(none, c)
  BY DEF Init, History
<1>2. wall = time + forward - back
  BY DEF Init
<1> HIDE DEF none
<1> QED BY <1>1, <1>2 DEF SteadyLimit

LEMMA SteadyClock ==
    ASSUME LimiterAssumption, IInv, SteadyLimit, Tick \/ SetBack \/ SetForward
    PROVE  SteadyLimit'
<1>1. PICK ahead \in [Client -> Seq(Nat)] : \A c \in Client : History(ahead, c)
  BY DEF SteadyLimit
<1>2. /\ time \in Nat /\ wall \in Int /\ back \in Nat /\ forward \in Nat
      /\ wall = time + forward - back /\ Window \in Nat
  BY DEF IInv, LimiterTypeOK, SteadyLimit, LimiterAssumption
<1>3. /\ wall' = time' + forward' - back'
      /\ forward' \in Nat /\ back' \in Nat /\ time' \in Nat
      /\ forward' >= forward /\ back' >= back /\ time' + forward' >= time + forward
      /\ at' = at /\ stamp' = stamp /\ bucket' = bucket
  BY <1>2 DEF Tick, SetBack, SetForward, buckets
<1>s. /\ time + forward \in Int /\ time' + forward' \in Int /\ Window \in Int
      /\ time + forward <= time' + forward'
  <2>1. time + forward \in Int /\ time' + forward' \in Int /\ Window \in Int
    BY <1>2, <1>3
  <2>2. time + forward <= time' + forward'
    BY <1>2 DEF Tick, SetBack, SetForward
  <2> QED BY <2>1, <2>2
<1>4. ASSUME NEW c \in Client PROVE History(ahead, c)'
  <2>1. ASSUME NEW n \in DOMAIN at[c]
        PROVE  /\ ahead[c][n] <= forward'
               /\ Steady(ahead, c, n) - stamp[c][n] <= back'
               /\ n \notin bucket[c] => (time' + forward') - Steady(ahead, c, n) >= Window
    <3>1. at[c][n] \in Nat /\ ahead[c][n] \in Nat /\ stamp[c][n] \in Int
      BY <1>1 DEF IInv, LimiterTypeOK, History
    <3>2. Steady(ahead, c, n) \in Int
      BY <3>1 DEF Steady
    <3>3. /\ ahead[c][n] <= forward
          /\ Steady(ahead, c, n) - stamp[c][n] <= back
          /\ n \notin bucket[c] => (time + forward) - Steady(ahead, c, n) >= Window
      BY <1>1 DEF History
    <3>4. ahead[c][n] <= forward' /\ Steady(ahead, c, n) - stamp[c][n] <= back'
      BY <1>2, <1>3, <3>1, <3>2, <3>3
    <3>5. n \notin bucket[c] => (time' + forward') - Steady(ahead, c, n) >= Window
      <4>1. \A x \in Int : (time + forward) - x >= Window => (time' + forward') - x >= Window
        <5>1. \A a, b, w, x \in Int : a <= b /\ a - x >= w => b - x >= w
          OBVIOUS
        <5> QED BY <1>s, <5>1, Zenon
      <4> QED BY <3>2, <3>3, <4>1, Zenon
    <3> QED BY <3>4, <3>5
  <2>2. \A n : SteadyWindow(ahead, c, n)' = SteadyWindow(ahead, c, n)
    BY <1>3 DEF SteadyWindow, Steady
  <2>3. \A n : Steady(ahead, c, n)' = Steady(ahead, c, n)
    BY <1>3 DEF Steady
  <2> QED BY <1>1, <1>3, <2>1, <2>2, <2>3 DEF History
<1> QED BY <1>1, <1>3, <1>4 DEF SteadyLimit

\* What check drops from the list is out of the steady clock's window.
LEMMA KeptCoversSteady ==
    ASSUME LimiterAssumption, IInv, wall = time + forward - back,
           NEW c \in Client, NEW ahead \in [Client -> Seq(Nat)], History(ahead, c),
           NEW n \in DOMAIN at[c], n \notin Kept(c)
    PROVE  (time + forward) - Steady(ahead, c, n) >= Window
<1>1. CASE n \notin bucket[c]
  BY <1>1 DEF History
<1>2. CASE n \in bucket[c]
  <2>1. ~(wall - stamp[c][n] < Window)
    BY <1>2 DEF Kept
  <2>2. Steady(ahead, c, n) - stamp[c][n] <= back
    BY DEF History
  <2>3. /\ time \in Nat /\ at[c][n] \in Nat /\ wall \in Int /\ Window \in Nat
        /\ stamp[c][n] \in Int /\ back \in Nat /\ forward \in Nat /\ ahead[c][n] \in Nat
    BY DEF IInv, LimiterTypeOK, LimiterAssumption, History
  <2>4. Steady(ahead, c, n) \in Int
    BY <2>3 DEF Steady
  <2>5. \A w, s, e \in Int :
           w = time + forward - back /\ ~(w - s < Window) /\ e - s <= back
           => (time + forward) - e >= Window
    BY <2>3
  <2> QED BY <2>1, <2>2, <2>3, <2>4, <2>5
<1> QED BY <1>1, <1>2

LEMMA SteadyRefuse ==
    ASSUME LimiterAssumption, IInv, SteadyLimit, NEW c \in Client, Refuse(c)
    PROVE  SteadyLimit'
<1>1. PICK ahead \in [Client -> Seq(Nat)] : \A d \in Client : History(ahead, d)
  BY DEF SteadyLimit
<1>2. UNCHANGED <<time, wall, back, forward, at, stamp>>
  BY DEF Refuse, clock
<1>3. ASSUME NEW d \in Client PROVE History(ahead, d)'
  <2>1. ASSUME NEW n \in DOMAIN at[d], n \notin bucket'[d]
        PROVE  (time + forward) - Steady(ahead, d, n) >= Window
    <3>1. CASE d = c
      <4>1. n \notin Kept(c)
        BY <2>1, <3>1 DEF Refuse, IInv, LimiterTypeOK
      <4> QED BY <1>1, <3>1, <4>1, KeptCoversSteady DEF SteadyLimit
    <3>2. CASE d # c
      <4>1. n \notin bucket[d]
        BY <2>1, <3>2 DEF Refuse, IInv, LimiterTypeOK
      <4> QED BY <1>1, <4>1 DEF History
    <3> QED BY <3>1, <3>2
  <2>2. \A n : /\ SteadyWindow(ahead, d, n)' = SteadyWindow(ahead, d, n)
               /\ Steady(ahead, d, n)' = Steady(ahead, d, n)
    BY <1>2 DEF SteadyWindow, Steady
  <2> QED BY <1>1, <1>2, <2>1, <2>2 DEF History
<1>4. wall' = time' + forward' - back'
  BY <1>2 DEF SteadyLimit
<1> QED BY <1>1, <1>3, <1>4 DEF SteadyLimit

\* The admitted call comes on top of a list that holds every admission of the
\* steady clock's window.
LEMMA SteadyAdmit ==
    ASSUME LimiterAssumption, IInv, SteadyLimit, NEW c \in Client, Admit(c)
    PROVE  SteadyLimit'
<1>1. PICK old \in [Client -> Seq(Nat)] : \A d \in Client : History(old, d)
  BY DEF SteadyLimit
<1>a. PICK new : new = Len(at[c]) + 1
  OBVIOUS
<1>b. PICK ahead : ahead = [old EXCEPT ![c] = Append(old[c], forward)]
  OBVIOUS
<1>2. /\ time \in Nat /\ wall \in Int /\ back \in Nat /\ forward \in Nat
      /\ Limit \in Nat /\ Window \in Nat /\ wall = time + forward - back
      /\ at \in [Client -> Seq(Nat)] /\ stamp \in [Client -> Seq(Int)]
      /\ bucket \in [Client -> SUBSET Nat]
      /\ Len(stamp[c]) = Len(at[c]) /\ Len(old[c]) = Len(at[c])
      /\ UNCHANGED <<time, wall, back, forward>>
  BY <1>1 DEF IInv, LimiterTypeOK, LimiterAssumption, Admit, SteadyLimit, History, clock
<1>3. /\ at' = [at EXCEPT ![c] = Append(at[c], time)]
      /\ stamp' = [stamp EXCEPT ![c] = Append(stamp[c], wall)]
      /\ bucket' = [bucket EXCEPT ![c] = Kept(c) \union {new}]
  BY <1>a, <1>2 DEF Admit
<1>4. /\ DOMAIN at[c] = 1..Len(at[c]) /\ Len(at[c]) \in Nat
      /\ DOMAIN at'[c] = DOMAIN at[c] \union {new}
      /\ \A n \in DOMAIN at[c] :
            /\ at'[c][n] = at[c][n] /\ stamp'[c][n] = stamp[c][n] /\ ahead[c][n] = old[c][n]
            /\ at[c][n] \in Nat /\ old[c][n] \in Nat /\ stamp[c][n] \in Int
      /\ at'[c][new] = time /\ stamp'[c][new] = wall /\ ahead[c][new] = forward
      /\ bucket'[c] = Kept(c) \union {new}
      /\ Len(at'[c]) = new /\ Len(ahead[c]) = new
      /\ new = Len(at[c]) + 1 /\ new \in Nat
  <2>1. /\ at[c] \in Seq(Nat) /\ stamp[c] \in Seq(Int) /\ old[c] \in Seq(Nat)
        /\ at'[c] = Append(at[c], time) /\ stamp'[c] = Append(stamp[c], wall)
        /\ ahead[c] = Append(old[c], forward) /\ bucket'[c] = Kept(c) \union {new}
    BY <1>b, <1>2, <1>3
  <2>2. ASSUME NEW Elt, NEW q \in Seq(Elt), NEW x \in Elt
        PROVE  /\ DOMAIN q = 1..Len(q) /\ Len(q) \in Nat
               /\ \A n \in 1..Len(q) : Append(q, x)[n] = q[n] /\ q[n] \in Elt
               /\ Append(q, x)[Len(q) + 1] = x /\ Len(Append(q, x)) = Len(q) + 1
               /\ DOMAIN Append(q, x) = DOMAIN q \union {Len(q) + 1}
    OBVIOUS
  <2>3. /\ DOMAIN at[c] = 1..Len(at[c]) /\ Len(at[c]) \in Nat
        /\ \A n \in 1..Len(at[c]) : at'[c][n] = at[c][n] /\ at[c][n] \in Nat
        /\ at'[c][new] = time /\ Len(at'[c]) = new /\ DOMAIN at'[c] = DOMAIN at[c] \union {new}
    <3>1. /\ DOMAIN at[c] = 1..Len(at[c]) /\ Len(at[c]) \in Nat
          /\ \A n \in 1..Len(at[c]) : Append(at[c], time)[n] = at[c][n] /\ at[c][n] \in Nat
          /\ Append(at[c], time)[Len(at[c]) + 1] = time
          /\ Len(Append(at[c], time)) = Len(at[c]) + 1
          /\ DOMAIN Append(at[c], time) = DOMAIN at[c] \union {Len(at[c]) + 1}
      BY <1>2, <2>1, <2>2
    <3> QED BY <1>a, <2>1, <3>1
  <2>4. /\ \A n \in 1..Len(at[c]) : stamp'[c][n] = stamp[c][n] /\ stamp[c][n] \in Int
        /\ stamp'[c][new] = wall
    BY <1>a, <1>2, <2>1, <2>2
  <2>5. /\ \A n \in 1..Len(at[c]) : ahead[c][n] = old[c][n] /\ old[c][n] \in Nat
        /\ ahead[c][new] = forward /\ Len(ahead[c]) = new
    BY <1>a, <1>2, <2>1, <2>2
  <2>6. new \in Nat /\ new = Len(at[c]) + 1
    BY <1>a, <2>3
  <2> QED BY <2>1, <2>3, <2>4, <2>5, <2>6
<1>5. ahead \in [Client -> Seq(Nat)]
  BY <1>b, <1>1, <1>2
<1>6. ASSUME NEW d \in Client \ {c} PROVE History(ahead, d)'
  <2>1. at'[d] = at[d] /\ stamp'[d] = stamp[d] /\ bucket'[d] = bucket[d] /\ ahead[d] = old[d]
    BY <1>b, <1>1, <1>2, <1>3
  <2>2. \A n : /\ SteadyWindow(ahead, d, n)' = SteadyWindow(old, d, n)
               /\ Steady(ahead, d, n)' = Steady(old, d, n)
    BY <2>1 DEF SteadyWindow, Steady
  <2>3. History(old, d)
    BY <1>1
  <2> QED BY <1>2, <2>1, <2>2, <2>3 DEF History
<1>7. ASSUME NEW n \in DOMAIN at[c]
      PROVE  /\ ahead[c][n] <= forward
             /\ Steady(ahead, c, n)' - stamp'[c][n] <= back
             /\ n \notin bucket'[c] => (time + forward) - Steady(ahead, c, n)' >= Window
             /\ \A m \in 1..n : at'[c][m] <= at'[c][n] /\ ahead[c][m] <= ahead[c][n]
             /\ Cardinality(SteadyWindow(ahead, c, n)') <= Limit
  <2>1. Steady(ahead, c, n)' = Steady(old, c, n)
    BY <1>4 DEF Steady
  <2>2. \A m \in 1..n : m \in DOMAIN at[c]
    BY <1>4
  <2>3. SteadyWindow(ahead, c, n)' = SteadyWindow(old, c, n)
    BY <1>4, <2>2 DEF SteadyWindow, Steady
  <2>4. n \notin bucket'[c] => (time + forward) - Steady(old, c, n) >= Window
    BY <1>1, <1>2, <1>4, KeptCoversSteady
  <2>5. History(old, c)
    BY <1>1
  <2> QED BY <1>4, <2>1, <2>2, <2>3, <2>4, <2>5 DEF History
<1>8. Steady(ahead, c, new)' = time + forward
  BY <1>4 DEF Steady
<1>9. \A m \in DOMAIN at[c] : at[c][m] <= time /\ old[c][m] <= forward
  BY <1>1 DEF IInv, AgesOK, History
<1>10. Cardinality(SteadyWindow(ahead, c, new)') <= Limit
  <2> DEFINE W == SteadyWindow(ahead, c, new)'
  <2>1. ASSUME NEW m \in W, m # new PROVE m \in Kept(c)
    <3>1. m \in 1..new /\ Steady(ahead, c, new)' - Steady(ahead, c, m)' < Window
      BY DEF SteadyWindow
    <3>2. m \in DOMAIN at[c]
      BY <1>4, <2>1, <3>1
    <3>3. Steady(ahead, c, m)' = Steady(old, c, m)
      BY <1>4, <3>2 DEF Steady
    <3>4. Steady(old, c, m) \in Nat
      BY <1>4, <3>2 DEF Steady
    <3>5. ~((time + forward) - Steady(old, c, m) >= Window)
      <4> HIDE DEF W
      <4> QED BY <1>2, <1>8, <3>1, <3>3, <3>4
    <3>6. History(old, c)
      BY <1>1
    <3> QED BY <1>2, <3>2, <3>5, <3>6, KeptCoversSteady
  <2>2. IsFiniteSet(Kept(c)) /\ Cardinality(Kept(c)) \in Nat
    BY KeptFinite DEF IInv
  <2>3. /\ IsFiniteSet(Kept(c) \union {new})
        /\ \/ Cardinality(Kept(c) \union {new}) = Cardinality(Kept(c))
           \/ Cardinality(Kept(c) \union {new}) = Cardinality(Kept(c)) + 1
    BY <2>2, FS_AddElement
  <2>4. W \in SUBSET (Kept(c) \union {new})
    BY <2>1
  <2>5. Cardinality(W) \in Nat /\ Cardinality(W) <= Cardinality(Kept(c) \union {new})
    BY <2>3, <2>4, FS_Subset, FS_CardinalityType
  <2>6. Cardinality(Kept(c)) < Limit
    BY <1>2, <2>2 DEF Admit, Full
  <2> QED BY <1>2, <2>2, <2>3, <2>5, <2>6
<1>11. History(ahead, c)'
  <2>1. /\ ahead[c][new] <= forward
        /\ Steady(ahead, c, new)' - stamp'[c][new] <= back
        /\ new \in bucket'[c]
    <3>1. (time + forward) - wall <= back
      BY <1>2
    <3>2. Steady(ahead, c, new)' = time + forward /\ stamp'[c][new] = wall
      BY <1>4, <1>8
    <3>3. ahead[c][new] <= forward
      BY <1>2, <1>4
    <3>4. new \in bucket'[c]
      BY <1>4
    <3> QED BY <3>1, <3>2, <3>3, <3>4
  <2>2. \A m \in 1..new : at'[c][m] <= at'[c][new] /\ ahead[c][m] <= ahead[c][new]
    <3> SUFFICES ASSUME NEW m \in 1..new
                 PROVE  at'[c][m] <= time /\ ahead[c][m] <= forward
      BY <1>4
    <3>1. CASE m = new
      BY <1>2, <1>4, <3>1
    <3>2. CASE m # new
      <4>1. m \in DOMAIN at[c]
        BY <1>4, <3>2
      <4> QED BY <1>4, <1>9, <4>1
    <3> QED BY <3>1, <3>2
  <2> QED BY <1>2, <1>4, <1>7, <1>10, <2>1, <2>2 DEF History
<1>12. \A d \in Client : History(ahead, d)'
  BY <1>6, <1>11
<1>13. wall' = time' + forward' - back'
  BY <1>2
<1> QED BY <1>5, <1>12, <1>13 DEF SteadyLimit

LEMMA SteadyInvariance == Spec => [](IInv /\ SteadyLimit)
<1>1. Init => SteadyLimit
  BY SteadyInit, LimiterAssumption
<1>2. IInv /\ SteadyLimit /\ [Next]_vars => SteadyLimit'
  <2> SUFFICES ASSUME IInv, SteadyLimit, [Next]_vars PROVE SteadyLimit'
    OBVIOUS
  <2>1. CASE \E c \in Client : Refuse(c)
    BY <2>1, SteadyRefuse, LimiterAssumption
  <2>2. CASE \E c \in Client : Admit(c)
    BY <2>2, SteadyAdmit, LimiterAssumption
  <2>3. CASE Tick \/ SetBack \/ SetForward
    BY <2>3, SteadyClock, LimiterAssumption
  <2>4. CASE UNCHANGED vars
    <3>1. PICK ahead \in [Client -> Seq(Nat)] : \A c \in Client : History(ahead, c)
      BY DEF SteadyLimit
    <3>2. UNCHANGED <<time, wall, back, forward, bucket, stamp, at>>
      BY <2>4 DEF vars, clock, buckets
    <3>3. \A c, n : /\ SteadyWindow(ahead, c, n)' = SteadyWindow(ahead, c, n)
                    /\ Steady(ahead, c, n)' = Steady(ahead, c, n)
      BY <3>2 DEF SteadyWindow, Steady
    <3>4. \A c \in Client : History(ahead, c)'
      BY <3>1, <3>2, <3>3 DEF History
    <3> QED BY <3>2, <3>4 DEF SteadyLimit
  <2> QED BY <2>1, <2>2, <2>3, <2>4 DEF Next, Check
<1> QED BY <1>1, <1>2, LimiterInvariance, PTL DEF Spec

\* Which window of the steady clock a distance of x ticks falls into.
LEMMA WindowOf ==
    ASSUME NEW w \in Nat \ {0}, NEW x \in Nat, NEW y \in Nat, x <= y
    PROVE  /\ x \div w \in Nat /\ x \div w <= y \div w
           /\ x - w * (x \div w) \in 0..(w - 1)
<1>1. /\ x \div w \in Nat /\ y \div w \in Nat
      /\ x - w * (x \div w) \in 0..(w - 1)
      /\ y - w * (y \div w) \in 0..(w - 1)
  OBVIOUS
<1>2. ASSUME x \div w >= (y \div w) + 1 PROVE FALSE
  <2>1. w * (x \div w) >= w * (y \div w) + w
    BY <1>1, <1>2
  <2> QED BY <1>1, <2>1
<1> QED BY <1>1, <1>2

\* A window of real time spans at most SpannedWindows windows of the steady
\* clock: an admission is told by the one it falls into and by how many came
\* before it there, of which there are fewer than the limit.
LEMMA SpannedBound ==
    ASSUME LimiterAssumption, Window > 0, IInv, SteadyLimit, NEW c \in Client,
           NEW n \in DOMAIN at[c]
    PROVE  Cardinality(WindowBefore(c, n)) <= Limit * SpannedWindows
<1>1. PICK ahead \in [Client -> Seq(Nat)] : History(ahead, c)
  BY DEF SteadyLimit
<1> DEFINE W == WindowBefore(c, n)
           S(m) == Steady(ahead, c, m)
           K(m) == (S(n) - S(m)) \div Window
           Upto(m) == {i \in W : K(i) = K(m) /\ i <= m}
           rank == [m \in W |-> <<Cardinality(Upto(m)), K(m)>>]
           T == (1..Limit) \X (0..(SpannedWindows - 1))
<1>2. /\ forward \in Nat /\ Window \in Nat \ {0} /\ Limit \in Nat
      /\ n \in Nat /\ n <= Len(at[c]) /\ DOMAIN at[c] = 1..Len(at[c]) /\ Len(at[c]) \in Nat
  BY DEF IInv, LimiterTypeOK, LimiterAssumption
<1>w. \A x, y \in Nat :
         x <= y => /\ x \div Window \in Nat /\ x \div Window <= y \div Window
                   /\ x - Window * (x \div Window) \in 0..(Window - 1)
  BY <1>2, WindowOf
<1>l. /\ at[c] \in Seq(Nat) /\ ahead[c] \in Seq(Nat) /\ Len(ahead[c]) = Len(at[c])
  BY <1>1 DEF IInv, LimiterTypeOK, History
<1>i. \A i \in DOMAIN at[c] : at[c][i] \in Nat /\ ahead[c][i] \in Nat
  <2>1. \A q \in Seq(Nat) : \A i \in 1..Len(q) : q[i] \in Nat
    OBVIOUS
  <2>2. DOMAIN at[c] = 1..Len(at[c]) /\ DOMAIN at[c] = 1..Len(ahead[c])
    BY <1>2, <1>l
  <2> QED BY <1>l, <2>1, <2>2, Zenon
<1>3. ASSUME NEW m \in W
      PROVE  /\ m \in 1..n /\ m \in DOMAIN at[c]
             /\ S(m) \in Nat /\ S(n) - S(m) \in 0..(forward + Window - 1)
  <2>1. m \in 1..n /\ at[c][n] - at[c][m] < Window
    BY DEF WindowBefore
  <2>2. m \in DOMAIN at[c]
    BY <1>2, <2>1
  <2>3. /\ at[c][n] \in Nat /\ at[c][m] \in Nat /\ ahead[c][n] \in Nat /\ ahead[c][m] \in Nat
    BY <1>i, <2>2, Zenon
  <2>4. at[c][m] <= at[c][n] /\ ahead[c][m] <= ahead[c][n] /\ ahead[c][n] <= forward
    BY <1>1, <2>1 DEF History
  <2>5. /\ (at[c][n] + ahead[c][n]) - (at[c][m] + ahead[c][m]) \in 0..(forward + Window - 1)
        /\ at[c][m] + ahead[c][m] \in Nat
    <3>1. \A a, b, x, y \in Nat :
             a - b < Window /\ b <= a /\ y <= x /\ x <= forward
             => (a + x) - (b + y) \in 0..(forward + Window - 1) /\ b + y \in Nat
      BY <1>2
    <3> HIDE DEF W
    <3> QED BY <2>1, <2>3, <2>4, <3>1
  <2>6. S(m) = at[c][m] + ahead[c][m] /\ S(n) = at[c][n] + ahead[c][n]
    BY DEF Steady
  <2>7. S(n) - S(m) = (at[c][n] + ahead[c][n]) - (at[c][m] + ahead[c][m])
    BY DEF Steady
  <2> HIDE DEF W, S
  <2>8. S(m) \in Nat
    BY <2>5, <2>6
  <2>9. S(n) - S(m) \in 0..(forward + Window - 1)
    BY <2>5, <2>7, Zenon
  <2> QED BY <2>1, <2>2, <2>8, <2>9
<1>4. SpannedWindows \in Nat /\ SpannedWindows = 1 + (forward + Window - 1) \div Window
  <2>1. forward + Window - 1 \in Nat
    BY <1>2
  <2>2. (forward + Window - 1) \div Window \in Nat
    <3>1. \A x \in Nat : x <= x
      OBVIOUS
    <3> QED BY <1>w, <2>1, <3>1
  <2>3. SpannedWindows = 1 + (forward + Window - 1) \div Window
    BY DEF SpannedWindows
  <2> QED BY <2>2, <2>3
<1>5. ASSUME NEW m \in W PROVE K(m) \in 0..(SpannedWindows - 1)
  <2>1. S(n) - S(m) \in Nat /\ forward + Window - 1 \in Nat /\ S(n) - S(m) <= forward + Window - 1
    BY <1>2, <1>3
  <2>2. K(m) \in Nat /\ K(m) <= (forward + Window - 1) \div Window
    BY <1>w, <2>1
  <2>3. (forward + Window - 1) \div Window = SpannedWindows - 1
    <3>1. (forward + Window - 1) \div Window \in Nat
      <4>1. \A x \in Nat : x <= x
        OBVIOUS
      <4> QED BY <1>w, <2>1, <4>1
    <3> QED BY <1>4, <3>1
  <2> HIDE DEF K
  <2> QED BY <1>4, <2>2, <2>3
\* Two admissions in one window of the steady clock are less than it apart.
<1>6. ASSUME NEW m \in W, NEW i \in Upto(m) PROVE i \in SteadyWindow(ahead, c, m)
  <2>1. i \in W /\ K(i) = K(m) /\ i <= m
    OBVIOUS
  <2>2. /\ (S(n) - S(i)) - Window * K(i) \in 0..(Window - 1)
        /\ (S(n) - S(m)) - Window * K(m) \in 0..(Window - 1)
    <3>1. S(n) - S(i) \in Nat /\ S(n) - S(m) \in Nat
      BY <1>2, <1>3, <2>1
    <3>2. /\ (S(n) - S(i)) - Window * ((S(n) - S(i)) \div Window) \in 0..(Window - 1)
          /\ (S(n) - S(m)) - Window * ((S(n) - S(m)) \div Window) \in 0..(Window - 1)
      <4>1. \A x \in Nat : x - Window * (x \div Window) \in 0..(Window - 1)
        <5>1. \A x \in Nat : x <= x
          OBVIOUS
        <5> QED BY <1>w, <5>1
      <4> HIDE DEF S
      <4> QED BY <3>1, <4>1, Zenon
    <3> QED BY <3>2
  <2>3. i \in 1..m
    BY <1>3, <2>1
  <2>4. S(n) \in Nat
    <3>1. at[c][n] \in Nat /\ ahead[c][n] \in Nat
      BY <1>1, <1>2 DEF IInv, LimiterTypeOK, History
    <3> QED BY <3>1 DEF Steady
  <2>5. Window * K(m) \in Int /\ S(i) \in Nat /\ S(m) \in Nat
    BY <1>2, <1>3, <1>5, <2>1
  <2>6. S(m) - S(i) < Window
    <3> HIDE DEF S, K
    <3> QED BY <1>2, <2>1, <2>2, <2>4, <2>5
  <2> QED BY <2>3, <2>6 DEF SteadyWindow
<1>7. ASSUME NEW m \in W
      PROVE  /\ IsFiniteSet(Upto(m)) /\ Cardinality(Upto(m)) \in 1..Limit
  <2>1. IsFiniteSet(SteadyWindow(ahead, c, m))
    <3>1. SteadyWindow(ahead, c, m) \in SUBSET (1..m) /\ m \in Int
      BY <1>3 DEF SteadyWindow
    <3> QED BY <3>1, FS_Interval, FS_Subset
  <2>2. Upto(m) \in SUBSET SteadyWindow(ahead, c, m)
    BY <1>6
  <2>3. /\ IsFiniteSet(Upto(m)) /\ Cardinality(Upto(m)) \in Nat
        /\ Cardinality(Upto(m)) <= Cardinality(SteadyWindow(ahead, c, m))
        /\ Cardinality(SteadyWindow(ahead, c, m)) \in Nat
    BY <2>1, <2>2, FS_Subset, FS_CardinalityType
  <2>4. Cardinality(SteadyWindow(ahead, c, m)) <= Limit
    BY <1>1, <1>3 DEF History
  <2>5. Upto(m) # {}
    <3>1. m \in Upto(m)
      BY <1>3
    <3> QED BY <3>1
  <2>6. Cardinality(Upto(m)) # 0
    BY <2>3, <2>5, FS_EmptySet
  <2> HIDE DEF Upto
  <2> QED BY <1>2, <2>3, <2>4, <2>6
<1>8. ASSUME NEW m \in W, NEW k \in W, m < k, K(m) = K(k)
      PROVE  Cardinality(Upto(m)) # Cardinality(Upto(k))
  <2>1. m \in 1..n /\ k \in 1..n
    BY <1>3
  <2>2. Upto(m) \in SUBSET Upto(k)
    <3> SUFFICES ASSUME NEW i \in Upto(m) PROVE i <= k
      BY <1>8
    <3>1. i \in 1..n /\ i <= m
      BY <1>3
    <3> QED BY <1>8, <2>1, <3>1
  <2>3. k \in Upto(k) /\ k \notin Upto(m)
    BY <1>8, <2>1
  <2>4. IsFiniteSet(Upto(k))
    BY <1>7
  <2> HIDE DEF Upto
  <2> QED BY <2>2, <2>3, <2>4, FS_Subset
<1>9. rank \in Injection(W, T)
  <2>1. rank \in [W -> T]
    BY <1>5, <1>7
  <2>2. ASSUME NEW m \in W, NEW k \in W, rank[m] = rank[k] PROVE m = k
    <3>1. Cardinality(Upto(m)) = Cardinality(Upto(k)) /\ K(m) = K(k)
      BY <2>2
    <3>2. m \in Nat /\ k \in Nat
      BY <1>3
    <3>3. ~(m < k) /\ ~(k < m)
      <4> HIDE DEF Upto, K
      <4> QED BY <1>8, <3>1
    <3> QED BY <3>2, <3>3
  <2> HIDE DEF rank
  <2> QED BY <2>1, <2>2 DEF Injection, IsInjective
<1>10. /\ IsFiniteSet(T) /\ Cardinality(T) = Limit * SpannedWindows
  <2>1. IsFiniteSet(1..Limit) /\ Cardinality(1..Limit) = Limit
    <3>1. /\ IsFiniteSet(1..Limit)
          /\ Cardinality(1..Limit) = IF 1 > Limit THEN 0 ELSE Limit - 1 + 1
      <4>1. 1 \in Int /\ Limit \in Int
        BY <1>2
      <4> QED BY <4>1, FS_Interval, Zenon
    <3> QED BY <1>2, <3>1
  <2>2. IsFiniteSet(0..(SpannedWindows - 1)) /\ Cardinality(0..(SpannedWindows - 1)) = SpannedWindows
    <3>1. SpannedWindows - 1 \in Int
      BY <1>4
    <3>2. /\ IsFiniteSet(0..(SpannedWindows - 1))
          /\ Cardinality(0..(SpannedWindows - 1))
               = IF 0 > SpannedWindows - 1 THEN 0 ELSE (SpannedWindows - 1) - 0 + 1
      BY <3>1, FS_Interval
    <3> QED BY <1>4, <3>2
  <2> QED BY <2>1, <2>2, FS_Product
<1> HIDE DEF rank, T
<1> QED BY <1>9, <1>10, FS_Injection

\* Steps forward let a client start afresh, but no more often than once per
\* window they make up, for every limit, window, number of clients and history
\* of calls and of steps in both directions.
THEOREM ForwardStepsPaidFor ==
    ASSUME Window > 0
    PROVE  Spec => []LimitAfterForwardSteps
<1>1. IInv /\ SteadyLimit => LimitAfterForwardSteps
  BY SpannedBound, LimiterAssumption DEF LimitAfterForwardSteps
<1> QED BY <1>1, SteadyInvariance, PTL
===============================================================================
