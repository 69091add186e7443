---------------------- MODULE SlidingRateLimiterProofs ----------------------
(***************************************************************************)
(* Proofs about SlidingRateLimiter, for any calls, limit and window.       *)
(***************************************************************************)
EXTENDS SlidingRateLimiter, FiniteSetTheorems, WellFoundedInduction, TLAPS

\* The calls let in less than a window ago.
Recent == {w \in Task : pc[w] = "Acquired" /\ age[w] < Window}

\* Every one of them has its timestamp in the queue: what was popped had expired.
Recorded == Recent \subseteq timestamps

\* A call under way is in the queue of waiters, and only the task spawned for a
\* call that has returned takes it off.
Queued ==
  /\ \A w \in Task : pc[w] \in {"Checking", "Asleep"} => w \in waiters
  /\ \A w \in cleanups : pc[w] \in {"Acquired", "Cancelled"}
  /\ \A w \in waiters : pc[w] # "Idle"

\* Of a call that sleeps at the front, unnotified: the places are taken, and its
\* sleep ends before the first of them is free.
SleepIsTimed ==
  \A w \in Task :
    pc[w] = "Asleep" /\ IsFront(w, waiters) /\ ~permit[w] /\ remaining[w] > 0
      => /\ MaxTasks <= Cardinality(timestamps)
         /\ \A u \in timestamps : age[u] + remaining[w] <= Window

Inv == TypeOK /\ Recorded /\ Queued /\ RateLimit

-----------------------------------------------------------------------------
\* A set of ages that is not empty has a greatest one.
LEMMA OldestExists ==
  ASSUME NEW A, A \subseteq 0 .. Window, A # {}
  PROVE  \E a \in A : \A b \in A : b <= a
<1> DEFINE below == {ss \in Nat \X Nat : ss[1] < ss[2]}
           left  == {Window - a : a \in A}
<1>1. IsWellFoundedOn(below, Nat)
  BY NatLessThanWellFounded DEF OpToRel
<1>2. left \subseteq Nat /\ left # {}
  <2>1. \A a \in A : Window - a \in Nat
    BY LimitAssumption
  <2>2. left \subseteq Nat
    BY <2>1
  <2>3. PICK a \in A : TRUE
    OBVIOUS
  <2>4. Window - a \in left
    BY <2>3
  <2> QED
    BY <2>2, <2>4
<1>3. PICK x \in left : \A y \in left : ~ (<<y, x>> \in below)
  <2> HIDE DEF left, below
  <2> QED
    BY <1>1, <1>2, WFMin
<1>4. \A y \in left : x <= y
  <2> SUFFICES ASSUME NEW y \in left PROVE x <= y
    OBVIOUS
  <2>1. x \in Nat /\ y \in Nat
    <3> HIDE DEF left
    <3> QED BY <1>2, <1>3
  <2>2. ~ (y < x)
    <3>1. <<y, x>> \notin below
      <4> HIDE DEF left, below
      <4> QED BY <1>3
    <3> HIDE DEF left
    <3> QED BY <2>1, <3>1
  <2> HIDE DEF left, below
  <2> QED
    BY <2>1, <2>2
<1>5. PICK a \in A : x = Window - a
  OBVIOUS
<1>6. \A b \in A : Window - b \in left
  OBVIOUS
<1>7. \A b \in A : x <= Window - b
  BY <1>4, <1>6
<1> HIDE DEF left, below
<1> QED
  BY <1>5, <1>7, LimitAssumption

\* A sleep ends within the window, and before any of the timestamps leaves it.
LEMMA WaitType ==
  ASSUME TypeOK, NEW T \in SUBSET Task
  PROVE  /\ Wait(T) \in 0 .. Window
         /\ \A u \in T : age[u] + Wait(T) <= Window
<1> DEFINE A == {age[w] : w \in T}
           oldest == CHOOSE a \in A : \A b \in A : b <= a
<1>1. CASE T = {}
  BY <1>1, LimitAssumption DEF Wait
<1>2. CASE T # {}
  <2>1. A \subseteq 0 .. Window /\ A # {}
    BY <1>2 DEF TypeOK
  <2>2. oldest \in A /\ \A b \in A : b <= oldest
    <3>1. \E a \in A : \A b \in A : b <= a
      <4> HIDE DEF A
      <4> QED BY <2>1, OldestExists
    <3> QED BY <3>1
  <2>3. Wait(T) = Window - oldest
    <3>1. oldest = CHOOSE a \in {age[w] : w \in T} : \A w \in T : age[w] <= a
      OBVIOUS
    <3> QED BY <1>2, <3>1 DEF Wait
  <2>4. \A u \in T : age[u] \in Nat /\ age[u] <= oldest
    <3> HIDE DEF oldest
    <3> QED BY <2>2 DEF TypeOK
  <2>5. oldest \in 0 .. Window
    <3> HIDE DEF A, oldest
    <3> QED BY <2>1, <2>2
  <2> HIDE DEF A, oldest
  <2> QED
    BY <2>3, <2>4, <2>5, LimitAssumption
<1> QED
  BY <1>1, <1>2

\* Fewer recent calls than there were: the limit still holds.
LEMMA LimitShrinks ==
  ASSUME NEW S, NEW R, S \subseteq R, R \subseteq Task, Cardinality(R) <= MaxTasks
  PROVE  Cardinality(S) <= MaxTasks
<1>1. IsFiniteSet(R)
  BY FS_Subset, TaskAssumption
<1> QED
  BY <1>1, FS_Subset, FS_CardinalityType, LimitAssumption

\* A call that goes in finds room among all the recent ones.
LEMMA LimitOnAcquire ==
  ASSUME Inv, NEW w \in Task, MayGoIn(w)
  PROVE  Cardinality(Recent \cup {w}) <= MaxTasks
<1>1. Recent \subseteq Live
  BY DEF Inv, Recorded, Recent, Live
<1>2. IsFiniteSet(Live)
  BY FS_Subset, TaskAssumption DEF Inv, TypeOK, Live
<1>3. Cardinality(Live) \in Nat /\ Cardinality(Live) < MaxTasks
  BY <1>2, FS_CardinalityType DEF MayGoIn
<1>4. IsFiniteSet(Recent) /\ Cardinality(Recent) <= Cardinality(Live)
  BY <1>1, <1>2, FS_Subset
<1>5. Cardinality(Recent) \in Nat
  BY <1>4, FS_CardinalityType
<1> QED
  BY <1>3, <1>4, <1>5, FS_AddElement, LimitAssumption

-----------------------------------------------------------------------------
LEMMA InitInv == Init => Inv
<1> SUFFICES ASSUME Init PROVE Inv
  OBVIOUS
<1>1. TypeOK
  BY LimitAssumption DEF Init, TypeOK
<1>2. Recent = {}
  BY DEF Init, Recent
<1>3. RateLimit
  BY <1>2, FS_EmptySet, LimitAssumption DEF RateLimit, Recent
<1> QED
  BY <1>1, <1>2, <1>3 DEF Init, Inv, Recorded, Queued

\* A step that lets nobody in, pops no live timestamp and takes no call under way
\* off the queue.
LEMMA OtherSteps ==
  ASSUME Inv, TypeOK', Recent' \subseteq Recent,
         Live \subseteq timestamps' \/ timestamps' = timestamps,
         Queued'
  PROVE  Inv'
<1>1. Recorded'
  BY DEF Inv, Recorded, Recent, Live
<1>2. RateLimit'
  <2>1. Cardinality(Recent) <= MaxTasks /\ Recent \subseteq Task
    BY DEF Inv, RateLimit, Recent
  <2>2. Cardinality(Recent') <= MaxTasks
    <3> HIDE DEF Recent
    <3> QED BY <2>1, LimitShrinks
  <2> QED
    BY <2>2 DEF RateLimit, Recent
<1> QED
  BY <1>1, <1>2 DEF Inv

LEMMA EnterInv == ASSUME Inv, NEW w \in Task, Enter(w) PROVE Inv'
<1>1. Cardinality({v \in Task : pc[v] # "Idle"}) \in Nat
  BY TaskAssumption, FS_Subset, FS_CardinalityType
<1>2. TypeOK'
  BY <1>1 DEF Inv, TypeOK, Enter
<1> QED
  BY <1>2, OtherSteps DEF Inv, TypeOK, Enter, Recent, Queued, Live

LEMMA AcquireInv == ASSUME Inv, NEW w \in Task, Acquire(w) PROVE Inv'
<1>1. TypeOK'
  BY LimitAssumption DEF Inv, TypeOK, Acquire, NotifyFront, Live
<1>2. Recent' \subseteq Recent \cup {w}
  BY DEF Inv, TypeOK, Acquire, Recent
<1>3. Recorded'
  BY DEF Inv, TypeOK, Recorded, Acquire, Recent, Live
<1>4. Queued'
  BY DEF Inv, TypeOK, Queued, Acquire
<1>5. RateLimit'
  <2>1. Cardinality(Recent \cup {w}) <= MaxTasks
    BY LimitOnAcquire DEF Acquire
  <2>2. Recent \cup {w} \subseteq Task
    BY DEF Recent
  <2>3. Cardinality(Recent') <= MaxTasks
    <3> HIDE DEF Recent
    <3> QED BY <1>2, <2>1, <2>2, LimitShrinks
  <2> QED
    BY <2>3 DEF RateLimit, Recent
<1> QED
  BY <1>1, <1>3, <1>4, <1>5 DEF Inv

LEMMA GoToSleepInv == ASSUME Inv, NEW w \in Task, GoToSleep(w) PROVE Inv'
<1>1. Live \in SUBSET Task
  BY DEF Inv, TypeOK, Live
<1>2. Wait(Live) \in 0 .. Window
  BY <1>1, WaitType DEF Inv
<1>3. TypeOK'
  BY <1>1, <1>2 DEF Inv, TypeOK, GoToSleep
<1> QED
  BY <1>3, OtherSteps DEF Inv, TypeOK, GoToSleep, Recent, Queued, Live

LEMMA WakeUpInv == ASSUME Inv, NEW w \in Task, WakeUp(w) PROVE Inv'
<1>1. TypeOK'
  <2>1. permit' \in [Task -> BOOLEAN]
    <3>1. CASE permit' = permit
      BY <3>1 DEF Inv, TypeOK
    <3>2. CASE permit' = [permit EXCEPT ![w] = FALSE]
      BY <3>2, Zenon DEF Inv, TypeOK
    <3> QED
      BY <3>1, <3>2 DEF WakeUp
  <2>2. pc' \in [Task -> {"Idle", "Checking", "Asleep", "Acquired", "Cancelled"}]
    BY DEF Inv, TypeOK, WakeUp
  <2>3. remaining' \in [Task -> 0 .. Window]
    <3>1. remaining' = [remaining EXCEPT ![w] = 0] /\ 0 \in 0 .. Window
      BY LimitAssumption DEF WakeUp
    <3> QED
      BY <3>1 DEF Inv, TypeOK
  <2> QED
    BY <2>1, <2>2, <2>3 DEF Inv, TypeOK, WakeUp
<1> QED
  BY <1>1, OtherSteps DEF Inv, TypeOK, WakeUp, Recent, Queued, Live

LEMMA CancelInv == ASSUME Inv, NEW w \in Task, Cancel(w) PROVE Inv'
<1>1. TypeOK'
  BY LimitAssumption DEF Inv, TypeOK, Cancel
<1> QED
  BY <1>1, OtherSteps DEF Inv, TypeOK, Cancel, Recent, Queued, Live

LEMMA CleanUpInv == ASSUME Inv, NEW w \in Task, CleanUp(w) PROVE Inv'
<1>1. TypeOK'
  BY DEF Inv, TypeOK, CleanUp, NotifyFront
<1> QED
  BY <1>1, OtherSteps DEF Inv, TypeOK, CleanUp, Recent, Queued, Live

LEMMA TickInv == ASSUME Inv, Tick PROVE Inv'
<1>1. age' \in [Task -> 0 .. Window] /\ remaining' \in [Task -> 0 .. Window]
  BY LimitAssumption DEF Inv, TypeOK, Tick
<1>2. TypeOK'
  BY <1>1 DEF Inv, TypeOK, Tick
<1>3. Recent' \subseteq Recent
  BY LimitAssumption DEF Inv, TypeOK, Tick, Recent
<1> QED
  BY <1>2, <1>3, OtherSteps DEF Inv, Tick, Queued

LEMMA NextInv == Inv /\ [Next]_vars => Inv'
<1> SUFFICES ASSUME Inv, [Next]_vars PROVE Inv'
  OBVIOUS
<1>1. CASE Tick
  BY <1>1, TickInv
<1>2. CASE UNCHANGED vars
  <2>1. TypeOK'
    BY <1>2 DEF Inv, TypeOK, vars
  <2> QED
    BY <1>2, <2>1, OtherSteps DEF Inv, vars, Recent, Queued
<1> QED
  BY <1>1, <1>2, EnterInv, AcquireInv, GoToSleepInv, WakeUpInv, CancelInv, CleanUpInv
     DEF Next

LEMMA Invariance == Spec => []Inv
<1> QED
  BY InitInv, NextInv, PTL DEF Spec

-----------------------------------------------------------------------------
(* A sleep at the front of the queue. *)

LEMMA InitTimed == Init => SleepIsTimed
  BY DEF Init, SleepIsTimed

\* Whoever comes to the front because another leaves the queue is notified.
LEMMA FrontIsNotified ==
  ASSUME NEW W, permit' = NotifyFront(W), waiters' = W, ticket' = ticket, W \subseteq Task
  PROVE  SleepIsTimed'
  BY DEF SleepIsTimed, NotifyFront, IsFront

LEMMA GoToSleepTimed ==
  ASSUME Inv, SleepIsTimed, NEW v \in Task, GoToSleep(v)
  PROVE  SleepIsTimed'
<1> SUFFICES ASSUME NEW w \in Task,
                    pc'[w] = "Asleep", IsFront(w, waiters)', ~permit'[w], remaining'[w] > 0
             PROVE  /\ MaxTasks <= Cardinality(timestamps')
                    /\ \A u \in timestamps' : age'[u] + remaining'[w] <= Window
  BY DEF SleepIsTimed
<1>1. IsFront(w, waiters) /\ ~permit[w]
  BY DEF GoToSleep, IsFront
<1>2. Live \in SUBSET Task
  BY DEF Inv, TypeOK, Live
<1>3. CASE w = v
  <2>1. Cardinality(Live) \in Nat /\ ~(Cardinality(Live) < MaxTasks)
    BY <1>1, <1>2, <1>3, TaskAssumption, FS_Subset, FS_CardinalityType DEF GoToSleep, MayGoIn
  <2>2. \A u \in Live : age[u] + Wait(Live) <= Window
    BY <1>2, WaitType DEF Inv
  <2> QED
    BY <1>3, <2>1, <2>2, LimitAssumption DEF Inv, TypeOK, GoToSleep
<1>4. CASE w # v
  <2>1. pc[w] = "Asleep" /\ remaining[w] > 0 /\ remaining'[w] = remaining[w]
    BY <1>4 DEF Inv, TypeOK, GoToSleep
  <2>2. /\ MaxTasks <= Cardinality(timestamps)
        /\ \A u \in timestamps : age[u] + remaining[w] <= Window
    BY <1>1, <2>1 DEF SleepIsTimed
  <2>3. Live = timestamps
    BY <2>1, <2>2, LimitAssumption DEF Inv, TypeOK, Live
  <2> QED
    BY <2>1, <2>2, <2>3 DEF GoToSleep
<1> QED
  BY <1>3, <1>4

LEMMA TickTimed == ASSUME Inv, SleepIsTimed, Tick PROVE SleepIsTimed'
<1> SUFFICES ASSUME NEW w \in Task,
                    pc'[w] = "Asleep", IsFront(w, waiters)', ~permit'[w], remaining'[w] > 0
             PROVE  /\ MaxTasks <= Cardinality(timestamps')
                    /\ \A u \in timestamps' : age'[u] + remaining'[w] <= Window
  BY DEF SleepIsTimed
<1>1. pc[w] = "Asleep" /\ IsFront(w, waiters) /\ ~permit[w] /\ timestamps' = timestamps
  BY DEF Tick, IsFront
<1>2. remaining[w] > 0 /\ remaining'[w] = remaining[w] - 1 /\ remaining[w] \in Nat
  BY DEF Inv, TypeOK, Tick
<1>3. \A u \in timestamps : age[u] \in Nat /\ age'[u] \in {age[u], age[u] + 1}
  BY DEF Inv, TypeOK, Tick
<1>4. /\ MaxTasks <= Cardinality(timestamps)
      /\ \A u \in timestamps : age[u] + remaining[w] <= Window
  BY <1>1, <1>2 DEF SleepIsTimed
<1> QED
  BY <1>1, <1>2, <1>3, <1>4, LimitAssumption

LEMMA NextTimed == Inv /\ SleepIsTimed /\ [Next]_vars => SleepIsTimed'
<1> SUFFICES ASSUME Inv, SleepIsTimed, [Next]_vars PROVE SleepIsTimed'
  OBVIOUS
<1>1. ASSUME NEW v \in Task, Enter(v) PROVE SleepIsTimed'
  <2> SUFFICES ASSUME NEW w \in Task,
                      pc'[w] = "Asleep", IsFront(w, waiters)', ~permit'[w], remaining'[w] > 0
               PROVE  /\ MaxTasks <= Cardinality(timestamps')
                      /\ \A u \in timestamps' : age'[u] + remaining'[w] <= Window
    BY DEF SleepIsTimed
  <2>1. w # v /\ pc[w] = "Asleep"
    BY <1>1 DEF Enter, Inv, TypeOK
  <2>2. ticket'[w] = ticket[w] /\ \A u \in waiters : u # v => ticket'[u] = ticket[u]
    BY <1>1, <2>1 DEF Enter, Inv, TypeOK
  <2>3. w \in waiters /\ v \notin waiters
    BY <1>1, <2>1 DEF Enter, Inv, Queued
  <2>4. IsFront(w, waiters)
    BY <1>1, <2>1, <2>2, <2>3 DEF Enter, IsFront
  <2> QED
    BY <1>1, <2>1, <2>4 DEF Enter, SleepIsTimed
<1>2. ASSUME NEW v \in Task, Acquire(v) \/ CleanUp(v) PROVE SleepIsTimed'
  <2>1. /\ waiters' = waiters \ {v} /\ permit' = NotifyFront(waiters \ {v})
        /\ ticket' = ticket /\ waiters \ {v} \subseteq Task
    BY <1>2 DEF Acquire, CleanUp, Inv, TypeOK
  <2> QED
    BY <2>1, FrontIsNotified
<1>3. ASSUME NEW v \in Task, WakeUp(v) PROVE SleepIsTimed'
  <2> SUFFICES ASSUME NEW w \in Task,
                      pc'[w] = "Asleep", IsFront(w, waiters)', ~permit'[w], remaining'[w] > 0
               PROVE  /\ MaxTasks <= Cardinality(timestamps')
                      /\ \A u \in timestamps' : age'[u] + remaining'[w] <= Window
    BY DEF SleepIsTimed
  <2>1. w # v
    BY <1>3 DEF WakeUp, Inv, TypeOK
  <2>2. permit'[w] = permit[w]
    <3>1. CASE permit' = permit
      BY <3>1
    <3>2. CASE permit' = [permit EXCEPT ![v] = FALSE]
      BY <2>1, <3>2, Zenon DEF Inv, TypeOK
    <3> QED
      BY <1>3, <3>1, <3>2 DEF WakeUp
  <2>3. pc[w] = "Asleep" /\ remaining'[w] = remaining[w] /\ IsFront(w, waiters)
    BY <1>3, <2>1 DEF WakeUp, Inv, TypeOK, IsFront
  <2>4. ~permit[w] /\ remaining[w] > 0
    BY <2>2, <2>3
  <2> QED
    BY <1>3, <2>3, <2>4 DEF WakeUp, SleepIsTimed
<1>4. ASSUME NEW v \in Task, Cancel(v) PROVE SleepIsTimed'
  BY <1>4 DEF Cancel, Inv, TypeOK, SleepIsTimed, IsFront
<1>5. CASE UNCHANGED vars
  BY <1>5 DEF vars, SleepIsTimed, IsFront
<1> QED
  BY <1>1, <1>2, <1>3, <1>4, <1>5, GoToSleepTimed, TickTimed DEF Next

-----------------------------------------------------------------------------
(* The theorems. *)

\* The state of the limiter keeps its type: an age and a sleep never leave the
\* window, whatever oldest timestamp the sleep is computed from.
THEOREM TypeCorrect == Spec => []TypeOK
<1>1. Inv => TypeOK
  BY DEF Inv
<1> QED
  BY <1>1, Invariance, PTL

\* acquire lets no more than max_tasks calls in during any window, for any number
\* of calls, cancelled or not, any max_tasks and any window.
THEOREM RateLimitHolds == Spec => []RateLimit
<1>1. Inv => RateLimit
  BY DEF Inv
<1> QED
  BY <1>1, Invariance, PTL

\* Whenever there is room for the call at the front, its sleep is over or it is
\* notified: no cancellation, and no order of wake-ups, leaves it asleep.
THEOREM NoOversleepHolds == Spec => []NoOversleep
<1>1. Inv /\ SleepIsTimed => NoOversleep
  <2> SUFFICES ASSUME Inv, SleepIsTimed, NEW w \in Task,
                      pc[w] = "Asleep", IsFront(w, waiters), Cardinality(Live) < MaxTasks,
                      remaining[w] # 0, ~permit[w]
               PROVE  FALSE
    BY DEF NoOversleep
  <2>1. remaining[w] \in Nat /\ remaining[w] > 0
    BY DEF Inv, TypeOK
  <2>2. /\ MaxTasks <= Cardinality(timestamps)
        /\ \A u \in timestamps : age[u] + remaining[w] <= Window
    BY <2>1 DEF SleepIsTimed
  <2>3. Live = timestamps
    BY <2>1, <2>2, LimitAssumption DEF Inv, TypeOK, Live
  <2>4. Cardinality(timestamps) \in Nat
    BY TaskAssumption, FS_Subset, FS_CardinalityType DEF Inv, TypeOK
  <2> QED
    BY <2>2, <2>3, <2>4, LimitAssumption
<1>2. Spec => []SleepIsTimed
  BY InitTimed, NextTimed, Invariance, PTL DEF Spec
<1> QED
  BY <1>1, <1>2, Invariance, PTL

\* Only the call at the front of the queue goes in, and no call under way is off
\* the queue: the calls go in in the order they came.
THEOREM FirstComeFirstServedHolds == Spec => FirstComeFirstServed
<1> DEFINE Overtaken(v, w) ==
      /\ pc[w] # "Acquired" /\ pc'[w] = "Acquired"
      /\ pc[v] # "Idle" /\ ticket[v] < ticket[w]
<1>1. ASSUME Inv, [Next]_vars
      PROVE  [\A v, w \in Task :
                Overtaken(v, w) => pc[v] \in {"Acquired", "Cancelled"}]_vars
  <2> SUFFICES ASSUME NEW v \in Task, NEW w \in Task, Overtaken(v, w), Next
               PROVE  pc[v] \in {"Acquired", "Cancelled"}
    BY <1>1
  <2>1. Acquire(w)
    <3>1. ASSUME NEW u \in Task, Acquire(u) PROVE u = w
      BY <1>1, <3>1 DEF Acquire, Inv, TypeOK
    <3> QED
      BY <1>1, <3>1 DEF Next, Enter, GoToSleep, WakeUp, Cancel, CleanUp, Tick, Inv, TypeOK
  <2>2. v \notin waiters
    BY <1>1, <2>1 DEF Acquire, MayGoIn, IsFront, Inv, TypeOK
  <2> QED
    BY <1>1, <2>2 DEF Inv, Queued, TypeOK
<1> QED
  BY <1>1, Invariance, PTL DEF Spec, FirstComeFirstServed

=============================================================================
