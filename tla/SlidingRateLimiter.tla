------------------------- MODULE SlidingRateLimiter -------------------------
(***************************************************************************)
(* search_rate_limiter.rs: at most max_tasks searches start in any window  *)
(* of time; the others queue.                                              *)
(*                                                                         *)
(* Each call of acquire is a task.  The sections under the mutex have no   *)
(* await in them, so each is one step; between two of them any other task  *)
(* runs, time passes, or the caller drops the future.  A dropped, or       *)
(* finished, future spawns a task that takes it off the queue.             *)
(*                                                                         *)
(* An operator under "Mutant:" is no part of the model: it is the operator *)
(* after it with a plausible bug.                                          *)
(***************************************************************************)
EXTENDS Integers, FiniteSets

CONSTANTS Task,      \* calls of acquire
          MaxTasks,  \* max_tasks
          Window     \* window, in ticks of the clock

ASSUME TaskAssumption  == IsFiniteSet(Task)
ASSUME LimitAssumption == MaxTasks \in Nat \ {0} /\ Window \in Nat \ {0}

VARIABLES
  pc,          \* where a call is
  ticket,      \* its place in the order of waiters.push_back
  waiters,     \* the calls in the VecDeque waiters, ordered by ticket
  timestamps,  \* the calls whose timestamp is in the VecDeque timestamps
  age,         \* ticks since a call's timestamp, counted up to Window
  remaining,   \* ticks its sleep still lasts; 0 when it is not asleep
  permit,      \* its Notify holds a permit
  cleanups     \* calls whose WaiterGuard is dropped, the spawned task not yet run

vars == <<pc, ticket, waiters, timestamps, age, remaining, permit, cleanups>>

TypeOK ==
  /\ pc \in [Task -> {"Idle", "Checking", "Asleep", "Acquired", "Cancelled"}]
  /\ ticket \in [Task -> Nat]
  /\ waiters \subseteq Task
  /\ timestamps \subseteq Task
  /\ age \in [Task -> 0 .. Window]
  /\ remaining \in [Task -> 0 .. Window]
  /\ permit \in [Task -> BOOLEAN]
  /\ cleanups \subseteq Task

Init ==
  /\ pc = [w \in Task |-> "Idle"]
  /\ ticket = [w \in Task |-> 0]
  /\ waiters = {}
  /\ timestamps = {}
  /\ age = [w \in Task |-> 0]
  /\ remaining = [w \in Task |-> 0]
  /\ permit = [w \in Task |-> FALSE]
  /\ cleanups = {}

-----------------------------------------------------------------------------
IsFront(w, W) == w \in W /\ \A v \in W : ticket[w] <= ticket[v]

\* Mutant: the timestamps are trimmed to make room, whatever their age.
LiveAnyAge == {w \in timestamps : Cardinality(timestamps) < MaxTasks}

\* What the while loop leaves: ages decrease along the queue, so popping the front
\* while it is expired removes every expired timestamp.
Live == {w \in timestamps : age[w] < Window}

\* Mutant: nobody is woken.
NotifyNobody(W) == [v \in Task |-> v \in W /\ permit[v]]

\* front().notify_one().  The permits of calls no longer in W are of no use.
NotifyFront(W) == [v \in Task |-> v \in W /\ (permit[v] \/ IsFront(v, W))]

\* Mutant: the age is added to the window.
WaitAdding(T) ==
  IF T = {} THEN 0
  ELSE Window + (CHOOSE a \in {age[w] : w \in T} : \A w \in T : age[w] <= a)

\* The wait until the oldest timestamp leaves the window; none when there is no
\* timestamp.
Wait(T) ==
  IF T = {} THEN 0
  ELSE Window - (CHOOSE a \in {age[w] : w \in T} : \A w \in T : age[w] <= a)

\* waiters.push_back.  A ticket is the number of calls made before.
Enter(w) ==
  /\ pc[w] = "Idle"
  /\ pc' = [pc EXCEPT ![w] = "Checking"]
  /\ ticket' = [ticket EXCEPT ![w] = Cardinality({v \in Task : pc[v] # "Idle"})]
  /\ waiters' = waiters \cup {w}
  /\ UNCHANGED <<timestamps, age, remaining, permit, cleanups>>

\* Mutant: any waiter may go in, not only the one at the front.
MayGoInTurnless(w) == w \in waiters /\ Cardinality(Live) < MaxTasks

MayGoIn(w) == IsFront(w, waiters) /\ Cardinality(Live) < MaxTasks

\* The guard of a call that returns is dropped too.
Acquire(w) ==
  /\ pc[w] = "Checking"
  /\ MayGoIn(w)
  /\ pc' = [pc EXCEPT ![w] = "Acquired"]
  /\ waiters' = waiters \ {w}
  /\ timestamps' = Live \cup {w}
  /\ age' = [age EXCEPT ![w] = 0]
  /\ permit' = NotifyFront(waiters \ {w})
  /\ cleanups' = cleanups \cup {w}
  /\ UNCHANGED <<ticket, remaining>>

GoToSleep(w) ==
  /\ pc[w] = "Checking"
  /\ ~MayGoIn(w)
  /\ pc' = [pc EXCEPT ![w] = "Asleep"]
  /\ timestamps' = Live
  /\ remaining' = [remaining EXCEPT ![w] = Wait(Live)]
  /\ UNCHANGED <<ticket, waiters, age, permit, cleanups>>

\* The select ends by the sleep, and leaves a permit there is for the next round,
\* or by the notification, and uses the permit up.
WakeUp(w) ==
  /\ pc[w] = "Asleep"
  /\ pc' = [pc EXCEPT ![w] = "Checking"]
  /\ remaining' = [remaining EXCEPT ![w] = 0]
  /\ \/ remaining[w] = 0 /\ UNCHANGED permit
     \/ permit[w] /\ permit' = [permit EXCEPT ![w] = FALSE]
  /\ UNCHANGED <<ticket, waiters, timestamps, age, cleanups>>

\* The caller drops the future at an await: of the mutex, or of the select.
Cancel(w) ==
  /\ pc[w] \in {"Checking", "Asleep"}
  /\ pc' = [pc EXCEPT ![w] = "Cancelled"]
  /\ cleanups' = cleanups \cup {w}
  /\ remaining' = [remaining EXCEPT ![w] = 0]
  /\ UNCHANGED <<ticket, waiters, timestamps, age, permit>>

\* Mutant: the task wakes the next waiter and forgets to take this one off.
CleanUpNotifyOnly(w) ==
  /\ w \in cleanups
  /\ cleanups' = cleanups \ {w}
  /\ permit' = NotifyFront(waiters \ {w})
  /\ UNCHANGED <<pc, ticket, waiters, timestamps, age, remaining>>

\* The task spawned by the drop of the guard.
CleanUp(w) ==
  /\ w \in cleanups
  /\ cleanups' = cleanups \ {w}
  /\ waiters' = waiters \ {w}
  /\ permit' = NotifyFront(waiters \ {w})
  /\ UNCHANGED <<pc, ticket, timestamps, age, remaining>>

Tick ==
  /\ age' = [w \in Task |-> IF pc[w] = "Acquired" /\ age[w] < Window
                            THEN age[w] + 1 ELSE age[w]]
  /\ remaining' = [w \in Task |-> IF remaining[w] > 0 THEN remaining[w] - 1 ELSE 0]
  /\ UNCHANGED <<pc, ticket, waiters, timestamps, permit, cleanups>>

Next ==
  \/ \E w \in Task : \/ Enter(w) \/ Acquire(w) \/ GoToSleep(w)
                     \/ WakeUp(w) \/ Cancel(w) \/ CleanUp(w)
  \/ Tick

Spec == Init /\ [][Next]_vars

\* Tasks are scheduled and time passes; nobody has to call or to give up.
Fairness == /\ \A w \in Task : /\ WF_vars(Acquire(w)) /\ WF_vars(GoToSleep(w))
                               /\ WF_vars(WakeUp(w)) /\ WF_vars(CleanUp(w))
            /\ WF_vars(Tick)

FairSpec == Spec /\ Fairness

-----------------------------------------------------------------------------
\* In any window of time at most max_tasks calls were let in, however the window
\* falls on the timestamps that have been dropped from the queue since.
RateLimit ==
  Cardinality({w \in Task : pc[w] = "Acquired" /\ age[w] < Window}) <= MaxTasks

\* The call whose turn it is never sleeps through a free place: its sleep ends no
\* later than the window does, or a notification is on its way.
NoOversleep ==
  \A w \in Task :
    pc[w] = "Asleep" /\ IsFront(w, waiters) /\ Cardinality(Live) < MaxTasks
      => remaining[w] = 0 \/ permit[w]

\* A call is let in only after every call that queued before it was let in or
\* gave up.
FirstComeFirstServed ==
  [][\A v, w \in Task :
       /\ pc[w] # "Acquired" /\ pc'[w] = "Acquired"
       /\ pc[v] # "Idle" /\ ticket[v] < ticket[w]
       => pc[v] \in {"Acquired", "Cancelled"}]_vars

\* A call that does not give up is let in, whoever gives up before it and whenever.
EverybodyIsServed ==
  \A w \in Task : pc[w] = "Checking" ~> pc[w] \in {"Acquired", "Cancelled"}

=============================================================================
