-------------------------------- MODULE Timers --------------------------------
(****************************************************************************)
(* The timer service (timer/timer.cpp): any thread adds and removes timers, *)
(* one thread waits on a condition variable for the earliest of them and    *)
(* calls on_timer() for those that have expired, without the lock.          *)
(*                                                                          *)
(* Time is a counter; an action is a critical section of Timer::m_mutex, a  *)
(* call of on_timer(), or the passing of time.  A client is told apart by   *)
(* the TimerID that it holds.                                               *)
(****************************************************************************)
EXTENDS Integers

CONSTANTS Delays,   \* the delays that clients ask for
          IdSpan,   \* 2^32: m_id_counter is an unsigned long
          MaxAdds,  \* bound on the timers added
          MaxTime   \* bound on the clock

ASSUME DelaysAssumption == Delays \subseteq Nat
ASSUME IdSpanAssumption == IdSpan \in Nat /\ IdSpan > 1
ASSUME BoundsAssumption == MaxAdds \in Nat /\ MaxTime \in Nat

VARIABLES clock,     \* omni_thread::get_time
          timers,    \* m_timers
          counter,   \* m_id_counter
          adds,      \* the calls of add() so far
          thread,    \* where the timer thread is
          due,       \* due_timers that have not been told yet
          fired,     \* the timers whose client was told
          removed    \* the timers that remove() took out

vars == <<clock, timers, counter, adds, thread, due, fired, removed>>

TimerID == [at : Nat, id : Nat \ {0}]

(* The thread waits on m_condition, until a time if `timed', or it calls    *)
(* on_timer() for what is due.                                              *)
ThreadState == [pc : {"waiting", "calling"}, timed : BOOLEAN, until : Nat,
                signalled : BOOLEAN]

TypeOK ==
    /\ clock \in Nat
    /\ timers \subseteq TimerID
    /\ counter \in 0..IdSpan - 1
    /\ adds \in Nat
    /\ thread \in ThreadState
    /\ due \subseteq TimerID
    /\ fired \subseteq TimerID
    /\ removed \subseteq TimerID

Init ==
    /\ clock = 0
    /\ timers = {}
    /\ counter = 0
    /\ adds = 0
    /\ thread = [pc |-> "calling", timed |-> FALSE, until |-> 0,
                 signalled |-> FALSE]
    /\ due = {}
    /\ fired = {}
    /\ removed = {}

----------------------------------------------------------------------------
(* operator<, the order of m_timers                                         *)
Before(s, t) == s.at < t.at \/ (s.at = t.at /\ s.id < t.id)

IsFirst(t, S) == t \in S /\ \A u \in S : u = t \/ Before(t, u)

IsExpired(t) == clock >= t.at

Count == (counter + 1) % IdSpan

\* Variant: wakes the thread only if it had nothing to wait for
SignalsIfEmpty(t) == timers = {}

(* add() wakes the thread if the new timer is the first one to expire.      *)
Signals(t) == IsFirst(t, timers \cup {t})

(* Timer::add.  The id 0 is skipped, so that it returns the id 1 twice when *)
(* the counter wraps; a TimerID that is in the set already is not inserted  *)
(* again.                                                                   *)
Add(delta) ==
    /\ adds < MaxAdds
    /\ clock + delta <= MaxTime
    /\ LET t == [at |-> clock + delta, id |-> IF Count = 0 THEN 1 ELSE Count]
       IN /\ timers' = timers \cup {t}
          /\ thread' = [thread EXCEPT
                !.signalled = @ \/ (thread.pc = "waiting" /\ Signals(t))]
          /\ fired' = fired \ {t}
          /\ removed' = removed \ {t}
    /\ counter' = Count
    /\ adds' = adds + 1
    /\ UNCHANGED <<clock, due>>

(* Timer::remove of a timer that is in the set; of any other it does        *)
(* nothing and returns false.                                               *)
Remove(t) ==
    /\ timers' = timers \ {t}
    /\ removed' = removed \cup {t}
    /\ UNCHANGED <<clock, counter, adds, thread, due, fired>>

Waiting(timed, until) == [pc |-> "waiting", timed |-> timed, until |-> until,
                          signalled |-> FALSE]

\* Variant: waits for a signal, whatever is in the set
WaitsForSignal ==
    /\ thread.pc = "calling"
    /\ due = {}
    /\ thread' = Waiting(FALSE, 0)
    /\ UNCHANGED <<clock, timers, counter, adds, due, fired, removed>>

\* Variant: waits for as long as the earliest timer has still to run
WaitsRelative ==
    /\ thread.pc = "calling"
    /\ due = {}
    /\ \/ timers = {} /\ thread' = Waiting(FALSE, 0)
       \/ \E t \in timers :
             IsFirst(t, timers) /\ thread' = Waiting(TRUE, t.at - clock)
    /\ UNCHANGED <<clock, timers, counter, adds, due, fired, removed>>

(* The thread has told everybody, and waits for the earliest timer.         *)
Waits ==
    /\ thread.pc = "calling"
    /\ due = {}
    /\ \/ timers = {} /\ thread' = Waiting(FALSE, 0)
       \/ \E t \in timers :
             IsFirst(t, timers) /\ thread' = Waiting(TRUE, t.at)
    /\ UNCHANGED <<clock, timers, counter, adds, due, fired, removed>>

\* Variant: takes the expired timers out only after it has called them
CopiesExpired ==
    /\ thread.pc = "waiting"
    /\ thread.signalled \/ (thread.timed /\ clock >= thread.until)
    /\ due' = {t \in timers : IsExpired(t)}
    /\ thread' = [thread EXCEPT !.pc = "calling"]
    /\ UNCHANGED <<clock, timers, counter, adds, fired, removed>>

(* The wait ends with a signal or in time; the thread takes what has        *)
(* expired out of the set.                                                  *)
Wakes ==
    /\ thread.pc = "waiting"
    /\ thread.signalled \/ (thread.timed /\ clock >= thread.until)
    /\ due' = {t \in timers : IsExpired(t)}
    /\ timers' = {t \in timers : ~IsExpired(t)}
    /\ thread' = [thread EXCEPT !.pc = "calling"]
    /\ UNCHANGED <<clock, counter, adds, fired, removed>>

\* Variant: calls them in any order
CallsAny(t) ==
    /\ thread.pc = "calling"
    /\ t \in due
    /\ due' = due \ {t}
    /\ fired' = fired \cup {t}
    /\ UNCHANGED <<clock, timers, counter, adds, thread, removed>>

(* on_timer(), one after the other; in the meantime, and in on_timer()      *)
(* itself, anyone may add and remove timers.                                *)
Calls(t) ==
    /\ thread.pc = "calling"
    /\ IsFirst(t, due)
    /\ due' = due \ {t}
    /\ fired' = fired \cup {t}
    /\ UNCHANGED <<clock, timers, counter, adds, thread, removed>>

Tick ==
    /\ clock < MaxTime
    /\ clock' = clock + 1
    /\ UNCHANGED <<timers, counter, adds, thread, due, fired, removed>>

Next ==
    \/ \E delta \in Delays : Add(delta)
    \/ \E t \in timers : Remove(t)
    \/ Waits
    \/ Wakes
    \/ \E t \in due : Calls(t)
    \/ Tick

Spec == Init /\ [][Next]_vars

(* Time passes, the thread runs, and no on_timer() stays for ever.          *)
Fairness ==
    /\ WF_vars(Tick)
    /\ WF_vars(Waits)
    /\ WF_vars(Wakes)
    /\ WF_vars(\E t \in due : Calls(t))

FairSpec == Spec /\ Fairness

----------------------------------------------------------------------------
(* The thread never sleeps past a timer: what it waits for is not later     *)
(* than the earliest timer, or a signal that it has not seen yet wakes it   *)
(* (add() signals while it waits only, run_undetached() looks at the set    *)
(* again before each wait, remove() never signals).                         *)
NoLostWakeUp ==
    thread.pc = "waiting" /\ ~thread.signalled =>
        \A t \in timers : thread.timed /\ thread.until <= t.at

(* No timer is called before its time, nor after remove() returned true for *)
(* it, although the thread calls without the lock.                          *)
NeverEarlyNorRemoved ==
    /\ \A t \in due \cup fired : t.at <= clock
    /\ removed \cap (timers \cup due \cup fired) = {}

(* Timers are called in the order of their times: none is called while an   *)
(* earlier one is in the set or due, also if it was added meanwhile.        *)
CalledInOrder ==
    [][\A t \in due \ due' : \A u \in due \cup timers : t.at <= u.at]_vars

(* Every timer is called or removed some time.  (While fewer than IdSpan    *)
(* are added, no two have the same id.)                                     *)
EveryTimerEnds ==
    \A i \in 1..IdSpan - 1 :
        (\E t \in timers \cup due : t.id = i)
            ~> ~(\E t \in timers \cup due : t.id = i)
=============================================================================
