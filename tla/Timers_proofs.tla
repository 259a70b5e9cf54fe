----------------------------- MODULE Timers_proofs -----------------------------
(****************************************************************************)
(* For every set of delays and any number of timers: the timer thread never *)
(* sleeps past a timer, calls none before its time or out of order, and     *)
(* none that was removed.                                                   *)
(****************************************************************************)
EXTENDS Timers, TLAPS

(* What is due has expired and comes before all that is still in the set;   *)
(* nothing is due while the thread waits.                                   *)
DueFirst ==
    /\ thread.pc = "waiting" => due = {}
    /\ \A d \in due : d.at <= clock
    /\ \A d \in due : \A t \in timers : d.at <= t.at

IInv == TypeOK /\ DueFirst /\ NoLostWakeUp

(* The identity of a timer that add() makes                                 *)
NewId == IF Count = 0 THEN 1 ELSE Count

(* The counter stays below its span, and no timer has the id 0.             *)
LEMMA CountType ==
    ASSUME TypeOK
    PROVE  Count \in 0..IdSpan - 1 /\ NewId \in Nat \ {0}
  BY IdSpanAssumption DEF TypeOK, Count, NewId

(* The wake-up is there at the start: nothing is in the set.                *)
LEMMA InitInvariant == Init => IInv
  BY IdSpanAssumption
  DEF Init, IInv, TypeOK, DueFirst, NoLostWakeUp, ThreadState, TimerID

(* A new timer is not due yet, and wakes the thread if it comes before what *)
(* the thread waits for.                                                    *)
LEMMA AddInvariant ==
    ASSUME IInv, NEW delta \in Delays, Add(delta)
    PROVE  IInv'
<1> DEFINE t == [at |-> clock + delta, id |-> NewId]
<1>. USE DEF IInv
<1>1. t \in TimerID /\ t.at >= clock
  BY CountType, DelaysAssumption DEF TypeOK, TimerID
<1>2. /\ timers' = timers \cup {t}
      /\ thread' = [thread EXCEPT
            !.signalled = @ \/ (thread.pc = "waiting" /\ Signals(t))]
      /\ fired' = fired \ {t} /\ removed' = removed \ {t}
      /\ counter' = Count /\ adds' = adds + 1
      /\ clock' = clock /\ due' = due
  BY DEF Add, NewId
<1> HIDE DEF t
<1>3. /\ thread \in ThreadState /\ thread' \in ThreadState
      /\ thread'.pc = thread.pc /\ thread'.timed = thread.timed
      /\ thread'.until = thread.until
      /\ thread'.signalled =
            (thread.signalled \/ (thread.pc = "waiting" /\ Signals(t)))
  <2>1. thread \in ThreadState
    BY DEF TypeOK
  <2>2. Signals(t) \in BOOLEAN
    BY DEF Signals, IsFirst
  <2>. QED  BY <1>2, <2>1, <2>2 DEF ThreadState
<1>4. TypeOK'
  BY <1>1, <1>2, <1>3, CountType DEF TypeOK
<1>5. DueFirst'
  <2>1. \A d \in due : d.at \in Nat
    BY DEF TypeOK, TimerID
  <2>2. clock \in Nat /\ t.at \in Nat
    BY <1>1 DEF TypeOK, TimerID
  <2>. QED  BY <1>1, <1>2, <1>3, <2>1, <2>2 DEF DueFirst
<1>6. NoLostWakeUp'
  <2> SUFFICES ASSUME thread.pc = "waiting", ~thread.signalled, ~Signals(t),
                      NEW u \in timers \cup {t}
               PROVE  thread.timed /\ thread.until <= u.at
    BY <1>2, <1>3 DEF NoLostWakeUp
  <2>1. \A v \in timers : thread.timed /\ thread.until <= v.at
    BY DEF NoLostWakeUp
  <2>2. PICK v \in timers : ~Before(t, v)
    BY DEF Signals, IsFirst
  <2>3. v.at <= t.at
    BY <1>1, <2>2 DEF Before, TypeOK, TimerID
  <2>4. thread.until \in Nat /\ v.at \in Nat /\ t.at \in Nat
    BY <1>1, <1>3 DEF TypeOK, TimerID, ThreadState
  <2>. QED  BY <2>1, <2>3, <2>4
<1>. QED  BY <1>4, <1>5, <1>6

(* The thread waits for the first timer, that is for none of them longer    *)
(* than it may.                                                             *)
LEMMA WaitsInvariant == ASSUME IInv, Waits PROVE IInv'
<1>. USE DEF IInv
<1>1. /\ clock' = clock /\ timers' = timers /\ counter' = counter
      /\ adds' = adds /\ due' = due /\ fired' = fired /\ removed' = removed
      /\ due = {}
  BY DEF Waits
<1>2. CASE timers = {} /\ thread' = Waiting(FALSE, 0)
  BY <1>1, <1>2 DEF TypeOK, DueFirst, NoLostWakeUp, ThreadState, Waiting
<1>3. ASSUME NEW t \in timers, IsFirst(t, timers), thread' = Waiting(TRUE, t.at)
      PROVE  IInv'
  <2>1. \A u \in timers : t.at <= u.at
    BY <1>3 DEF IsFirst, Before, TypeOK, TimerID
  <2>2. t.at \in Nat
    BY DEF TypeOK, TimerID
  <2>. QED
    BY <1>1, <1>3, <2>1, <2>2
    DEF TypeOK, DueFirst, NoLostWakeUp, ThreadState, Waiting
<1>. QED  BY <1>2, <1>3 DEF Waits

(* Everything that has expired is due, what remains has not.                *)
LEMMA WakesInvariant == ASSUME IInv, Wakes PROVE IInv'
<1>. USE DEF IInv
<1>1. /\ due' = {t \in timers : IsExpired(t)}
      /\ timers' = {t \in timers : ~IsExpired(t)}
      /\ thread' = [thread EXCEPT !.pc = "calling"]
      /\ clock' = clock /\ counter' = counter /\ adds' = adds
      /\ fired' = fired /\ removed' = removed
  BY DEF Wakes
<1>2. thread' \in ThreadState /\ thread'.pc = "calling"
  BY <1>1 DEF TypeOK, ThreadState
<1>3. \A t \in timers : t.at \in Nat /\ clock \in Nat
  BY DEF TypeOK, TimerID
<1>4. TypeOK'
  BY <1>1, <1>2 DEF TypeOK
<1>5. DueFirst'
  BY <1>1, <1>2, <1>3 DEF DueFirst, IsExpired
<1>. QED  BY <1>2, <1>4, <1>5 DEF NoLostWakeUp

(* Taking a timer away, in order or not, makes nothing late.                *)
LEMMA OtherInvariant ==
    ASSUME IInv,
           \/ \E t \in timers : Remove(t)
           \/ \E t \in due : Calls(t)
           \/ Tick
    PROVE  IInv'
<1>. USE DEF IInv
<1>1. ASSUME NEW t \in timers, Remove(t) PROVE IInv'
  BY <1>1 DEF Remove, TypeOK, DueFirst, NoLostWakeUp
<1>2. ASSUME NEW t \in due, Calls(t) PROVE IInv'
  BY <1>2 DEF Calls, TypeOK, DueFirst, NoLostWakeUp
<1>3. CASE Tick
  <2>1. \A d \in due : d.at \in Nat /\ clock \in Nat
    BY DEF TypeOK, TimerID
  <2>. QED  BY <1>3, <2>1 DEF Tick, TypeOK, DueFirst, NoLostWakeUp
<1>. QED  BY <1>1, <1>2, <1>3

(* Each step preserves the invariant.                                       *)
LEMMA StepInvariant == IInv /\ [Next]_vars => IInv'
<1> SUFFICES ASSUME IInv, [Next]_vars PROVE IInv'
  OBVIOUS
<1>1. CASE UNCHANGED vars
  BY <1>1
  DEF vars, IInv, TypeOK, DueFirst, NoLostWakeUp
<1>2. CASE Next
  BY <1>2, AddInvariant, WaitsInvariant, WakesInvariant, OtherInvariant
  DEF Next
<1>. QED  BY <1>1, <1>2

(* The state of the timer service is well formed, and no timer has the id   *)
(* 0, which means "not set" to its client.                                  *)
THEOREM TimersTypeCorrect == Spec => []TypeOK
<1>1. IInv => TypeOK
  BY DEF IInv
<1>. QED  BY InitInvariant, StepInvariant, <1>1, PTL DEF Spec

(* The thread never sleeps past a timer: add() needs to signal only for a   *)
(* timer that comes first, and only a thread that waits.                    *)
THEOREM WakeUpNotLost == Spec => []NoLostWakeUp
<1>1. IInv => NoLostWakeUp
  BY DEF IInv
<1>. QED  BY InitInvariant, StepInvariant, <1>1, PTL DEF Spec

(* Timers are called in the order of their times, although new ones come in *)
(* while the thread calls without the lock.                                 *)
THEOREM InOrder == Spec => CalledInOrder
<1> DEFINE Ordered == \A t \in due \ due' : \A u \in due \cup timers : t.at <= u.at
<1>1. IInv /\ [Next]_vars => [Ordered]_vars
  <2> SUFFICES ASSUME IInv, Next, NEW t \in due, t \notin due',
                      NEW u \in due \cup timers
               PROVE  t.at <= u.at
    OBVIOUS
  <2>1. thread.pc # "waiting"
    BY DEF IInv, DueFirst
  <2>2. PICK v \in due : Calls(v)
    BY <2>1 DEF Next, Add, Remove, Waits, Wakes, Tick
  <2>3. v = t /\ IsFirst(t, due)
    BY <2>2 DEF Calls
  <2>4. CASE u \in timers
    BY <2>4 DEF IInv, DueFirst
  <2>5. CASE u \in due
    BY <2>3, <2>5 DEF IsFirst, Before, IInv, TypeOK, TimerID
  <2>. QED  BY <2>4, <2>5
<1>. QED  BY InitInvariant, StepInvariant, <1>1, PTL DEF Spec, CalledInOrder

----------------------------------------------------------------------------
(* The timers that exist or existed                                         *)
Known == timers \cup due \cup fired \cup removed

(* While fewer than IdSpan timers are added their ids are the numbers from  *)
(* 1 to the counter, and a timer is in one place only.                      *)
Separate ==
    /\ counter = adds /\ adds <= MaxAdds
    /\ \A t \in Known : t.id <= counter
    /\ timers \cap (due \cup fired) = {}

RInv == IInv /\ Separate /\ NeverEarlyNorRemoved

(* What add() returns is new while the counter does not wrap.               *)
LEMMA AddSeparate ==
    ASSUME MaxAdds < IdSpan, RInv, NEW delta \in Delays, Add(delta)
    PROVE  (Separate /\ NeverEarlyNorRemoved)'
<1> DEFINE t == [at |-> clock + delta, id |-> NewId]
<1>1. NewId = counter + 1 /\ Count = counter + 1
  <2>1. counter + 1 \in 1..IdSpan - 1
    BY BoundsAssumption, IdSpanAssumption
    DEF RInv, IInv, TypeOK, Separate, Add
  <2>2. (counter + 1) % IdSpan = counter + 1
    BY <2>1, IdSpanAssumption
  <2>. QED  BY <2>1, <2>2 DEF NewId, Count
<1>2. /\ timers' = timers \cup {t}
      /\ fired' = fired \ {t} /\ removed' = removed \ {t}
      /\ counter' = counter + 1 /\ adds' = adds + 1
      /\ clock' = clock /\ due' = due /\ adds < MaxAdds
  BY <1>1 DEF Add, NewId
<1>3. t.id = counter + 1
  BY <1>1
<1> HIDE DEF t
<1>4. \A u \in Known : u.id \in Nat /\ u.id <= counter
  BY DEF RInv, Separate, Known, IInv, TypeOK, TimerID
<1>5. counter \in Nat /\ adds \in Nat
  BY IdSpanAssumption DEF RInv, IInv, TypeOK
<1>6. t \notin Known
  BY <1>3, <1>4, <1>5
<1>7. Known' \subseteq Known \cup {t}
  BY <1>2 DEF Known
<1>8. Separate'
  <2>1. \A u \in Known' : u.id <= counter + 1
    BY <1>3, <1>4, <1>5, <1>7
  <2>2. adds + 1 <= MaxAdds
    BY <1>2, <1>5, BoundsAssumption
  <2>3. (timers \cup {t}) \cap (due \cup fired) = {}
    BY <1>6 DEF RInv, Separate, Known
  <2>. QED  BY <1>2, <2>1, <2>2, <2>3 DEF Separate, RInv
<1>9. NeverEarlyNorRemoved'
  BY <1>2, <1>6 DEF RInv, NeverEarlyNorRemoved, Known
<1>. QED  BY <1>8, <1>9

(* A timer leaves the set for due or for removed, never for both.           *)
LEMMA OtherSeparate ==
    ASSUME RInv,
           \/ \E t \in timers : Remove(t)
           \/ Waits
           \/ Wakes
           \/ \E t \in due : Calls(t)
           \/ Tick
           \/ UNCHANGED vars
    PROVE  (Separate /\ NeverEarlyNorRemoved)'
<1>0. clock \in Nat /\ \A t \in Known : t.at \in Nat
  BY DEF RInv, IInv, TypeOK, TimerID, Known
<1>. USE DEF RInv, Separate, NeverEarlyNorRemoved, Known
<1>1. ASSUME NEW t \in timers, Remove(t)
      PROVE  (Separate /\ NeverEarlyNorRemoved)'
  BY <1>1 DEF Remove
<1>2. CASE Waits
  BY <1>2 DEF Waits
<1>3. CASE Wakes
  BY <1>0, <1>3 DEF Wakes, IsExpired
<1>4. ASSUME NEW t \in due, Calls(t)
      PROVE  (Separate /\ NeverEarlyNorRemoved)'
  BY <1>4 DEF Calls
<1>5. CASE Tick
  BY <1>0, <1>5 DEF Tick
<1>6. CASE UNCHANGED vars
  BY <1>6 DEF vars
<1>. QED  BY <1>1, <1>2, <1>3, <1>4, <1>5, <1>6

(* No timer is called before its time, nor once remove() has returned true  *)
(* for it, while fewer than IdSpan timers are added: beyond that two timers *)
(* may have the same TimerID.                                               *)
THEOREM NeitherEarlyNorRemoved ==
    ASSUME MaxAdds < IdSpan
    PROVE  Spec => []NeverEarlyNorRemoved
<1>1. Init => RInv
  BY InitInvariant, BoundsAssumption
  DEF RInv, Separate, NeverEarlyNorRemoved, Known, Init
<1>2. RInv /\ [Next]_vars => RInv'
  <2> SUFFICES ASSUME RInv, [Next]_vars PROVE RInv'
    OBVIOUS
  <2>1. IInv'
    BY StepInvariant DEF RInv
  <2>2. (Separate /\ NeverEarlyNorRemoved)'
    BY AddSeparate, OtherSeparate DEF Next
  <2>. QED  BY <2>1, <2>2 DEF RInv
<1>3. RInv => NeverEarlyNorRemoved
  BY DEF RInv
<1>. QED  BY <1>1, <1>2, <1>3, PTL DEF Spec
=============================================================================
