------------------------- MODULE EventTimersProofs -------------------------
(***************************************************************************)
(* For every set of timers, devices, delays and periods: the clock never   *)
(* passes a pending timer.                                                 *)
(***************************************************************************)
EXTENDS EventTimers, TLAPS

(* The time t falls in clock q or later iff q clocks have passed by t. *)
LEMMA ClockOfBound ==
  ASSUME NEW t \in Nat, NEW q \in Int
  PROVE  q <= ClockOf(t) <=> q * Frac <= t
BY TimersAssumption DEF ClockOf

(* A time falls in a clock of the machine. *)
LEMMA ClockOfType ==
  ASSUME NEW t \in Nat
  PROVE  ClockOf(t) \in Nat
BY TimersAssumption DEF ClockOf

(* A later time falls in the same clock or a later one. *)
LEMMA ClockOfMonotonic ==
  ASSUME NEW t \in Nat, NEW u \in Nat, t <= u
  PROVE  ClockOf(t) <= ClockOf(u)
<1>1. ClockOf(t) \in Nat /\ ClockOf(t) * Frac \in Nat
  BY ClockOfType, TimersAssumption
<1>2. ClockOf(t) * Frac <= t
  BY <1>1, ClockOfBound
<1> QED
  BY <1>1, <1>2, ClockOfBound

(* What is armed n clocks from zero plus a delay is not due before them. *)
LEMMA ArmedAhead ==
  ASSUME NEW n \in Nat, NEW delay \in Nat
  PROVE  /\ n * Frac + delay \in Nat
         /\ n <= ClockOf(n * Frac + delay)
<1>1. n * Frac \in Nat
  BY TimersAssumption
<1> QED
  BY <1>1, ClockOfBound

(* The inductive invariant. *)
TimersInv == TTypeOK /\ NeverOverdue

(* At power-on nothing is pending. *)
LEMMA TimersInit == TInit => TimersInv
BY DEF TInit, TimersInv, TTypeOK, NeverOverdue, Pending, Moment

(* Arming, disarming, expiring and the turns of an update keep every      *)
(* pending timer at or ahead of the clock.                                *)
LEMMA TimersNext == TimersInv /\ [TNext]_tvars => TimersInv'
<1> SUFFICES ASSUME TimersInv, [TNext]_tvars
             PROVE  TimersInv'
  OBVIOUS
<1> USE DEF TimersInv
<1>1. NULL \notin Nat
  BY TimersAssumption
<1>2. ASSUME NEW s \in Slots, NEW d \in Devices, NEW t \in Nat, NEW p \in Nat,
             Arm(s, d, t, p)
      PROVE  TimersInv'
  <2>1. now * Frac + t \in Nat /\ now <= ClockOf(now * Frac + t)
    BY ArmedAhead DEF TTypeOK
  <2>2. TTypeOK'
    BY <1>2, <2>1 DEF Arm, TTypeOK, Moment
  <2> QED
    BY <1>2, <2>1, <2>2 DEF Arm, TTypeOK, NeverOverdue, Pending
<1>3. ASSUME NEW s \in Slots, Disarm(s)
      PROVE  TimersInv'
  BY <1>3 DEF Disarm, TTypeOK, NeverOverdue, Pending, Moment
<1>4. CASE DisarmAll
  BY <1>4 DEF DisarmAll, TTypeOK, NeverOverdue, Pending, Moment
<1>5. ASSUME NEW c \in Steps, Start(c)
      PROVE  TimersInv'
  BY <1>5, TimersAssumption DEF Start, TTypeOK, NeverOverdue, Pending, Moment
<1>6. ASSUME NEW s \in Slots, Expire(s)
      PROVE  TimersInv'
  <2>1. /\ due[s] \in Nat /\ period[s] \in Nat
        /\ now' = ClockOf(due[s]) /\ goal \in Nat
    BY <1>6, <1>1 DEF Expire, TTypeOK, Pending, Moment
  <2>2. now' \in Nat
    BY <2>1, ClockOfType
  <2>3. due[s] + period[s] \in Nat
    BY <2>1
  <2>4. ClockOf(due[s]) <= ClockOf(due[s] + period[s])
    BY <2>1, <2>3, ClockOfMonotonic
  <2>5. TTypeOK'
    BY <1>6, <2>2, <2>3 DEF Expire, TTypeOK, Moment
  <2>6. ASSUME NEW r \in Slots, Pending(r)'
        PROVE  now' <= ClockOf(due'[r])
    <3>1. CASE r = s
      BY <1>6, <2>1, <2>4, <2>6, <3>1 DEF Expire, TTypeOK, Pending
    <3>2. CASE r # s
      BY <1>6, <2>1, <2>6, <3>2 DEF Expire, TTypeOK, Pending
    <3> QED
      BY <3>1, <3>2
  <2>7. goal' # NULL => now' <= goal'
    BY <1>6, <2>1 DEF Expire
  <2> QED
    BY <2>5, <2>6, <2>7 DEF NeverOverdue, Pending
<1>7. CASE Return
  BY <1>7 DEF Return, TTypeOK, NeverOverdue, Pending, Moment
<1>8. CASE Finish
  <2>1. goal \in Nat
    BY <1>8 DEF Finish, TTypeOK, Moment
  <2>2. ASSUME NEW s \in Slots, Pending(s)
        PROVE  goal <= ClockOf(due[s])
    <3>1. ClockOf(due[s]) > goal /\ due[s] \in Nat
      BY <1>8, <2>2 DEF Finish, TTypeOK, Moment, Pending
    <3> QED
      BY <2>1, <3>1, ClockOfType
  <2> QED
    BY <1>8, <2>1, <2>2 DEF Finish, TTypeOK, NeverOverdue, Pending, Moment
<1>9. CASE UNCHANGED tvars
  BY <1>9 DEF tvars, TTypeOK, NeverOverdue, Pending, Moment
<1>10. ASSUME NEW s \in Slots, NEW d \in Devices, NEW t \in Delays,
              Arm(s, d, t, 0)
       PROVE  TimersInv'
  BY <1>2, <1>10, TimersAssumption
<1>11. ASSUME NEW s \in Slots, NEW d \in Devices, NEW p \in Periods,
              Arm(s, d, p, p)
       PROVE  TimersInv'
  BY <1>2, <1>11, TimersAssumption
<1> QED
  BY <1>3, <1>4, <1>5, <1>6, <1>7, <1>8, <1>9, <1>10, <1>11 DEF TNext

(* The timers keep their types. *)
THEOREM TimersTypeCorrect == TSpec => []TTypeOK
BY TimersInit, TimersNext, PTL DEF TSpec, TimersInv

(* The clock never passes a pending timer nor the goal of its update,      *)
(* whatever delays and periods the devices ask for.                        *)
THEOREM TimersNeverOverdue == TSpec => []NeverOverdue
BY TimersInit, TimersNext, PTL DEF TSpec, TimersInv
=============================================================================
