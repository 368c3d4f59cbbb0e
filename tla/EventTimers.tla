---------------------------- MODULE EventTimers ----------------------------
(***************************************************************************)
(* What EmuSCV's event manager (vm/event.cpp) promises the devices, with   *)
(* none of its lists: a set of timers, each due at an exact time counted   *)
(* in 1/Frac of a CPU clock, fired in the order of the clock they fall in. *)
(* EventManager is the detailed component and implements this one.         *)
(***************************************************************************)
EXTENDS EventBase

CONSTANT Slots (* the event handles, event[0 .. MAX_EVENT-1] *)

VARIABLES
  due,      (* when a slot's timer is due, in 1/Frac clock, NULL when idle *)
  period,   (* 0: fires once; otherwise its period in 1/Frac clock         *)
  owner,    (* the device called when it is due                            *)
  now,      (* event_clocks: the clock devices read                        *)
  goal,     (* the clock an update is running to, NULL between updates     *)
  calling   (* the device whose callback is running, NULL when none is     *)

tvars == <<due, period, owner, now, goal, calling>>

ClockOf(time) == time \div Frac

Pending(s) == due[s] # NULL

(* Device code runs between updates and inside callbacks only. *)
DeviceRuns == goal = NULL \/ calling # NULL

TInit ==
  /\ due = [s \in Slots |-> NULL]
  /\ period = [s \in Slots |-> 0]
  /\ owner = [s \in Slots |-> NULL]
  /\ now = 0
  /\ goal = NULL
  /\ calling = NULL

Arm(s, d, delay, loop) ==
  /\ DeviceRuns
  /\ ~Pending(s)
  /\ due' = [due EXCEPT ![s] = now * Frac + delay]
  /\ period' = [period EXCEPT ![s] = loop]
  /\ owner' = [owner EXCEPT ![s] = d]
  /\ UNCHANGED <<now, goal, calling>>

Disarm(s) ==
  /\ DeviceRuns
  /\ Pending(s)
  /\ due' = [due EXCEPT ![s] = NULL]
  /\ period' = [period EXCEPT ![s] = 0]
  /\ owner' = [owner EXCEPT ![s] = NULL]
  /\ UNCHANGED <<now, goal, calling>>

(* A reset drops every timer that would fire once and keeps the loops. *)
DisarmAll ==
  /\ goal = NULL
  /\ due' = [s \in Slots |-> IF period[s] = 0 THEN NULL ELSE due[s]]
  /\ owner' = [s \in Slots |-> IF period[s] = 0 THEN NULL ELSE owner[s]]
  /\ UNCHANGED <<period, now, goal, calling>>

Start(clock) ==
  /\ goal = NULL
  /\ goal' = now + clock
  /\ UNCHANGED <<due, period, owner, now, calling>>

(* The earliest timer due by the goal fires, at the clock it is due in. *)
Expire(s) ==
  /\ goal # NULL
  /\ calling = NULL
  /\ Pending(s)
  /\ ClockOf(due[s]) <= goal
  /\ \A r \in Slots : Pending(r) => ClockOf(due[s]) <= ClockOf(due[r])
  /\ now' = ClockOf(due[s])
  /\ due' = [due EXCEPT ![s] = IF period[s] = 0 THEN NULL ELSE @ + period[s]]
  /\ calling' = owner[s]
  /\ owner' = [owner EXCEPT ![s] = IF period[s] = 0 THEN NULL ELSE @]
  /\ UNCHANGED <<period, goal>>

Return ==
  /\ calling # NULL
  /\ calling' = NULL
  /\ UNCHANGED <<due, period, owner, now, goal>>

Finish ==
  /\ goal # NULL
  /\ calling = NULL
  /\ \A s \in Slots : Pending(s) => ClockOf(due[s]) > goal
  /\ now' = goal
  /\ goal' = NULL
  /\ UNCHANGED <<due, period, owner, calling>>

TNext ==
  \/ \E s \in Slots, d \in Devices :
       \/ \E t \in Delays : Arm(s, d, t, 0)
       \/ \E p \in Periods : Arm(s, d, p, p)
  \/ \E s \in Slots : Disarm(s) \/ Expire(s)
  \/ DisarmAll
  \/ \E c \in Steps : now + c <= MaxClock /\ Start(c)
  \/ Return
  \/ Finish

TSpec == TInit /\ [][TNext]_tvars

----------------------------------------------------------------------------
Moment == Nat \cup {NULL}

(* Type invariant of the timers. *)
TTypeOK ==
  /\ due \in [Slots -> Moment]
  /\ period \in [Slots -> Nat]
  /\ owner \in [Slots -> Devices \cup {NULL}]
  /\ now \in Nat
  /\ goal \in Moment
  /\ calling \in Devices \cup {NULL}

(* No timer is ever left behind by the clock: whatever the devices arm and *)
(* cancel from their callbacks, the clock never passes a pending timer and *)
(* never overshoots the update it belongs to.                              *)
NeverOverdue ==
  /\ \A s \in Slots : Pending(s) => now <= ClockOf(due[s])
  /\ goal # NULL => now <= goal
=============================================================================
