----------------------------- MODULE EventBase -----------------------------
(***************************************************************************)
(* What the abstract timers (EventTimers) and the event manager that       *)
(* implements them (EventManager) are parameterised by. Times of           *)
(* EventTimers are in 1/Frac of a CPU clock, those of EventManager in      *)
(* clocks and 1/Frac clocks apart.                                         *)
(***************************************************************************)
EXTENDS Integers

CONSTANTS
  Devices,  (* the devices that own events                                 *)
  Frac,     (* loop_clock and accum_clocks count 1/1024 clock in the code  *)
  Delays,   (* delays a device may ask for                                 *)
  Periods,  (* loop_clock of a loop event, in 1/Frac clock                 *)
  Steps,    (* clocks the drive loop lets pass in one update_event         *)
  MaxClock, (* bound of the exploration: no update runs past it            *)
  NULL

ASSUME TimersAssumption ==
  /\ Frac \in Nat \ {0}
  /\ Delays \subseteq Nat
  /\ Periods \subseteq Nat \ {0}
  /\ Steps \subseteq Nat
  /\ MaxClock \in Nat
  /\ NULL \notin Devices \cup Int
=============================================================================
