----------------------------- MODULE RetroFrame -----------------------------
(***************************************************************************)
(* A frame of the libretro front end (RetroRun, emuscv.cpp) with the calls *)
(* the host makes between frames: SoundMix and StateSession composed. The  *)
(* restore is the step they share: the buffer's state goes to the machine, *)
(* and the sound is cleared with it. RetroRun restores first, then reads   *)
(* settings and inputs, then drives the machine if it is on, then plays.   *)
(***************************************************************************)
EXTENDS SoundMix, StateSession

VARIABLE
  stage  (* "host": between frames; "start": RetroRun is called;           *)
         (* "inputs": settings and buttons; "machine": the frame is driven *)

vars == <<mixVars, sessionVars, stage>>

Init == MixInit /\ SessionInit /\ stage = "host"

(* The host saves, restores, or changes or resets the game. *)
HostCalls ==
  /\ stage = "host"
  /\ \/ HostCall /\ UNCHANGED mixVars
     \/ MachineReset /\ UNCHANGED sessionVars
  /\ UNCHANGED stage

CallRetroRun ==
  /\ stage = "host"
  /\ stage' = IF readyToLoad THEN "start" ELSE "inputs"
  /\ UNCHANGED <<mixVars, sessionVars>>

(* The state that waits is restored: all of it if it is whole, and the     *)
(* devices up to a mismatch if not, the event manager before the ports.    *)
Restore(s, reached, through) ==
  /\ stage = "start"
  /\ through => reached
  /\ content.whole => through
  /\ RestoreSound(s, reached)
  /\ ApplyState(through)
  /\ stage' = "inputs"

(* Settings that have changed, and the reset and power buttons. *)
HandleInputs ==
  /\ stage = "inputs"
  /\ \/ \E s \in Rates : ChangeSettings(s)
     \/ MachineReset
  /\ UNCHANGED <<sessionVars, stage>>

(* The machine is on and is driven. *)
RunMachine(t) ==
  /\ stage = "inputs"
  /\ BeginFrame(t)
  /\ stage' = "machine"
  /\ UNCHANGED sessionVars

(* The machine is off: the front end plays noise of its own. *)
PlayNoise ==
  /\ stage = "inputs"
  /\ stage' = "host"
  /\ UNCHANGED <<mixVars, sessionVars>>

TickMachine ==
  /\ stage = "machine"
  /\ Tick
  /\ UNCHANGED <<sessionVars, stage>>

PlayFrame ==
  /\ stage = "machine"
  /\ Play
  /\ stage' = "host"
  /\ UNCHANGED sessionVars

Next ==
  \/ HostCalls
  \/ CallRetroRun
  \/ \E s \in Rates, reached, through \in BOOLEAN : Restore(s, reached, through)
  \/ HandleInputs
  \/ \E t \in Ticks[soundSamples] : RunMachine(t)
  \/ PlayNoise
  \/ TickMachine
  \/ PlayFrame

Spec == Init /\ [][Next]_vars
-----------------------------------------------------------------------------
(* The type invariant of both, with the stage: a frame is driven in its    *)
(* stage only, so no host call comes between its ticks.                    *)
FrameTypeOK ==
  /\ MixTypeOK
  /\ SessionTypeOK
  /\ stage \in {"host", "start", "inputs", "machine"}
  /\ driving <=> stage = "machine"
=============================================================================
