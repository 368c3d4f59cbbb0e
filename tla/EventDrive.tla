----------------------------- MODULE EventDrive -----------------------------
(***************************************************************************)
(* EVENT::drive (vm/event.cpp): the clocks of a frame are dealt to its     *)
(* lines; on each line the CPU and the event clock are advanced in turns,  *)
(* one opcode at a time. An opcode may run past the end of its line, or of *)
(* several: what it overran is owed by the next ones. Between frames the   *)
(* machine may be reset, saved, restored, or given another frame rate.     *)
(* One CPU is driven (dcount_cpu = 1, vm/scv/scv.cpp:46), and it never     *)
(* calls update_extra_event, so event_extra stays 0 and is left out.       *)
(***************************************************************************)
EXTENDS Integers, FiniteSets, Functions

CONSTANTS
  Lines,     (* LINES_PER_FRAME: 262 in the code                           *)
  Rates,     (* frame rates the settings offer: 60 and 50 in the code      *)
  Clocks,    (* CPU clocks of a frame at each rate: cpu_clocks / rate      *)
  OpClocks,  (* clocks one run(-1) of the CPU may take                     *)
  Scale,     (* 2^power: CPU clocks per event clock, power in 0 .. 4       *)
  MaxClock,  (* bound of the exploration: no frame begins past it          *)
  NULL

ASSUME DriveAssumption ==
  /\ Lines \in Nat \ {0}
  /\ Clocks \in [Rates -> Nat]
  /\ OpClocks \subseteq Nat \ {0}
  /\ Scale \in {1, 2, 4, 8, 16}
  /\ MaxClock \in Nat
  /\ NULL \notin Rates

VARIABLES
  phase,         (* "frames": between two drives; "line": a line is next;  *)
                 (* "run": in the loop of a line                           *)
  fps,           (* config.window_fps                                      *)
  framesPerSec,  (* the rate vclocks was computed for, NULL at first       *)
  vclocks,       (* clocks of each line                                    *)
  curVline,
  eventRemain,   (* event clocks left on the line; negative: overrun       *)
  cpuRemain,     (* CPU clocks left                                        *)
  cpuAccum,      (* CPU clocks run that are not a whole event clock yet    *)
  eventClocks,   (* the clock of the event manager                         *)
  begun,         (* history: the clocks of all the lines begun             *)
  saved          (* what a save state kept, NULL when there is none        *)

vars == <<phase, fps, framesPerSec, vclocks, curVline, eventRemain, cpuRemain,
          cpuAccum, eventClocks, begun, saved>>

Line == 0 .. Lines - 1

(* Mutant: what an opcode overran is not held back from the events. *)
NotBounded(a, b) == a

Smaller(a, b) == IF a <= b THEN a ELSE b

(* Every line gets sum / lines clocks; the clocks that are left are spread *)
(* over the frame, the i-th on line lines * i / remain.                    *)
LineClocks(sum) ==
  LET remain == sum % Lines
      given(l) == {i \in 0 .. remain - 1 : (Lines * i) \div remain = l}
  IN  [l \in Line |-> sum \div Lines + Cardinality(given(l))]

Init ==
  /\ phase = "frames"
  /\ fps \in Rates
  /\ framesPerSec = NULL
  /\ vclocks = [l \in Line |-> 0]
  /\ curVline = 0
  /\ eventRemain = 0
  /\ cpuRemain = 0
  /\ cpuAccum = 0
  /\ eventClocks = 0
  /\ begun = 0
  /\ saved = NULL

(* Mutant: the line clocks are computed once, and a new rate is missed. *)
BeginFrameStale ==
  /\ phase = "frames"
  /\ eventClocks <= MaxClock
  /\ phase' = "line"
  /\ curVline' = 0
  /\ framesPerSec' = fps
  /\ vclocks' = IF framesPerSec = NULL THEN LineClocks(Clocks[fps]) ELSE vclocks
  /\ UNCHANGED <<fps, eventRemain, cpuRemain, cpuAccum, eventClocks, begun,
                 saved>>

(* The line clocks are recomputed only when the rate has changed. *)
BeginFrame ==
  /\ phase = "frames"
  /\ eventClocks <= MaxClock
  /\ phase' = "line"
  /\ curVline' = 0
  /\ framesPerSec' = fps
  /\ vclocks' = IF framesPerSec # fps THEN LineClocks(Clocks[fps]) ELSE vclocks
  /\ UNCHANGED <<fps, eventRemain, cpuRemain, cpuAccum, eventClocks, begun,
                 saved>>

(* Events owed by an overrun are brought up to date first. *)
BeginLine ==
  /\ phase = "line"
  /\ curVline < Lines
  /\ LET v == vclocks[curVline]
     IN  /\ eventClocks' = IF eventRemain < 0
                           THEN eventClocks + Smaller(-eventRemain, v)
                           ELSE eventClocks
         /\ eventRemain' = eventRemain + v
         /\ cpuRemain' = cpuRemain + v * Scale
         /\ begun' = begun + v
  /\ phase' = "run"
  /\ UNCHANGED <<fps, framesPerSec, vclocks, curVline, cpuAccum, saved>>

(* Mutant: the CPU clocks turned into event clocks are not taken off. *)
TurnKeepsAccum(t) ==
  /\ phase = "run"
  /\ eventRemain > 0
  /\ LET ran == cpuRemain > 0
         total == cpuAccum + t
         done == IF ran THEN total \div Scale ELSE eventRemain
     IN  /\ cpuRemain' = IF ran THEN cpuRemain - t ELSE cpuRemain
         /\ cpuAccum' = IF ran THEN total ELSE cpuAccum
         /\ eventClocks' = eventClocks + Smaller(done, eventRemain)
         /\ eventRemain' = eventRemain - done
  /\ UNCHANGED <<phase, fps, framesPerSec, vclocks, curVline, begun, saved>>

(* One turn of the loop: the CPU runs an opcode, and the events follow by  *)
(* the whole event clocks it took. Without a CPU clock left, the events    *)
(* finish the line alone.                                                  *)
Turn(t) ==
  /\ phase = "run"
  /\ eventRemain > 0
  /\ LET ran == cpuRemain > 0
         total == cpuAccum + t
         done == IF ran THEN total \div Scale ELSE eventRemain
     IN  /\ cpuRemain' = IF ran THEN cpuRemain - t ELSE cpuRemain
         /\ cpuAccum' = IF ran THEN total - done * Scale ELSE cpuAccum
         /\ eventClocks' = eventClocks + Smaller(done, eventRemain)
         /\ eventRemain' = eventRemain - done
  /\ UNCHANGED <<phase, fps, framesPerSec, vclocks, curVline, begun, saved>>

(* Mutant: a line that ends on its last clock is not ended. *)
EndLineStrict ==
  /\ phase = "run"
  /\ eventRemain < 0
  /\ phase' = "line"
  /\ curVline' = curVline + 1
  /\ UNCHANGED <<fps, framesPerSec, vclocks, eventRemain, cpuRemain, cpuAccum,
                 eventClocks, begun, saved>>

EndLine ==
  /\ phase = "run"
  /\ eventRemain <= 0
  /\ phase' = "line"
  /\ curVline' = curVline + 1
  /\ UNCHANGED <<fps, framesPerSec, vclocks, eventRemain, cpuRemain, cpuAccum,
                 eventClocks, begun, saved>>

EndFrame ==
  /\ phase = "line"
  /\ curVline = Lines
  /\ phase' = "frames"
  /\ UNCHANGED <<fps, framesPerSec, vclocks, curVline, eventRemain, cpuRemain,
                 cpuAccum, eventClocks, begun, saved>>

(* Mutant: a reset forgets what the CPU still owes and not the events. *)
ForgetCpuOverrun ==
  /\ cpuRemain' = 0
  /\ cpuAccum' = 0
  /\ UNCHANGED eventRemain

(* EVENT::reset forgets what the last opcode overran. *)
ForgetOverrun ==
  /\ eventRemain' = 0
  /\ cpuRemain' = 0
  /\ cpuAccum' = 0

(* VM::reset resets every device, the event manager first. *)
Reset ==
  /\ phase = "frames"
  /\ ForgetOverrun
  /\ UNCHANGED <<phase, fps, framesPerSec, vclocks, curVline, eventClocks,
                 begun, saved>>

(* Settings that are read, or saved, reset the sound: EVENT::reset. *)
ChangeSettings(rate) ==
  /\ phase = "frames"
  /\ fps' = rate
  /\ ForgetOverrun
  /\ UNCHANGED <<phase, framesPerSec, vclocks, curVline, eventClocks, begun,
                 saved>>

(* What a restore forgets at once, below, is left out of the state. *)
SaveState ==
  /\ phase = "frames"
  /\ saved' = [framesPerSec |-> framesPerSec, vclocks |-> vclocks,
               eventClocks |-> eventClocks, begun |-> begun]
  /\ UNCHANGED <<phase, fps, framesPerSec, vclocks, curVline, eventRemain,
                 cpuRemain, cpuAccum, eventClocks, begun>>

(* RetroRun reads the settings again after it has restored a state. The    *)
(* configured rate is not in the state: the next frame compares.           *)
LoadState(rate) ==
  /\ phase = "frames"
  /\ saved # NULL
  /\ framesPerSec' = saved.framesPerSec
  /\ vclocks' = saved.vclocks
  /\ eventClocks' = saved.eventClocks
  /\ begun' = saved.begun
  /\ fps' = rate
  /\ ForgetOverrun
  /\ UNCHANGED <<phase, curVline, saved>>

Drive ==
  \/ BeginFrame
  \/ BeginLine
  \/ \E t \in OpClocks : Turn(t)
  \/ EndLine
  \/ EndFrame

Next ==
  \/ Drive
  \/ Reset
  \/ \E r \in Rates : ChangeSettings(r)
  \/ SaveState
  \/ \E r \in Rates : LoadState(r)

Spec == Init /\ [][Next]_vars

(* A drive, once begun, is a loop of one thread. *)
FairSpec == Spec /\ WF_vars(phase # "frames" /\ Drive)

----------------------------------------------------------------------------
Snapshot ==
  [framesPerSec : Rates \cup {NULL}, vclocks : [Line -> Nat],
   eventClocks : Nat, begun : Nat]

(* Type invariant of the drive loop. *)
TypeOK ==
  /\ phase \in {"frames", "line", "run"}
  /\ fps \in Rates
  /\ framesPerSec \in Rates \cup {NULL}
  /\ vclocks \in [Line -> Nat]
  /\ curVline \in 0 .. Lines
  /\ eventRemain \in Int
  /\ cpuRemain \in Int
  /\ cpuAccum \in 0 .. Scale - 1
  /\ eventClocks \in Nat
  /\ begun \in Nat
  /\ saved \in Snapshot \cup {NULL}

AtLeastZero(n) == IF n > 0 THEN n ELSE 0

(* No clock is lost and none is given to the events twice: the event clock *)
(* stands at the end of the lines begun less what is left of the last one, *)
(* however far opcodes overrun their lines, and across reset and restore.  *)
NoClockLost == eventClocks = begun - AtLeastZero(eventRemain)

(* CPU and events share the line exactly: while event clocks are left the  *)
(* CPU has clocks left to run an opcode in, so the events never run ahead  *)
(* of a CPU that has nothing to run.                                       *)
CpuSharesLine ==
  /\ eventRemain * Scale = cpuRemain + cpuAccum
  /\ eventRemain > 0 => cpuRemain > 0

(* A frame is driven with the line clocks of the rate now configured, and  *)
(* they add up to the clocks of a frame at that rate: a rate changed in    *)
(* the settings or a state saved under the other one leaves no stale       *)
(* line clocks behind.                                                     *)
FrameHasItsClocks ==
  phase # "frames" => SumFunction(vclocks) = Clocks[fps]

(* A frame ends, whatever the opcodes take. *)
FrameEnds == phase # "frames" ~> phase = "frames"
=============================================================================
