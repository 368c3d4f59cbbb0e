---------------------------- MODULE CpuInterrupt ----------------------------
(***************************************************************************)
(* Interrupts, halts, skips and the timers of the CPU (vm/upd7801.cpp). An *)
(* opcode is known by what it does to these. The program is any whose      *)
(* handlers end with RETI, with or without EI before it; where they do not *)
(* nest, that is their only EI. The bus is held where the program allows   *)
(* it, in MC: the pin that asks for it is always high (IO::read_io8). The  *)
(* wait signal and the external serial clock, which nothing drives, and    *)
(* the pins the CPU drives itself (SAK, TO, HLDA) are left out.            *)
(***************************************************************************)
EXTENDS Integers, Sequences, SequencesExt

CONSTANTS
  OpClocks,    (* lengths of an opcode: up to 20 in the code               *)
  Masks,       (* values of MK a program uses: [masked, es], es its bit 5  *)
  Timers,      (* values of TM1:TM0 a program uses                         *)
  MaxTimer,    (* TM1:TM0 after a reset: 4095 in the code                  *)
  Prescaler,   (* PRESCALER: 16 in the code                                *)
  BitClocks,   (* clocks of a serial bit: 4 in the code                    *)
  Bits,        (* bits of a serial transfer: 8 in the code                 *)
  Stacked,     (* registers whose repeated loads are ignored: {"L0", "L1"} *)
  MaxDepth     (* bound: handlers in progress at a time                    *)

(* irq_bits, by priority. *)
IrqBits == <<"INTF0", "INTFT", "INTF1", "INTF2", "INTFS">>
Irqs == {"INTF0", "INTFT", "INTF1", "INTF2", "INTFS"}

(* MK after a reset. *)
ResetMask == [masked |-> Irqs, es |-> FALSE]

(* The clocks of a timer, as STM and the expiry of the timer set it. *)
TimerLength(tm) == (tm + 1) * Prescaler

(* A timer shorter than an opcode could end at 0, which stops it.          *)
ASSUME CpuAssumption ==
  /\ Masks \subseteq [masked : SUBSET Irqs, es : BOOLEAN]
  /\ OpClocks \subseteq Nat \ {0}
  /\ {Prescaler, BitClocks, Bits, MaxDepth} \subseteq Nat \ {0}
  /\ MaxTimer \in Nat
  /\ MaxTimer \in Timers
  /\ Timers \subseteq 0 .. MaxTimer
  /\ \A p \in OpClocks, t \in Timers : p <= TimerLength(t)
  /\ Stacked \subseteq {"L0", "L1"}

VARIABLES
  cpu,     (* the registers, below                                         *)
  held,    (* bit 6 of MC is clear: the bus is held, and no opcode runs    *)
  vblank,  (* the last line event the VDP passed on was that of line 239   *)
  nests    (* handlers of this program may enable interrupts before their  *)
           (* last opcode                                                  *)

vars == <<cpu, held, vblank, nests>>

(* The flags SK and L0 or L1: an opcode is skipped; a load is repeated. *)
Clear == [sk |-> FALSE, l |-> "none"]

(* UPD7801::reset. History: asked is what the last opcode of the program   *)
(* or handler running asks of the next one; progressed, that an opcode was *)
(* executed since the handler of an interrupt returned; starved, that an   *)
(* interrupt found none was; leaving, that EI began the end of a handler.  *)
AtReset ==
  [irr |-> {}, mk |-> ResetMask, iff |-> 0,
   sirq |-> FALSE, halt |-> FALSE, pc |-> "next", psw |-> Clear,
   frames |-> <<>>,
   tcount |-> 0, tm |-> MaxTimer,
   scount |-> 0, sioCount |-> 0, sioOn |-> FALSE,
   asked |-> Clear, progressed |-> TRUE, starved |-> FALSE,
   leaving |-> FALSE]

Init ==
  /\ cpu = AtReset
  /\ held = FALSE
  /\ vblank = FALSE
  /\ nests \in BOOLEAN

(***************************************************************************)
(* run_one_opecode, after the opcode itself or a clock of a held bus.      *)
(***************************************************************************)

(* Mutant: the last bit ends the transfer one late. *)
ShiftPastLast(c, n) ==
  IF c.sioOn /\ c.sioCount + n > Bits
  THEN [c EXCEPT !.irr = @ \cup {"INTFS"}, !.scount = 0, !.sioCount = 0]
  ELSE [c EXCEPT !.scount = @ + n * BitClocks,
                 !.sioCount = IF c.sioOn THEN @ + n ELSE @]

(* n bits are shifted; with the last one the transfer ends. *)
Shift(c, n) ==
  IF c.sioOn /\ c.sioCount + n >= Bits
  THEN [c EXCEPT !.irr = @ \cup {"INTFS"}, !.scount = 0, !.sioCount = 0]
  ELSE [c EXCEPT !.scount = @ + n * BitClocks,
                 !.sioCount = IF c.sioOn THEN @ + n ELSE @]

UpdateSerial(c, period) ==
  IF c.scount = 0 THEN c
  ELSE LET left == c.scount - period
           ticked == [c EXCEPT !.scount = left]
       IN IF left > 0 THEN ticked
          ELSE Shift(ticked, (0 - left) \div BitClocks + 1)

(* Mutant: a timer that reaches 0 exactly is not started again. *)
UpdateTimerPastZero(c, period) ==
  IF c.tcount = 0 THEN c
  ELSE IF c.tcount >= period THEN [c EXCEPT !.tcount = @ - period]
  ELSE [c EXCEPT !.tcount = @ - period + TimerLength(c.tm),
                 !.irr = @ \cup {"INTFT"}]

UpdateTimer(c, period) ==
  IF c.tcount = 0 THEN c
  ELSE IF c.tcount > period THEN [c EXCEPT !.tcount = @ - period]
  ELSE [c EXCEPT !.tcount = @ - period + TimerLength(c.tm),
                 !.irr = @ \cup {"INTFT"}]

(* Mutant: the handler begins with the flags of the program. *)
EnterWithFlags(c) ==
  [c EXCEPT !.frames = Append(@, [psw |-> c.psw, pc |-> "next", by |-> "irq",
                                  asked |-> c.asked]),
            !.halt = FALSE, !.pc = "next",
            !.asked = Clear, !.iff = 0,
            !.starved = @ \/ ~c.progressed, !.progressed = TRUE,
            !.leaving = FALSE]

(* Mutant: the program returns to the HLT that was woken. *)
EnterAtHlt(c) ==
  [c EXCEPT !.frames = Append(@, [psw |-> c.psw, pc |-> c.pc, by |-> "irq",
                                  asked |-> c.asked]),
            !.halt = FALSE, !.pc = "next",
            !.psw = Clear, !.asked = Clear, !.iff = 0,
            !.starved = @ \/ ~c.progressed, !.progressed = TRUE,
            !.leaving = FALSE]

(* A halt ends, PC past its HLT; PSW and PC are pushed; the handler begins *)
(* with clear flags and interrupts disabled.                               *)
Enter(c) ==
  [c EXCEPT !.frames = Append(@, [psw |-> c.psw,
                                  pc |-> IF c.halt THEN "next" ELSE c.pc,
                                  by |-> "irq", asked |-> c.asked]),
            !.halt = FALSE, !.pc = "next",
            !.psw = Clear, !.asked = Clear, !.iff = 0,
            !.starved = @ \/ ~c.progressed, !.progressed = TRUE,
            !.leaving = FALSE]

(* The first request that is pending and not masked is accepted. *)
CheckInterrupt(c) ==
  LET wanted == {i \in 1 .. Len(IrqBits) :
                   IrqBits[i] \in c.irr \ c.mk.masked}
  IN IF c.iff # 1 \/ c.sirq \/ wanted = {} THEN c
     ELSE LET first == CHOOSE i \in wanted : \A j \in wanted : i <= j
          IN [Enter(c) EXCEPT !.irr = @ \ {IrqBits[first]}]

(* The period passes from the registers c on. *)
Passes(c, period) ==
  /\ cpu' = CheckInterrupt(UpdateTimer(UpdateSerial(c, period), period))
  /\ UNCHANGED <<vblank, nests>>

(***************************************************************************)
(* Opcodes.                                                                *)
(***************************************************************************)

(* Mutant: interrupts are never enabled after an EI. *)
StillDelayed(iff) == iff

(* IFF is 3 after EI, 2 during the next opcode and 1, enabled, from the    *)
(* one after that.                                                         *)
Delayed(iff) == IF iff >= 2 THEN iff - 1 ELSE iff

(* The opcode leaves the registers as in c, takes some clocks, and the     *)
(* rest of run_one_opecode follows.                                        *)
Executes(c) == \E period \in OpClocks : Passes(c, period)

(* An opcode that is not skipped, at the end of no handler. *)
Fetches == ~cpu.psw.sk /\ cpu.pc = "next" /\ ~cpu.leaving

(* After an opcode that asks nothing of the next: L0 and L1 are cleared.   *)
Done ==
  [cpu EXCEPT !.iff = Delayed(@), !.psw.l = "none", !.asked = Clear,
              !.progressed = TRUE]

(* Opcodes that neither skip nor touch what is modelled. *)
Plain == Fetches /\ Executes(Done)

(* Opcodes whose condition to skip holds, and RETS. *)
SetSkip ==
  /\ Fetches
  /\ Executes([Done EXCEPT !.psw.sk = TRUE, !.asked.sk = TRUE])

(* SKIT and SKNIT: the request is tested, and dropped. *)
SkipOnRequest(f, pending) ==
  /\ Fetches
  /\ LET skips == (f \in cpu.irr) = pending
     IN Executes([Done EXCEPT !.psw.sk = @ \/ skips, !.asked.sk = skips,
                              !.irr = @ \ {f}])

(* LXI H, MVI L (L0) and MVI A (L1): a repeated one changes only its flag. *)
StackedLoad(l) ==
  /\ Fetches
  /\ Executes([Done EXCEPT !.psw.l = l, !.asked.l = l])

(* The opcode is skipped. A skipped load keeps its own flag. *)
Skip(l) ==
  /\ cpu.psw.sk
  /\ Executes([cpu EXCEPT !.iff = Delayed(@), !.pc = "next",
                          !.psw = [sk |-> FALSE,
                                   l |-> IF @.l = l THEN l ELSE "none"],
                          !.asked = Clear, !.progressed = TRUE])

(* Mutant: interrupts are enabled with the next opcode. *)
EnableNext == 2

(* Mutant: interrupts are enabled at once. *)
EnableNow == 1

EnableCount == 3

(* A handler that does not nest enables interrupts as it ends. *)
Ei ==
  /\ Fetches
  /\ cpu.frames # <<>> => Len(cpu.frames) < IF nests THEN MaxDepth ELSE 2
  /\ Executes([Done EXCEPT !.iff = EnableCount,
                           !.leaving = cpu.frames # <<>> /\ ~nests])

Di == Fetches /\ Executes([Done EXCEPT !.iff = 0])

(* HLT is fetched again until an interrupt is accepted. *)
Hlt ==
  /\ ~cpu.psw.sk /\ ~cpu.leaving
  /\ Executes([Done EXCEPT !.halt = TRUE, !.pc = "hlt"])

(* SOFTI is not skipped: SK is pushed with PSW. *)
Softi ==
  /\ cpu.pc = "next" /\ ~cpu.leaving
  /\ Len(cpu.frames) < MaxDepth
  /\ Executes([Done EXCEPT
       !.frames = Append(@, [psw |-> cpu.psw, pc |-> "next", by |-> "softi",
                             asked |-> cpu.asked]),
       !.psw = Clear, !.sirq = TRUE])

Reti ==
  /\ ~cpu.psw.sk /\ cpu.pc = "next"
  /\ cpu.frames # <<>>
  /\ LET frame == Last(cpu.frames)
     IN Executes([cpu EXCEPT !.iff = Delayed(@), !.frames = Front(@),
                             !.psw = frame.psw, !.pc = frame.pc,
                             !.sirq = FALSE, !.asked = frame.asked,
                             !.progressed = frame.by = "softi",
                             !.leaving = FALSE])

(* MOV MK,A and the operations on MK. *)
SetMask(mk) == Fetches /\ Executes([Done EXCEPT !.mk = mk])

(* MOV TM0,A and MOV TM1,A: a running timer takes it when it ends. *)
SetTimer(tm) == Fetches /\ Executes([Done EXCEPT !.tm = tm])

Stm == Fetches /\ Executes([Done EXCEPT !.tcount = TimerLength(cpu.tm)])

(* MOV MC,A: the serial clock is internal and enabled, or not; the bus may *)
(* be held, and then is, or not.                                           *)
SetMode(on, hold) ==
  /\ Fetches
  /\ Executes([Done EXCEPT !.sioOn = on])
  /\ held' = hold

Sio == Fetches /\ Executes([Done EXCEPT !.scount = BitClocks, !.sioCount = 0])

Opcode ==
  /\ ~held
  /\ \/ \E on, hold \in BOOLEAN : SetMode(on, hold)
     \/ /\ \/ Plain \/ SetSkip \/ Ei \/ Di \/ Hlt \/ Softi \/ Reti \/ Stm \/ Sio
           \/ \E f \in Irqs, pending \in BOOLEAN : SkipOnRequest(f, pending)
           \/ \E l \in Stacked : StackedLoad(l)
           \/ \E l \in Stacked \cup {"other"} : Skip(l)
           \/ \E mk \in Masks : SetMask(mk)
           \/ \E tm \in Timers : SetTimer(tm)
        /\ UNCHANGED held

(* With the bus held a clock passes and no opcode runs, and the delay of   *)
(* EI is not counted. An interrupt may still be accepted; its handler does *)
(* not run. No opcode can change MC any more: it takes a reset.            *)
Hold ==
  /\ held
  /\ Passes(cpu, 1)
  /\ UNCHANGED held

(***************************************************************************)
(* Between opcodes.                                                        *)
(***************************************************************************)

(* SOUND::event_callback acknowledges a byte. *)
SoundAck ==
  /\ cpu' = [cpu EXCEPT !.irr = @ \cup {"INTF1"}]
  /\ UNCHANGED <<held, vblank, nests>>

(* VDP::event_vline of lines 239 and 261: INTF2 is raised by the edge that *)
(* bit 5 of MK selects.                                                    *)
Vline ==
  /\ vblank' = ~vblank
  /\ cpu' = [cpu EXCEPT !.irr = IF cpu.mk.es = vblank' THEN @ \cup {"INTF2"}
                                                       ELSE @]
  /\ UNCHANGED <<held, nests>>

Reset ==
  /\ cpu' = AtReset
  /\ held' = FALSE
  /\ UNCHANGED <<vblank, nests>>

Next == Opcode \/ Hold \/ SoundAck \/ Vline \/ Reset

Spec == Init /\ [][Next]_vars

(* A halted CPU goes on with its HLT. *)
HaltedOpcode == cpu.pc = "hlt" /\ Opcode

(* A frame runs its opcodes and its lines. *)
FairSpec == Spec /\ WF_vars(HaltedOpcode) /\ WF_vars(Vline)

(***************************************************************************)
(* Properties.                                                             *)
(***************************************************************************)

Flags == [sk : BOOLEAN, l : {"none", "L0", "L1"}]

Frame ==
  [psw : Flags, pc : {"next", "hlt"}, by : {"irq", "softi"}, asked : Flags]

Registers ==
  [irr : SUBSET Irqs, mk : Masks \cup {ResetMask}, iff : 0 .. 3,
   sirq : BOOLEAN, halt : BOOLEAN, pc : {"next", "hlt"}, psw : Flags,
   frames : Seq(Frame),
   tcount : 0 .. TimerLength(MaxTimer), tm : Timers,
   scount : 0 .. BitClocks, sioCount : 0 .. Bits - 1, sioOn : BOOLEAN,
   asked : Flags, progressed : BOOLEAN, starved : BOOLEAN,
   leaving : BOOLEAN]

(* Every register has its type; a serial transfer that has begun goes on.  *)
TypeOK ==
  /\ cpu \in Registers
  /\ cpu.scount = 0 => cpu.sioCount = 0
  /\ {held, vblank, nests} \subseteq BOOLEAN

(* Interrupts do not show: in the program, and in each handler, an opcode  *)
(* is skipped, or its load ignored, exactly when the opcode before it in   *)
(* the same program or handler asks for it, whatever ran in between. SOFTI *)
(* counts as an interrupt: what the opcode before it asks is kept.         *)
InterruptsDoNotShow ==
  /\ cpu.psw = cpu.asked
  /\ \A n \in DOMAIN cpu.frames : cpu.frames[n].psw = cpu.frames[n].asked

(* A halt that was ended is not entered again on return: the CPU is at a   *)
(* HLT exactly while it is halted, and no handler returns to one.          *)
HltIsLeft ==
  /\ cpu.halt <=> cpu.pc = "hlt"
  /\ \A n \in DOMAIN cpu.frames : cpu.frames[n].pc = "next"

(* EI before RETI enables interrupts too late for another handler to begin *)
(* above one that is about to return.                                      *)
HandlersDoNotNest ==
  ~nests => \A m, n \in DOMAIN cpu.frames :
              cpu.frames[m].by = "irq" /\ cpu.frames[n].by = "irq" => m = n

(* However fast requests come, the program executes an opcode between two  *)
(* handlers.                                                               *)
ProgramProgresses == ~nests => ~cpu.starved

(* A timer that was started does not stop: it is at 0 only before the      *)
(* first STM.                                                              *)
TimerRuns == [][cpu.tcount # 0 => cpu'.tcount # 0 \/ cpu' = AtReset]_vars

(* A program that halts with interrupts enabled, or about to be, and the   *)
(* vertical blank unmasked is woken, also when the request came between    *)
(* EI and HLT.                                                             *)
HaltEnds ==
  (cpu.halt /\ cpu.iff # 0 /\ ~cpu.sirq /\ "INTF2" \notin cpu.mk.masked)
    ~> ~cpu.halt
=============================================================================
