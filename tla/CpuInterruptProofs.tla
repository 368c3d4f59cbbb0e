------------------------- MODULE CpuInterruptProofs -------------------------
(***************************************************************************)
(* For every set of opcode lengths, masks and timers, and any depth of     *)
(* handlers: interrupts do not show in the program they interrupt, a HLT   *)
(* is left for good, handlers that end with EI and RETI do not nest and do *)
(* not starve the program, the timer runs on, and a CPU that waits does    *)
(* not lose its wake.                                                      *)
(***************************************************************************)
EXTENDS CpuInterrupt, TLAPS, SequenceTheorems

(* An opcode asks for one thing at most. *)
GoodFlags == {f \in Flags : f.sk => f.l = "none"}

(* What RETI may return to. *)
GoodFrame ==
  {f \in Frame : f.psw \in GoodFlags /\ f.psw = f.asked /\ f.pc = "next"}

(* The registers, during and after an opcode. *)
Sound(c) ==
  /\ c \in Registers
  /\ c.scount = 0 => c.sioCount = 0
  /\ c.psw \in GoodFlags /\ c.psw = c.asked
  /\ c.halt <=> c.pc = "hlt"
  /\ c.halt => ~c.psw.sk
  /\ c.frames \in Seq(GoodFrame)

(* With the handler of an interrupt in progress interrupts are disabled,   *)
(* but for the count of EI at its end; EI at the end of a handler is       *)
(* followed by its RETI; the program that a handler returns to comes       *)
(* before the next.                                                        *)
Disciplined(c) ==
  /\ \A m, n \in DOMAIN c.frames :
       c.frames[m].by = "irq" /\ c.frames[n].by = "irq" => m = n
  /\ \A n \in DOMAIN c.frames :
       c.frames[n].by = "irq" => c.iff = IF c.leaving THEN 3 ELSE 0
  /\ c.leaving => c.iff = 3 /\ ~c.psw.sk /\ Len(c.frames) = 1
  /\ ~c.progressed => c.iff # 1
  /\ ~c.starved

(* The inductive invariant. *)
CpuInv ==
  /\ {vblank, nests} \subseteq BOOLEAN
  /\ Sound(cpu)
  /\ ~nests => Disciplined(cpu)

(* The registers an update of the counters leaves alone. *)
SameFlow(c, d) ==
  /\ d.iff = c.iff /\ d.sirq = c.sirq /\ d.halt = c.halt /\ d.pc = c.pc
  /\ d.psw = c.psw /\ d.frames = c.frames /\ d.asked = c.asked
  /\ d.progressed = c.progressed /\ d.starved = c.starved
  /\ d.leaving = c.leaving

(* The flags of an opcode that asks nothing. *)
LEMMA ClearIsFlags ==
  /\ Clear \in Flags /\ Clear.sk = FALSE /\ Clear.l = "none"
  /\ Clear \in GoodFlags
BY DEF Clear, Flags, GoodFlags

(* What leaves these alone keeps what is said of them. *)
LEMMA FlowKeeps ==
  ASSUME NEW c, NEW d, Sound(c), d \in Registers, SameFlow(c, d),
         d.scount = 0 => d.sioCount = 0
  PROVE  Sound(d) /\ (Disciplined(c) => Disciplined(d))
BY DEF Sound, Disciplined, SameFlow

(* The clocks that pass at a time: of an opcode or of a held bus. *)
Periods == OpClocks \cup {1}

LEMMA PeriodIsPositive ==
  ASSUME NEW p \in Periods
  PROVE  p \in Nat \ {0}
BY CpuAssumption DEF Periods

(* A timer is set to at least the length of an opcode. *)
LEMMA LengthBounds ==
  ASSUME NEW t \in Timers
  PROVE  /\ TimerLength(t) \in 1 .. TimerLength(MaxTimer)
         /\ TimerLength(MaxTimer) \in Nat
         /\ \A p \in Periods : p <= TimerLength(t)
<1> DEFINE d == MaxTimer - t
<1>1. Timers \subseteq 0 .. MaxTimer /\ MaxTimer \in Nat
  BY CpuAssumption
<1>2. t \in Nat /\ d \in Nat
  BY <1>1
<1>3. Prescaler \in Nat \ {0}
  BY CpuAssumption
<1>4. \A p \in OpClocks : p <= TimerLength(t)
  BY CpuAssumption
<1>5. d * Prescaler \in Nat /\ (t + 1) * Prescaler \in Nat
  BY <1>2, <1>3
<1>6. (MaxTimer + 1) * Prescaler = (t + 1) * Prescaler + d * Prescaler
  BY <1>1, <1>2, <1>3
<1>7. (t + 1) * Prescaler = t * Prescaler + Prescaler /\ t * Prescaler \in Nat
  BY <1>2, <1>3
<1> HIDE DEF d
<1>8. /\ TimerLength(t) \in Nat \ {0} /\ TimerLength(MaxTimer) \in Nat
      /\ TimerLength(t) <= TimerLength(MaxTimer)
  BY <1>3, <1>5, <1>6, <1>7 DEF TimerLength
<1> QED
  BY <1>4, <1>8 DEF Periods

(* The bits shifted bring the count back to a clock of the next bit. *)
LEMMA BitCount ==
  ASSUME NEW left \in Int, left <= 0
  PROVE  LET n == (0 - left) \div BitClocks + 1
         IN n \in Nat \ {0} /\ left + n * BitClocks \in 1 .. BitClocks
<1> DEFINE q == (0 - left) \div BitClocks
<1>1. BitClocks \in Nat \ {0}
  BY CpuAssumption
<1>2. /\ q \in Nat /\ BitClocks * q <= 0 - left
      /\ 0 - left < BitClocks * q + BitClocks
  BY <1>1
<1> HIDE DEF q
<1>3. (q + 1) * BitClocks = BitClocks * q + BitClocks /\ BitClocks * q \in Int
  BY <1>1, <1>2
<1>4. q + 1 \in Nat \ {0} /\ left + (q + 1) * BitClocks \in 1 .. BitClocks
  BY <1>1, <1>2, <1>3
<1> QED
  BY <1>4 DEF q

(* What the serial clock changes is sound. *)
LEMMA SerialKeeps ==
  ASSUME NEW c, NEW p \in Periods, Sound(c)
  PROVE  /\ Sound(UpdateSerial(c, p))
         /\ Disciplined(c) => Disciplined(UpdateSerial(c, p))
         /\ UpdateSerial(c, p).tcount = c.tcount
<1>0. p \in Nat \ {0} /\ BitClocks \in Nat \ {0} /\ Bits \in Nat \ {0}
  BY CpuAssumption, PeriodIsPositive
<1>c. c \in Registers
  BY DEF Sound
<1>f. /\ c.scount \in 0 .. BitClocks /\ c.sioCount \in 0 .. Bits - 1
      /\ c.irr \in SUBSET Irqs /\ c.sioOn \in BOOLEAN
  BY <1>c DEF Registers
<1>1. CASE c.scount = 0
  BY <1>1 DEF UpdateSerial
<1> DEFINE left == c.scount - p
           ticked == [c EXCEPT !.scount = left]
<1>2. CASE c.scount # 0 /\ left > 0
  <2>1. UpdateSerial(c, p) = ticked /\ left \in 1 .. BitClocks
    BY <1>0, <1>f, <1>2 DEF UpdateSerial
  <2>2. ticked \in Registers
    BY <1>c, <2>1 DEF Registers
  <2>3. SameFlow(c, ticked) /\ ticked.scount # 0 /\ ticked.tcount = c.tcount
    BY <1>c, <2>1 DEF Registers, SameFlow
  <2> QED
    BY <2>1, <2>2, <2>3, FlowKeeps
<1>3. CASE c.scount # 0 /\ ~(left > 0)
  <2> DEFINE n == (0 - left) \div BitClocks + 1
  <2>1. UpdateSerial(c, p) = Shift(ticked, n)
    BY <1>3 DEF UpdateSerial
  <2>2. left \in Int /\ left <= 0
    BY <1>0, <1>f, <1>3
  <2> HIDE DEF left
  <2>3. n \in Nat \ {0} /\ left + n * BitClocks \in 1 .. BitClocks
    BY <2>2, BitCount
  <2> HIDE DEF n
  <2>t. /\ ticked.scount = left /\ ticked.sioCount = c.sioCount
        /\ ticked.sioOn = c.sioOn /\ ticked.irr = c.irr
    BY <1>c DEF Registers
  <2>4. CASE c.sioOn /\ c.sioCount + n >= Bits
    <3> DEFINE d == [c EXCEPT !.irr = c.irr \cup {"INTFS"}, !.scount = 0,
                              !.sioCount = 0]
    <3>1. UpdateSerial(c, p) = d
      BY <1>c, <2>1, <2>4, <2>t DEF Shift, Registers
    <3>2. c.irr \cup {"INTFS"} \in SUBSET Irqs
      BY <1>f DEF Irqs
    <3>z. 0 \in 0 .. BitClocks /\ 0 \in 0 .. Bits - 1
      BY <1>0
    <3>3. d \in Registers
      BY <1>c, <3>2, <3>z DEF Registers
    <3>4. SameFlow(c, d) /\ d.sioCount = 0 /\ d.tcount = c.tcount
      BY <1>c DEF Registers, SameFlow
    <3> QED
      BY <3>1, <3>3, <3>4, FlowKeeps
  <2>5. CASE ~(c.sioOn /\ c.sioCount + n >= Bits)
    <3> DEFINE m == IF c.sioOn THEN c.sioCount + n ELSE c.sioCount
               s == left + n * BitClocks
               d == [c EXCEPT !.scount = s, !.sioCount = m]
    <3>1. UpdateSerial(c, p) = d
      BY <1>c, <2>1, <2>5, <2>t DEF Shift, Registers
    <3>2. m \in 0 .. Bits - 1 /\ s \in 1 .. BitClocks
      BY <1>0, <1>f, <2>3, <2>5
    <3>z. s \in 0 .. BitClocks /\ s # 0
      BY <1>0, <3>2
    <3> HIDE DEF m, s
    <3>3. d \in Registers
      BY <1>c, <3>2, <3>z DEF Registers
    <3>4. SameFlow(c, d) /\ d.scount # 0 /\ d.tcount = c.tcount
      BY <1>c, <3>z DEF Registers, SameFlow
    <3> QED
      BY <3>1, <3>3, <3>4, FlowKeeps
  <2> QED
    BY <2>4, <2>5
<1> QED
  BY <1>1, <1>2, <1>3

(* What the timer changes is sound, and a timer that runs goes on. *)
LEMMA TimerKeeps ==
  ASSUME NEW c, NEW p \in Periods, Sound(c)
  PROVE  /\ Sound(UpdateTimer(c, p))
         /\ Disciplined(c) => Disciplined(UpdateTimer(c, p))
         /\ c.tcount # 0 => UpdateTimer(c, p).tcount # 0
<1>0. p \in Nat \ {0}
  BY PeriodIsPositive
<1>c. c \in Registers /\ (c.scount = 0 => c.sioCount = 0)
  BY DEF Sound
<1>f. /\ c.tcount \in 0 .. TimerLength(MaxTimer) /\ c.irr \in SUBSET Irqs
      /\ c.tm \in Timers
  BY <1>c DEF Registers
<1>l. /\ TimerLength(c.tm) \in 1 .. TimerLength(MaxTimer)
      /\ TimerLength(MaxTimer) \in Nat /\ p <= TimerLength(c.tm)
  BY <1>f, LengthBounds
<1>1. CASE c.tcount = 0
  BY <1>1 DEF UpdateTimer
<1>2. CASE c.tcount # 0 /\ c.tcount > p
  <2> DEFINE t == c.tcount - p
             d == [c EXCEPT !.tcount = t]
  <2>1. UpdateTimer(c, p) = d
    BY <1>2 DEF UpdateTimer
  <2>2. t \in 1 .. TimerLength(MaxTimer)
    BY <1>0, <1>2, <1>f, <1>l
  <2> HIDE DEF t
  <2>z. t \in 0 .. TimerLength(MaxTimer) /\ t # 0
    BY <1>l, <2>2
  <2>3. d \in Registers
    BY <1>c, <2>z DEF Registers
  <2>4. /\ SameFlow(c, d) /\ d.tcount = t
        /\ d.scount = c.scount /\ d.sioCount = c.sioCount
    BY <1>c DEF Registers, SameFlow
  <2> QED
    BY <1>c, <2>1, <2>z, <2>3, <2>4, FlowKeeps
<1>3. CASE c.tcount # 0 /\ ~(c.tcount > p)
  <2> DEFINE t == c.tcount - p + TimerLength(c.tm)
             d == [c EXCEPT !.tcount = t, !.irr = c.irr \cup {"INTFT"}]
  <2>1. UpdateTimer(c, p) = d
    BY <1>3 DEF UpdateTimer
  <2>2. t \in 1 .. TimerLength(MaxTimer)
    BY <1>0, <1>3, <1>f, <1>l
  <2>i. c.irr \cup {"INTFT"} \in SUBSET Irqs
    BY <1>f DEF Irqs
  <2> HIDE DEF t
  <2>z. t \in 0 .. TimerLength(MaxTimer) /\ t # 0
    BY <1>l, <2>2
  <2>3. d \in Registers
    BY <1>c, <2>z, <2>i DEF Registers
  <2>4. /\ SameFlow(c, d) /\ d.tcount = t
        /\ d.scount = c.scount /\ d.sioCount = c.sioCount
    BY <1>c DEF Registers, SameFlow
  <2> QED
    BY <1>c, <2>1, <2>z, <2>3, <2>4, FlowKeeps
<1> QED
  BY <1>1, <1>2, <1>3

(* Accepting an interrupt is sound, and happens only where no handler of   *)
(* another is in progress and the program has gone on.                     *)
LEMMA CheckKeeps ==
  ASSUME NEW c, Sound(c)
  PROVE  /\ Sound(CheckInterrupt(c))
         /\ Disciplined(c) => Disciplined(CheckInterrupt(c))
         /\ CheckInterrupt(c).tcount = c.tcount
<1> DEFINE wanted == {i \in 1 .. Len(IrqBits) :
                        IrqBits[i] \in c.irr \ c.mk.masked}
           refused == c.iff # 1 \/ c.sirq \/ wanted = {}
           first == CHOOSE i \in wanted : \A j \in wanted : i <= j
           f == [psw |-> c.psw, pc |-> IF c.halt THEN "next" ELSE c.pc,
                 by |-> "irq", asked |-> c.asked]
           d == [Enter(c) EXCEPT !.irr = @ \ {IrqBits[first]}]
<1>1. CASE refused
  BY <1>1 DEF CheckInterrupt
<1>2. CASE ~refused
  <2>1. CheckInterrupt(c) = d
    BY <1>2 DEF CheckInterrupt
  <2>2. c \in Registers /\ c.frames \in Seq(GoodFrame) /\ c.psw = c.asked
    BY DEF Sound
  <2>3. c.irr \in SUBSET Irqs /\ c.psw \in Flags /\ c.iff = 1
    BY <1>2, <2>2 DEF Registers
  <2>4. f \in GoodFrame
    BY <2>2, <2>3 DEF Sound, GoodFrame, Frame, Registers
  <2> HIDE DEF wanted, first
  <2>5. /\ Enter(c).irr = c.irr /\ Enter(c).frames = Append(c.frames, f)
        /\ d.irr = Enter(c).irr \ {IrqBits[first]}
        /\ d.frames = Enter(c).frames
    BY <2>2 DEF Enter, Registers
  <2>6. /\ d.halt = FALSE /\ d.pc = "next" /\ d.psw = Clear /\ d.asked = Clear
        /\ d.iff = 0 /\ d.progressed = TRUE /\ d.leaving = FALSE
    BY <2>2 DEF Enter, Registers
  <2>7. /\ d.starved = (c.starved \/ ~c.progressed)
        /\ d.tcount = c.tcount /\ d.scount = c.scount
        /\ d.sioCount = c.sioCount
    BY <2>2 DEF Enter, Registers
  <2>8. /\ Append(c.frames, f) \in Seq(GoodFrame)
        /\ Len(Append(c.frames, f)) = Len(c.frames) + 1
        /\ \A n \in 1 .. Len(c.frames) : Append(c.frames, f)[n] = c.frames[n]
        /\ Append(c.frames, f)[Len(c.frames) + 1] = f
    BY <2>2, <2>4, AppendProperties
  <2>9. d.frames \in Seq(Frame) /\ d.irr \in SUBSET Irqs /\ Clear \in Flags
    <3>1. GoodFrame \subseteq Frame
      BY DEF GoodFrame
    <3> QED
      BY <2>3, <2>5, <2>8, <3>1, SeqMonotonic DEF Clear, Flags
  <2>10. d \in Registers
    <3> DEFINE irr == c.irr \ {IrqBits[first]}
               frames == Append(c.frames, f)
               starved == c.starved \/ ~c.progressed
               pushed == [c EXCEPT !.frames = frames, !.halt = FALSE,
                                   !.pc = "next", !.psw = Clear]
               asking == [pushed EXCEPT !.asked = Clear]
               disabled == [asking EXCEPT !.iff = 0]
               entered == [disabled EXCEPT !.starved = starved]
    <3>1. d = [entered EXCEPT !.progressed = TRUE, !.leaving = FALSE,
                              !.irr = irr]
      BY <2>5 DEF Enter
    <3>2. irr \in SUBSET Irqs /\ frames \in Seq(Frame) /\ starved \in BOOLEAN
      BY <2>2, <2>3, <2>5, <2>9 DEF Registers
    <3> HIDE DEF irr, frames, starved
    <3>3. pushed \in Registers
      BY <2>2, <2>9, <3>2 DEF Registers
    <3> HIDE DEF pushed
    <3>4. asking \in Registers
      BY <2>9, <3>3 DEF Registers
    <3> HIDE DEF asking
    <3>5. disabled \in Registers
      BY <3>4 DEF Registers
    <3> HIDE DEF disabled
    <3>6. entered \in Registers
      BY <3>2, <3>5 DEF Registers
    <3> HIDE DEF entered
    <3> QED
      BY <3>1, <3>2, <3>6 DEF Registers
  <2> HIDE DEF d, f
  <2>11. Sound(d)
    BY <2>5, <2>6, <2>7, <2>8, <2>10, ClearIsFlags DEF Sound
  <2>12. ASSUME Disciplined(c)
         PROVE  Disciplined(d)
    <3>1. \A n \in 1 .. Len(c.frames) : c.frames[n].by # "irq"
      BY <2>2, <2>3, <2>12 DEF Disciplined
    <3>2. /\ DOMAIN d.frames = 1 .. Len(c.frames) + 1 /\ Len(c.frames) \in Nat
          /\ \A n \in 1 .. Len(c.frames) : d.frames[n] = c.frames[n]
      BY <2>2, <2>5, <2>8, LenProperties
    <3>3. \A n \in DOMAIN d.frames :
            d.frames[n].by = "irq" => n = Len(c.frames) + 1
      BY <3>1, <3>2
    <3>4. c.progressed /\ ~c.starved
      BY <2>2, <2>3, <2>12 DEF Disciplined, Registers
    <3> QED
      BY <2>6, <2>7, <3>3, <3>4 DEF Disciplined
  <2> QED
    BY <2>1, <2>7, <2>11, <2>12
<1> QED
  BY <1>1, <1>2

(* A period that passes keeps what was sound. *)
LEMMA PassesKeeps ==
  ASSUME NEW c, NEW p \in Periods, Sound(c), Passes(c, p)
  PROVE  /\ Sound(cpu')
         /\ Disciplined(c) => Disciplined(cpu')
         /\ c.tcount # 0 => cpu'.tcount # 0
         /\ UNCHANGED <<vblank, nests>>
<1>1. cpu' = CheckInterrupt(UpdateTimer(UpdateSerial(c, p), p))
  BY DEF Passes
<1>2. /\ Sound(UpdateSerial(c, p))
      /\ Disciplined(c) => Disciplined(UpdateSerial(c, p))
      /\ UpdateSerial(c, p).tcount = c.tcount
  BY SerialKeeps
<1> DEFINE d == UpdateSerial(c, p)
<1> HIDE DEF d
<1>3. /\ Sound(UpdateTimer(d, p))
      /\ Disciplined(d) => Disciplined(UpdateTimer(d, p))
      /\ d.tcount # 0 => UpdateTimer(d, p).tcount # 0
  BY <1>2, TimerKeeps DEF d
<1> DEFINE e == UpdateTimer(d, p)
<1> HIDE DEF e
<1>4. /\ Sound(CheckInterrupt(e))
      /\ Disciplined(e) => Disciplined(CheckInterrupt(e))
      /\ CheckInterrupt(e).tcount = e.tcount
  BY <1>3, CheckKeeps DEF e
<1>5. cpu' = CheckInterrupt(e)
  BY <1>1 DEF d, e
<1> QED
  BY <1>2, <1>3, <1>4, <1>5 DEF d, e, Passes

(* The rest of run_one_opecode keeps what the opcode left sound. *)
LEMMA ExecutesKeeps ==
  ASSUME NEW c, Sound(c), Executes(c)
  PROVE  /\ Sound(cpu')
         /\ Disciplined(c) => Disciplined(cpu')
         /\ c.tcount # 0 => cpu'.tcount # 0
         /\ UNCHANGED <<vblank, nests>>
<1>1. PICK p \in OpClocks : Passes(c, p)
  BY DEF Executes
<1>2. p \in Periods
  BY DEF Periods
<1> QED
  BY <1>1, <1>2, PassesKeeps

(* An opcode that neither enables interrupts nor enters or leaves a        *)
(* handler.                                                                *)
LEMMA WorkKeeps ==
  ASSUME NEW c, NEW d, Sound(c), d \in Registers,
         d.psw \in GoodFlags, d.psw = d.asked,
         d.halt <=> d.pc = "hlt", d.frames = c.frames,
         d.halt => ~d.psw.sk, d.scount = 0 => d.sioCount = 0,
         d.iff = Delayed(c.iff) \/ d.iff = 0,
         d.progressed = TRUE, d.starved = c.starved, d.leaving = c.leaving,
         Disciplined(c) => ~c.leaving
  PROVE  Sound(d) /\ (Disciplined(c) => Disciplined(d))
<1>1. Sound(d)
  BY DEF Sound
<1>2. ASSUME Disciplined(c)
      PROVE  Disciplined(d)
  <2>1. \A n \in DOMAIN d.frames : d.frames[n].by = "irq" => c.iff = 0
    BY <1>2 DEF Disciplined
  <2>2. c.iff = 0 => d.iff = 0
    BY DEF Delayed
  <2> QED
    BY <1>2, <2>1, <2>2 DEF Disciplined
<1> QED
  BY <1>1, <1>2

(* A step does not stop the timer. *)
TimerGoesOn == cpu.tcount # 0 => cpu'.tcount # 0

(* What such an opcode leaves, before the rest of run_one_opecode. *)
Works(d) ==
  /\ d \in Registers
  /\ d.psw \in GoodFlags /\ d.psw = d.asked
  /\ d.halt <=> d.pc = "hlt"
  /\ d.halt => ~d.psw.sk
  /\ d.scount = 0 => d.sioCount = 0
  /\ d.iff = Delayed(cpu.iff) \/ d.iff = 0
  /\ d.progressed = TRUE
  /\ d.frames = cpu.frames /\ d.starved = cpu.starved
  /\ d.leaving = cpu.leaving
  /\ cpu.tcount # 0 => d.tcount # 0

(* An opcode that works keeps the invariant, and the timer goes on.        *)
LEMMA OpcodeKeeps ==
  ASSUME CpuInv, NEW d, Works(d), Executes(d),
         ~nests => ~cpu.leaving
  PROVE  CpuInv' /\ TimerGoesOn
<1>1. Sound(cpu) /\ (~nests => Disciplined(cpu))
  BY DEF CpuInv
<1>2. CASE nests
  <2>1. Sound(d)
    BY <1>1 DEF Works, Sound
  <2> QED
    BY <1>2, <2>1, ExecutesKeeps DEF CpuInv, Works, TimerGoesOn
<1>3. CASE ~nests
  <2>1. Sound(d) /\ (Disciplined(cpu) => Disciplined(d))
    BY <1>1, <1>3, WorkKeeps DEF Works
  <2> QED
    BY <1>1, <1>3, <2>1, ExecutesKeeps DEF CpuInv, Works, TimerGoesOn
<1> QED
  BY <1>2, <1>3

(* Done is such an opcode where none is skipped. *)
LEMMA DoneWorks ==
  ASSUME CpuInv, ~cpu.psw.sk
  PROVE  /\ Works(Done)
         /\ Done.psw = Clear /\ Done.asked = Clear
         /\ Done.halt = cpu.halt /\ Done.pc = cpu.pc
         /\ Done.iff = Delayed(cpu.iff)
         /\ Done.tcount = cpu.tcount
<1>1. Sound(cpu)
  BY DEF CpuInv
<1>2. cpu \in Registers
  BY <1>1 DEF Sound
<1>3. cpu.psw \in Flags /\ cpu.iff \in 0 .. 3
  BY <1>2 DEF Registers
<1>4. Delayed(cpu.iff) \in 0 .. 3
  BY <1>3 DEF Delayed
<1>5. [cpu.psw EXCEPT !.l = "none"] = Clear
  <2>1. cpu.psw = [sk |-> cpu.psw.sk, l |-> cpu.psw.l]
    BY <1>3 DEF Flags
  <2>2. cpu.psw.sk = FALSE
    BY <1>3 DEF Flags
  <2>3. \A b, l : [[sk |-> b, l |-> l] EXCEPT !.l = "none"]
                  = [sk |-> b, l |-> "none"]
    OBVIOUS
  <2> QED
    BY <2>1, <2>2, <2>3 DEF Clear
<1> DEFINE i == Delayed(cpu.iff)
           a == [cpu EXCEPT !.psw = Clear, !.asked = Clear]
           b == [a EXCEPT !.iff = i]
           e == [b EXCEPT !.progressed = TRUE]
<1>6. Done = e
  BY <1>2, <1>5 DEF Done, Registers
<1>7. i \in 0 .. 3
  BY <1>4
<1>8. /\ e.psw = Clear /\ e.asked = Clear /\ e.halt = cpu.halt
      /\ e.pc = cpu.pc /\ e.iff = Delayed(cpu.iff)
      /\ e.tcount = cpu.tcount /\ e.scount = cpu.scount
      /\ e.sioCount = cpu.sioCount /\ e.progressed = TRUE
      /\ e.frames = cpu.frames /\ e.starved = cpu.starved
      /\ e.leaving = cpu.leaving
  BY <1>2 DEF Registers
<1> HIDE DEF i
<1>9. a \in Registers
  BY <1>2, ClearIsFlags DEF Registers
<1> HIDE DEF a
<1>10. b \in Registers
  BY <1>7, <1>9 DEF Registers
<1> HIDE DEF b
<1>11. e \in Registers
  BY <1>10 DEF Registers
<1> HIDE DEF e
<1> QED
  BY <1>1, <1>6, <1>8, <1>11, ClearIsFlags DEF Works, Sound

(* A reset leaves the invariant. *)
LEMMA AtResetInv ==
  Sound(AtReset) /\ Disciplined(AtReset)
<1>1. AtReset \in Registers
  <2>1. MaxTimer \in Timers /\ 0 \in 0 .. TimerLength(MaxTimer)
    BY CpuAssumption, LengthBounds
  <2>2. 0 \in 0 .. BitClocks /\ 0 \in 0 .. Bits - 1
    BY CpuAssumption
  <2>3. <<>> \in Seq(Frame) /\ Irqs \subseteq Irqs
    OBVIOUS
  <2> QED
    BY <2>1, <2>2, <2>3, ClearIsFlags DEF AtReset, Registers
<1>2. <<>> \in Seq(GoodFrame) /\ Len(<<>>) = 0
  OBVIOUS
<1> QED
  BY <1>1, <1>2, ClearIsFlags DEF Sound, Disciplined, AtReset

(* The initial state has the invariant. *)
LEMMA CpuInit == Init => CpuInv
BY AtResetInv DEF Init, CpuInv

(* Such an opcode may ask the next to be skipped or to be ignored, ... *)
LEMMA AskWorks ==
  ASSUME NEW d, Works(d), ~d.halt, NEW f \in GoodFlags
  PROVE  Works([d EXCEPT !.psw = f, !.asked = f])
<1>1. f \in Flags
  BY DEF GoodFlags
<1> QED
  BY <1>1 DEF Works, Registers

(* ... drop a request, ... *)
LEMMA DropWorks ==
  ASSUME NEW d, Works(d), NEW i \in Irqs
  PROVE  Works([d EXCEPT !.irr = @ \ {i}])
<1>1. d \in Registers /\ d.irr \ {i} \in SUBSET Irqs
  BY DEF Works, Registers
<1> QED
  BY <1>1 DEF Works, Registers

(* ... halt, ... *)
LEMMA HaltWorks ==
  ASSUME NEW d, Works(d), ~d.psw.sk
  PROVE  Works([d EXCEPT !.halt = TRUE, !.pc = "hlt"])
BY DEF Works, Registers

(* ... disable interrupts, ... *)
LEMMA DisableWorks ==
  ASSUME NEW d, Works(d)
  PROVE  Works([d EXCEPT !.iff = 0])
BY DEF Works, Registers

(* ... mask them, ... *)
LEMMA MaskWorks ==
  ASSUME NEW d, Works(d), NEW mk \in Masks
  PROVE  Works([d EXCEPT !.mk = mk])
BY DEF Works, Registers

(* ... set the timer, ... *)
LEMMA SetTimerWorks ==
  ASSUME NEW d, Works(d), NEW tm \in Timers
  PROVE  Works([d EXCEPT !.tm = tm])
BY DEF Works, Registers

(* ... start the timer, ... *)
LEMMA StartTimerWorks ==
  ASSUME NEW d, Works(d), NEW t \in 0 .. TimerLength(MaxTimer), t # 0
  PROVE  Works([d EXCEPT !.tcount = t])
BY DEF Works, Registers

(* ... set the serial port, ... *)
LEMMA SetSerialWorks ==
  ASSUME NEW d, Works(d), NEW on \in BOOLEAN
  PROVE  Works([d EXCEPT !.sioOn = on])
BY DEF Works, Registers

(* ... and start a transfer. *)
LEMMA StartSerialWorks ==
  ASSUME NEW d, Works(d)
  PROVE  Works([d EXCEPT !.scount = BitClocks, !.sioCount = 0])
<1>1. d \in Registers
  BY DEF Works
<1>2. BitClocks \in 0 .. BitClocks /\ 0 \in 0 .. Bits - 1 /\ BitClocks # 0
  BY CpuAssumption
<1>3. [d EXCEPT !.scount = BitClocks, !.sioCount = 0] \in Registers
  BY <1>1, <1>2 DEF Registers
<1> QED
  BY <1>1, <1>2, <1>3 DEF Works, Registers

(* An opcode that only works keeps the invariant. *)
LEMMA WorkingOpcodes ==
  ASSUME CpuInv, Fetches,
         NEW d, Works(d), Executes(d)
  PROVE  CpuInv' /\ TimerGoesOn
BY OpcodeKeeps DEF Fetches

(* A skip asked for, whatever the flags were. *)
LEMMA SetSkipKeeps == CpuInv /\ SetSkip => CpuInv' /\ TimerGoesOn
<1> SUFFICES ASSUME CpuInv, SetSkip
             PROVE  CpuInv' /\ TimerGoesOn
  OBVIOUS
<1> DEFINE f == [Clear EXCEPT !.sk = TRUE]
           d == [Done EXCEPT !.psw = f, !.asked = f]
<1>1. Fetches /\ ~cpu.psw.sk
  BY DEF SetSkip, Fetches
<1>2. Works(Done) /\ Done.psw = Clear /\ Done.asked = Clear /\ ~Done.halt
  <2>1. ~cpu.halt
    BY <1>1 DEF Fetches, CpuInv, Sound
  <2> QED
    BY <1>1, <2>1, DoneWorks
<1>3. f \in GoodFlags
  BY DEF Clear, Flags, GoodFlags
<1>4. Done \in Registers
  BY <1>2 DEF Works
<1>5. [Done EXCEPT !.psw.sk = TRUE, !.asked.sk = TRUE] = d
  BY <1>2, <1>4 DEF Registers
<1>6. Executes(d)
  BY <1>5 DEF SetSkip
<1> HIDE DEF f
<1>7. Works(d)
  BY <1>2, <1>3, AskWorks
<1> QED
  BY <1>1, <1>6, <1>7, WorkingOpcodes

(* SKIT and SKNIT, with the request there or not. *)
LEMMA SkipOnRequestKeeps ==
  ASSUME CpuInv, NEW i \in Irqs, NEW pending \in BOOLEAN,
         SkipOnRequest(i, pending)
  PROVE  CpuInv' /\ TimerGoesOn
<1> DEFINE skips == (i \in cpu.irr) = pending
           f == [Clear EXCEPT !.sk = skips]
           asks == [Done EXCEPT !.psw = f, !.asked = f]
           d == [asks EXCEPT !.irr = @ \ {i}]
<1>1. Fetches /\ ~cpu.psw.sk
  BY DEF SkipOnRequest, Fetches
<1>2. Works(Done) /\ Done.psw = Clear /\ Done.asked = Clear /\ ~Done.halt
  <2>1. ~cpu.halt
    BY <1>1 DEF Fetches, CpuInv, Sound
  <2> QED
    BY <1>1, <2>1, DoneWorks
<1>3. f \in GoodFlags
  BY DEF Clear, Flags, GoodFlags
<1>4. Done \in Registers
  BY <1>2 DEF Works
<1>5. [Done EXCEPT !.psw.sk = @ \/ skips, !.asked.sk = skips,
                   !.irr = @ \ {i}] = d
  <2>1. (Clear.sk \/ skips) = skips
    BY DEF Clear
  <2> HIDE DEF skips
  <2> QED
    BY <1>2, <1>4, <2>1 DEF Registers
<1>6. Executes(d)
  BY <1>5 DEF SkipOnRequest
<1> HIDE DEF f
<1>7. Works(asks)
  BY <1>2, <1>3, AskWorks
<1> HIDE DEF asks
<1>8. Works(d)
  BY <1>7, DropWorks
<1> QED
  BY <1>1, <1>6, <1>8, WorkingOpcodes

(* A load that may be repeated. *)
LEMMA StackedLoadKeeps ==
  ASSUME CpuInv, NEW l \in Stacked, StackedLoad(l)
  PROVE  CpuInv' /\ TimerGoesOn
<1> DEFINE f == [Clear EXCEPT !.l = l]
           d == [Done EXCEPT !.psw = f, !.asked = f]
<1>1. Fetches /\ ~cpu.psw.sk
  BY DEF StackedLoad, Fetches
<1>2. Works(Done) /\ Done.psw = Clear /\ Done.asked = Clear /\ ~Done.halt
  <2>1. ~cpu.halt
    BY <1>1 DEF Fetches, CpuInv, Sound
  <2> QED
    BY <1>1, <2>1, DoneWorks
<1>3. f \in GoodFlags
  BY CpuAssumption DEF Clear, Flags, GoodFlags
<1>4. Done \in Registers
  BY <1>2 DEF Works
<1>5. [Done EXCEPT !.psw.l = l, !.asked.l = l] = d
  BY <1>2, <1>4 DEF Registers
<1>6. Executes(d)
  BY <1>5 DEF StackedLoad
<1> HIDE DEF f
<1>7. Works(d)
  BY <1>2, <1>3, AskWorks
<1> QED
  BY <1>1, <1>6, <1>7, WorkingOpcodes

(* A skip. The opcode skipped is not one that repeats a load: with SK set  *)
(* neither L0 nor L1 is.                                                   *)
LEMMA SkipKeeps ==
  ASSUME CpuInv, NEW l \in Stacked \cup {"other"}, Skip(l)
  PROVE  CpuInv' /\ TimerGoesOn
<1> DEFINE a == [cpu EXCEPT !.psw = Clear, !.asked = Clear]
           b == [a EXCEPT !.iff = Delayed(cpu.iff)]
           d == [b EXCEPT !.pc = "next", !.progressed = TRUE]
<1>1. Sound(cpu) /\ (~nests => Disciplined(cpu)) /\ cpu.psw.sk
  BY DEF CpuInv, Skip
<1>2. cpu \in Registers /\ cpu.psw \in GoodFlags
  BY <1>1 DEF Sound
<1>3. cpu.psw.l # l /\ cpu.pc = "next" /\ ~cpu.halt
  BY <1>1, <1>2, CpuAssumption DEF GoodFlags, Sound, Registers
<1>4. cpu.iff \in 0 .. 3 /\ Delayed(cpu.iff) \in 0 .. 3
  BY <1>2 DEF Registers, Delayed
<1>5. Executes(d)
  <2>1. [cpu EXCEPT !.iff = Delayed(@), !.pc = "next",
                    !.psw = [sk |-> FALSE,
                             l |-> IF @.l = l THEN l ELSE "none"],
                    !.asked = Clear, !.progressed = TRUE]
        = d
    BY <1>2, <1>3 DEF Registers, Clear
  <2> QED
    BY <2>1 DEF Skip
<1>6. /\ d.psw = Clear /\ d.asked = Clear /\ d.halt = cpu.halt
      /\ d.pc = "next" /\ d.iff = Delayed(cpu.iff)
      /\ d.scount = cpu.scount /\ d.sioCount = cpu.sioCount
      /\ d.progressed = TRUE /\ d.frames = cpu.frames
      /\ d.starved = cpu.starved /\ d.leaving = cpu.leaving
      /\ d.tcount = cpu.tcount
  BY <1>2 DEF Registers
<1>7. a \in Registers
  BY <1>2, ClearIsFlags DEF Registers
<1> HIDE DEF a
<1>8. b \in Registers
  BY <1>4, <1>7 DEF Registers
<1> HIDE DEF b
<1>9. d \in Registers
  BY <1>8 DEF Registers
<1> HIDE DEF d
<1>10. Works(d)
  BY <1>1, <1>3, <1>6, <1>9, ClearIsFlags DEF Works, Sound
<1>11. ~nests => ~cpu.leaving
  BY <1>1 DEF Disciplined
<1> QED
  BY <1>5, <1>10, <1>11, OpcodeKeeps

(* HLT, at first or fetched again. *)
LEMMA HltKeeps == CpuInv /\ Hlt => CpuInv' /\ TimerGoesOn
<1> SUFFICES ASSUME CpuInv, Hlt
             PROVE  CpuInv' /\ TimerGoesOn
  OBVIOUS
<1> DEFINE d == [Done EXCEPT !.halt = TRUE, !.pc = "hlt"]
<1>1. ~cpu.psw.sk /\ ~cpu.leaving /\ Executes(d)
  BY DEF Hlt
<1>2. Works(Done) /\ Done.psw = Clear
  BY <1>1, DoneWorks
<1>3. Works(d)
  BY <1>2, ClearIsFlags, HaltWorks
<1> HIDE DEF d
<1> QED
  BY <1>1, <1>3, OpcodeKeeps

(* The opcodes that do no more than work. *)
LEMMA SettingKeeps ==
  ASSUME CpuInv,
         \/ Plain \/ Di \/ Stm \/ Sio
         \/ \E mk \in Masks : SetMask(mk)
         \/ \E tm \in Timers : SetTimer(tm)
         \/ \E on, hold \in BOOLEAN : SetMode(on, hold)
  PROVE  CpuInv' /\ TimerGoesOn
<1>1. Fetches /\ ~cpu.psw.sk
  BY DEF Plain, Di, Stm, Sio, SetMask, SetTimer, SetMode, Fetches
<1>2. Works(Done)
  BY <1>1, DoneWorks
<1>3. CASE Plain
  BY <1>1, <1>2, <1>3, WorkingOpcodes DEF Plain
<1>4. CASE Di
  BY <1>1, <1>2, <1>4, DisableWorks, WorkingOpcodes DEF Di
<1>5. CASE Stm
  <2>1. cpu.tm \in Timers
    BY DEF CpuInv, Sound, Registers
  <2>2. /\ TimerLength(cpu.tm) \in 0 .. TimerLength(MaxTimer)
        /\ TimerLength(cpu.tm) # 0
    BY <2>1, LengthBounds
  <2> QED
    BY <1>1, <1>2, <1>5, <2>2, StartTimerWorks, WorkingOpcodes DEF Stm
<1>6. CASE Sio
  BY <1>1, <1>2, <1>6, StartSerialWorks, WorkingOpcodes DEF Sio
<1>7. CASE \E mk \in Masks : SetMask(mk)
  BY <1>1, <1>2, <1>7, MaskWorks, WorkingOpcodes DEF SetMask
<1>8. CASE \E tm \in Timers : SetTimer(tm)
  BY <1>1, <1>2, <1>8, SetTimerWorks, WorkingOpcodes DEF SetTimer
<1>9. CASE \E on, hold \in BOOLEAN : SetMode(on, hold)
  BY <1>1, <1>2, <1>9, SetSerialWorks, WorkingOpcodes DEF SetMode
<1> QED
  BY <1>3, <1>4, <1>5, <1>6, <1>7, <1>8, <1>9

(* EI, at the end of a handler where they do not nest. *)
LEMMA EiKeeps == CpuInv /\ Ei => CpuInv' /\ TimerGoesOn
<1> SUFFICES ASSUME CpuInv, Ei
             PROVE  CpuInv' /\ TimerGoesOn
  OBVIOUS
<1> DEFINE leaves == cpu.frames # <<>> /\ ~nests
           d == [Done EXCEPT !.iff = 3, !.leaving = leaves]
<1>1. /\ Fetches /\ ~cpu.psw.sk
      /\ cpu.frames # <<>> => Len(cpu.frames) < IF nests THEN MaxDepth ELSE 2
  BY DEF Ei, Fetches
<1>2. Executes(d)
  BY DEF Ei, EnableCount
<1>3. Works(Done) /\ Done.psw = Clear /\ Done.tcount = cpu.tcount
  BY <1>1, DoneWorks
<1>4. /\ Sound(cpu) /\ (~nests => Disciplined(cpu))
      /\ nests \in BOOLEAN /\ leaves \in BOOLEAN
  BY DEF CpuInv
<1>5. cpu.frames \in Seq(GoodFrame)
  BY <1>4 DEF Sound
<1>6. Done \in Registers
  BY <1>3 DEF Works
<1> HIDE DEF leaves
<1>7. /\ d.psw = Done.psw /\ d.asked = Done.asked /\ d.halt = Done.halt
      /\ d.pc = Done.pc /\ d.iff = 3 /\ d.tcount = Done.tcount
      /\ d.scount = Done.scount /\ d.sioCount = Done.sioCount
      /\ d.progressed = Done.progressed /\ d.frames = Done.frames
      /\ d.starved = Done.starved /\ d.leaving = leaves
  BY <1>6 DEF Registers
<1>8. d \in Registers
  <2> DEFINE e == [Done EXCEPT !.iff = 3]
  <2>1. e \in Registers
    BY <1>6 DEF Registers
  <2>2. d = [e EXCEPT !.leaving = leaves]
    OBVIOUS
  <2> HIDE DEF e
  <2> QED
    BY <1>4, <2>1, <2>2 DEF Registers
<1> HIDE DEF d
<1>9. Sound(d)
  BY <1>3, <1>5, <1>7, <1>8 DEF Works, Sound
<1>10. ASSUME ~nests
       PROVE  Disciplined(d)
  <2>1. d.frames = cpu.frames /\ (leaves <=> cpu.frames # <<>>)
    BY <1>3, <1>7, <1>10 DEF Works, leaves
  <2>2. CASE cpu.frames = <<>>
    <3>1. DOMAIN d.frames = {}
      BY <2>1, <2>2
    <3>2. ~d.leaving /\ d.progressed = TRUE /\ d.starved = cpu.starved
      BY <1>3, <1>7, <2>1, <2>2 DEF Works
    <3>3. ~cpu.starved
      BY <1>4, <1>10 DEF Disciplined
    <3> QED
      BY <3>1, <3>2, <3>3 DEF Disciplined
  <2>3. CASE cpu.frames # <<>>
    <3>1. Len(cpu.frames) = 1
      <4>1. Len(cpu.frames) < 2
        BY <1>1, <1>10, <2>3
      <4>2. Len(cpu.frames) \in Nat \ {0}
        BY <1>5, <2>3, EmptySeq
      <4>3. \A k \in Nat \ {0} : k < 2 => k = 1
        OBVIOUS
      <4> QED
        BY <4>1, <4>2, <4>3
    <3> QED
      BY <1>3, <1>4, <1>7, <1>10, <2>1, <2>3, <3>1, ClearIsFlags
      DEF Works, Disciplined
  <2> QED
    BY <2>2, <2>3
<1> QED
  BY <1>2, <1>3, <1>4, <1>7, <1>9, <1>10, ExecutesKeeps
  DEF CpuInv, TimerGoesOn

(* SOFTI, in a program or in a handler. *)
LEMMA SoftiKeeps == CpuInv /\ Softi => CpuInv' /\ TimerGoesOn
<1> SUFFICES ASSUME CpuInv, Softi
             PROVE  CpuInv' /\ TimerGoesOn
  OBVIOUS
<1> DEFINE f == [psw |-> cpu.psw, pc |-> "next", by |-> "softi",
                 asked |-> cpu.asked]
           frames == Append(cpu.frames, f)
           a == [cpu EXCEPT !.psw = Clear, !.asked = Clear]
           b == [a EXCEPT !.iff = Delayed(cpu.iff)]
           d == [b EXCEPT !.progressed = TRUE, !.frames = frames,
                          !.sirq = TRUE]
<1>1. Sound(cpu) /\ (~nests => Disciplined(cpu))
  BY DEF CpuInv
<1>2. cpu \in Registers /\ cpu.frames \in Seq(GoodFrame)
  BY <1>1 DEF Sound
<1>3. cpu.pc = "next" /\ ~cpu.halt /\ ~cpu.leaving
  BY <1>1 DEF Softi, Sound
<1>4. cpu.iff \in 0 .. 3 /\ Delayed(cpu.iff) \in 0 .. 3
  BY <1>2 DEF Registers, Delayed
<1>5. Executes(d)
  <2>1. [Done EXCEPT
           !.frames = Append(@, [psw |-> cpu.psw, pc |-> "next",
                                 by |-> "softi", asked |-> cpu.asked]),
           !.psw = Clear, !.sirq = TRUE]
        = d
    <3> HIDE DEF f
    <3> DEFINE g == [cpu.psw EXCEPT !.l = "none"]
    <3>1. Done = [cpu EXCEPT !.iff = Delayed(cpu.iff), !.psw = g,
                             !.asked = Clear, !.progressed = TRUE]
      BY <1>2 DEF Done, Registers
    <3> HIDE DEF g
    <3>2. Done.frames = cpu.frames
      BY <1>2, <3>1 DEF Registers
    <3>3. [Done EXCEPT !.frames = Append(@, f), !.psw = Clear, !.sirq = TRUE]
          = [Done EXCEPT !.frames = frames, !.psw = Clear, !.sirq = TRUE]
      BY <3>2
    <3> HIDE DEF frames
    <3>4. [Done EXCEPT !.frames = frames, !.psw = Clear, !.sirq = TRUE] = d
      BY <1>2, <3>1 DEF Registers
    <3> QED
      BY <3>3, <3>4 DEF f
  <2> QED
    BY <2>1 DEF Softi
<1>6. f \in GoodFrame /\ GoodFrame \subseteq Frame
  BY <1>1, <1>2 DEF Sound, Registers, GoodFrame, Frame
<1>7. /\ frames \in Seq(GoodFrame) /\ Len(frames) = Len(cpu.frames) + 1
      /\ \A n \in 1 .. Len(cpu.frames) : frames[n] = cpu.frames[n]
      /\ frames[Len(cpu.frames) + 1].by = "softi"
  BY <1>2, <1>6, AppendProperties
<1>8. /\ DOMAIN frames = 1 .. Len(cpu.frames) + 1
      /\ DOMAIN cpu.frames = 1 .. Len(cpu.frames) /\ Len(cpu.frames) \in Nat
  BY <1>2, <1>7, LenProperties
<1>9. frames \in Seq(Frame)
  BY <1>6, <1>7, SeqMonotonic
<1> HIDE DEF f, frames
<1>10. /\ d.psw = Clear /\ d.asked = Clear /\ d.halt = cpu.halt
       /\ d.pc = cpu.pc /\ d.iff = Delayed(cpu.iff)
       /\ d.scount = cpu.scount /\ d.sioCount = cpu.sioCount
       /\ d.progressed = TRUE /\ d.frames = frames
       /\ d.starved = cpu.starved /\ d.leaving = cpu.leaving
       /\ d.tcount = cpu.tcount
  BY <1>2 DEF Registers
<1>11. d \in Registers
  <2>1. a \in Registers
    BY <1>2, ClearIsFlags DEF Registers
  <2> HIDE DEF a
  <2>2. b \in Registers
    BY <1>4, <2>1 DEF Registers
  <2> HIDE DEF b
  <2> QED
    BY <1>9, <2>2 DEF Registers
<1> HIDE DEF d
<1>12. Sound(d)
  BY <1>1, <1>3, <1>7, <1>10, <1>11, ClearIsFlags DEF Sound
<1>13. ASSUME ~nests
       PROVE  Disciplined(d)
  <2>1. \A n \in DOMAIN d.frames :
          d.frames[n].by = "irq" => /\ n \in DOMAIN cpu.frames
                                    /\ d.frames[n] = cpu.frames[n]
    BY <1>7, <1>8, <1>10
  <2>2. Disciplined(cpu)
    BY <1>1, <1>13
  <2>3. \A n \in DOMAIN d.frames : d.frames[n].by = "irq" => d.iff = 0
    BY <1>3, <1>10, <2>1, <2>2 DEF Disciplined, Delayed
  <2> QED
    BY <1>3, <1>10, <2>1, <2>2, <2>3 DEF Disciplined
<1> QED
  BY <1>5, <1>10, <1>12, <1>13, ExecutesKeeps DEF CpuInv, TimerGoesOn

(* RETI: where handlers do not nest none of an interrupt is left, and if   *)
(* EI came before, the program has an opcode to execute before the next.   *)
LEMMA RetiKeeps == CpuInv /\ Reti => CpuInv' /\ TimerGoesOn
<1> SUFFICES ASSUME CpuInv, Reti
             PROVE  CpuInv' /\ TimerGoesOn
  OBVIOUS
<1> DEFINE k == Len(cpu.frames)
           f == Last(cpu.frames)
           rest == Front(cpu.frames)
           soft == f.by = "softi"
           a == [cpu EXCEPT !.psw = f.psw, !.asked = f.psw]
           b == [a EXCEPT !.iff = Delayed(cpu.iff)]
           e == [b EXCEPT !.pc = "next", !.frames = rest, !.sirq = FALSE]
           d == [e EXCEPT !.progressed = soft, !.leaving = FALSE]
<1>1. Sound(cpu) /\ (~nests => Disciplined(cpu))
  BY DEF CpuInv
<1>2. cpu \in Registers /\ cpu.frames \in Seq(GoodFrame)
  BY <1>1 DEF Sound
<1>3. ~cpu.halt /\ cpu.frames # <<>>
  BY <1>1 DEF Reti, Sound
<1>4. cpu.iff \in 0 .. 3 /\ Delayed(cpu.iff) \in 0 .. 3
  BY <1>2 DEF Registers, Delayed
<1>5. k \in Nat \ {0} /\ DOMAIN cpu.frames = 1 .. k
  BY <1>2, <1>3, EmptySeq, LenProperties
<1>6. /\ \A n \in 1 .. k : cpu.frames[n] \in GoodFrame
      /\ f = cpu.frames[k]
  BY <1>2, <1>5, ElementOfSeq DEF Last
<1>7. /\ rest \in Seq(GoodFrame) /\ DOMAIN rest = 1 .. k - 1
      /\ \A n \in 1 .. k - 1 : rest[n] = cpu.frames[n]
  <2>1. \A n \in 1 .. k - 1 : cpu.frames[n] \in GoodFrame
    BY <1>5, <1>6
  <2>2. rest = SubSeq(cpu.frames, 1, k - 1)
    BY DEF Front
  <2> HIDE DEF rest, k, f
  <2>3. /\ rest \in Seq(GoodFrame)
        /\ Len(rest) = IF 1 <= k - 1 THEN k - 1 - 1 + 1 ELSE 0
        /\ \A n \in 1 .. k - 1 - 1 + 1 : rest[n] = cpu.frames[1 + n - 1]
    BY <1>5, <2>1, <2>2, SubSeqProperties
  <2>4. Len(rest) = k - 1
    BY <1>5, <2>3
  <2> QED
    BY <1>5, <2>3, <2>4, LenProperties
<1>8. /\ f \in GoodFrame /\ f.psw \in GoodFlags /\ f.psw \in Flags
      /\ f.asked = f.psw /\ f.pc = "next"
  BY <1>5, <1>6 DEF GoodFrame, GoodFlags
<1>9. Executes(d)
  <2> HIDE DEF f, rest, k, soft
  <2>1. [cpu EXCEPT !.iff = Delayed(@), !.frames = rest,
                    !.psw = f.psw, !.pc = f.pc, !.sirq = FALSE,
                    !.asked = f.asked, !.progressed = soft,
                    !.leaving = FALSE]
        = d
    BY <1>2, <1>8 DEF Registers
  <2> QED
    BY <2>1 DEF Reti, f, rest, soft
<1>10. rest \in Seq(Frame) /\ soft \in BOOLEAN
  <2>1. GoodFrame \subseteq Frame
    BY DEF GoodFrame
  <2> QED
    BY <1>7, <2>1, SeqMonotonic
<1> HIDE DEF f, rest, k, soft
<1>11. /\ d.psw = f.psw /\ d.asked = f.psw /\ d.halt = cpu.halt
       /\ d.pc = "next" /\ d.iff = Delayed(cpu.iff)
       /\ d.scount = cpu.scount /\ d.sioCount = cpu.sioCount
       /\ d.progressed = soft /\ d.frames = rest
       /\ d.starved = cpu.starved /\ d.leaving = FALSE
       /\ d.tcount = cpu.tcount
  BY <1>2 DEF Registers
<1>12. d \in Registers
  <2>1. a \in Registers
    BY <1>2, <1>8 DEF Registers
  <2> HIDE DEF a
  <2>2. b \in Registers
    BY <1>4, <2>1 DEF Registers
  <2> HIDE DEF b
  <2>3. e \in Registers
    BY <1>10, <2>2 DEF Registers
  <2> HIDE DEF e
  <2> QED
    BY <1>10, <2>3 DEF Registers
<1> HIDE DEF d
<1>13. Sound(d)
  BY <1>1, <1>3, <1>7, <1>8, <1>11, <1>12 DEF Sound
<1>14. ASSUME ~nests
       PROVE  Disciplined(d)
  <2>1. Disciplined(cpu)
    BY <1>1, <1>14
  <2>2. \A n \in DOMAIN d.frames :
          /\ n \in DOMAIN cpu.frames /\ n \in 1 .. k - 1
          /\ d.frames[n] = cpu.frames[n]
    BY <1>5, <1>7, <1>11
  <2>3. ASSUME NEW n \in DOMAIN d.frames, d.frames[n].by = "irq"
        PROVE  d.iff = 0
    <3>1. ~cpu.leaving
      BY <1>5, <2>1, <2>2, <2>3 DEF Disciplined, k
    <3> QED
      BY <1>11, <2>1, <2>2, <2>3, <3>1 DEF Disciplined, Delayed
  <2>4. ~d.progressed => d.iff # 1
    <3>1. SUFFICES ASSUME ~soft
                   PROVE  d.iff # 1
      BY <1>11
    <3>2. cpu.frames[k].by = "irq"
      BY <1>6, <1>8, <3>1 DEF soft, GoodFrame, Frame
    <3>3. cpu.iff = 3 \/ cpu.iff = 0
      BY <1>5, <2>1, <3>2 DEF Disciplined
    <3> QED
      BY <1>11, <3>3 DEF Delayed
  <2> QED
    BY <1>11, <2>1, <2>2, <2>3, <2>4 DEF Disciplined
<1> QED
  BY <1>9, <1>11, <1>13, <1>14, ExecutesKeeps DEF CpuInv, TimerGoesOn

(* A request of a device changes no flow. *)
LEMMA RequestKeeps ==
  ASSUME CpuInv, NEW i \in SUBSET Irqs, cpu' = [cpu EXCEPT !.irr = i],
         UNCHANGED nests, vblank' \in BOOLEAN
  PROVE  CpuInv' /\ TimerGoesOn
<1>1. Sound(cpu) /\ cpu \in Registers /\ (cpu.scount = 0 => cpu.sioCount = 0)
  BY DEF CpuInv, Sound
<1>2. cpu' \in Registers
  BY <1>1 DEF Registers
<1>3. /\ SameFlow(cpu, cpu') /\ cpu'.scount = cpu.scount
      /\ cpu'.sioCount = cpu.sioCount /\ cpu'.tcount = cpu.tcount
  BY <1>1 DEF Registers, SameFlow
<1>4. Sound(cpu') /\ (Disciplined(cpu) => Disciplined(cpu'))
  BY <1>1, <1>2, <1>3, FlowKeeps
<1> QED
  BY <1>3, <1>4 DEF CpuInv, TimerGoesOn

(* The sound chip and the display only make requests. *)
LEMMA DevicesKeep ==
  ASSUME CpuInv, SoundAck \/ Vline
  PROVE  CpuInv' /\ TimerGoesOn
<1>1. cpu.irr \in SUBSET Irqs /\ vblank \in BOOLEAN
  BY DEF CpuInv, Sound, Registers
<1>2. cpu.irr \cup {"INTF1"} \in SUBSET Irqs
  BY <1>1 DEF Irqs
<1>3. cpu.irr \cup {"INTF2"} \in SUBSET Irqs
  BY <1>1 DEF Irqs
<1>4. CASE SoundAck
  BY <1>1, <1>2, <1>4, RequestKeeps DEF SoundAck
<1>5. CASE Vline
  <2> DEFINE i == IF cpu.mk.es = vblank' THEN cpu.irr \cup {"INTF2"}
                                         ELSE cpu.irr
  <2>1. /\ vblank' = ~vblank /\ UNCHANGED nests
        /\ cpu' = [cpu EXCEPT !.irr = i]
    BY <1>5 DEF Vline
  <2>2. i \in SUBSET Irqs
    BY <1>1, <1>3
  <2>3. vblank' \in BOOLEAN
    BY <2>1
  <2> HIDE DEF i
  <2> QED
    BY <2>1, <2>2, <2>3, RequestKeeps
<1> QED
  BY <1>4, <1>5

(* Every opcode keeps the invariant. *)
LEMMA OpcodesKeep ==
  ASSUME CpuInv, Opcode
  PROVE  CpuInv' /\ TimerGoesOn
<1>1. CASE \/ Plain \/ Di \/ Stm \/ Sio
           \/ \E mk \in Masks : SetMask(mk)
           \/ \E tm \in Timers : SetTimer(tm)
           \/ \E on, hold \in BOOLEAN : SetMode(on, hold)
  BY <1>1, SettingKeeps
<1>2. CASE SetSkip
  BY <1>2, SetSkipKeeps
<1>3. CASE Ei
  BY <1>3, EiKeeps
<1>4. CASE Hlt
  BY <1>4, HltKeeps
<1>5. CASE Softi
  BY <1>5, SoftiKeeps
<1>6. CASE Reti
  BY <1>6, RetiKeeps
<1>7. CASE \E f \in Irqs, pending \in BOOLEAN : SkipOnRequest(f, pending)
  BY <1>7, SkipOnRequestKeeps
<1>8. CASE \E l \in Stacked : StackedLoad(l)
  BY <1>8, StackedLoadKeeps
<1>9. CASE \E l \in Stacked \cup {"other"} : Skip(l)
  BY <1>9, SkipKeeps
<1> QED
  BY <1>1, <1>2, <1>3, <1>4, <1>5, <1>6, <1>7, <1>8, <1>9 DEF Opcode

(* A clock of a held bus does. *)
LEMMA HoldKeeps ==
  ASSUME CpuInv, Hold
  PROVE  CpuInv' /\ TimerGoesOn
<1>1. Passes(cpu, 1) /\ 1 \in Periods
  BY DEF Hold, Periods
<1> QED
  BY <1>1, PassesKeeps DEF CpuInv, TimerGoesOn

(* Every step keeps the invariant, and only a reset stops the timer. *)
LEMMA CpuNext ==
  ASSUME CpuInv, [Next]_vars
  PROVE  CpuInv' /\ (TimerGoesOn \/ cpu' = AtReset)
<1>1. CASE Opcode
  BY <1>1, OpcodesKeep
<1>2. CASE SoundAck \/ Vline
  BY <1>2, DevicesKeep
<1>3. CASE Reset
  <2>1. nests \in BOOLEAN /\ vblank \in BOOLEAN
    BY DEF CpuInv
  <2>2. CpuInv'
    BY <1>3, <2>1, AtResetInv DEF Reset, CpuInv
  <2> QED
    BY <1>3, <2>2 DEF Reset
<1>4. CASE Hold
  BY <1>4, HoldKeeps
<1>5. CASE UNCHANGED vars
  <2>1. CpuInv'
    BY <1>5 DEF vars, CpuInv
  <2> QED
    BY <1>5, <2>1 DEF vars, TimerGoesOn
<1> QED
  BY <1>1, <1>2, <1>3, <1>4, <1>5 DEF Next

(***************************************************************************)
(* Theorems.                                                               *)
(***************************************************************************)

(* The invariant holds. *)
THEOREM CpuInvHolds == Spec => []CpuInv
<1>1. CpuInv /\ [Next]_vars => CpuInv'
  BY CpuNext
<1> QED
  BY <1>1, CpuInit, PTL DEF Spec

(* Every register keeps its type, and a serial transfer goes on. *)
THEOREM CpuTypeCorrect == Spec => []TypeOK
<1> DEFINE Typed == held \in BOOLEAN
<1>1. CpuInv /\ Typed => TypeOK
  BY DEF CpuInv, Sound, TypeOK
<1>2. Init => Typed
  BY DEF Init
<1>3. Typed /\ [Next]_vars => Typed'
  <2>1. Opcode => held' \in BOOLEAN \/ UNCHANGED held
    BY DEF Opcode, SetMode
  <2>2. Hold \/ SoundAck \/ Vline => UNCHANGED held
    BY DEF Hold, SoundAck, Vline
  <2>3. Reset => held' \in BOOLEAN
    BY DEF Reset
  <2> QED
    BY <2>1, <2>2, <2>3 DEF Next, vars
<1> HIDE DEF Typed
<1> QED
  BY <1>1, <1>2, <1>3, CpuInvHolds, PTL DEF Spec

(* An opcode is skipped, or its load ignored, as the opcode before it in   *)
(* its own program or handler asks.                                        *)
THEOREM InterruptsAreHidden == Spec => []InterruptsDoNotShow
<1>1. CpuInv => InterruptsDoNotShow
  <2> SUFFICES ASSUME CpuInv
               PROVE  InterruptsDoNotShow
    OBVIOUS
  <2>1. cpu.psw = cpu.asked /\ cpu.frames \in Seq(GoodFrame)
    BY DEF CpuInv, Sound
  <2>2. \A n \in DOMAIN cpu.frames : cpu.frames[n] \in GoodFrame
    BY <2>1, ElementOfSeq, LenProperties
  <2> QED
    BY <2>1, <2>2 DEF InterruptsDoNotShow, GoodFrame
<1> QED
  BY <1>1, CpuInvHolds, PTL

(* No handler returns to a HLT. *)
THEOREM HltsAreLeft == Spec => []HltIsLeft
<1>1. CpuInv => HltIsLeft
  <2> SUFFICES ASSUME CpuInv
               PROVE  HltIsLeft
    OBVIOUS
  <2>1. (cpu.halt <=> cpu.pc = "hlt") /\ cpu.frames \in Seq(GoodFrame)
    BY DEF CpuInv, Sound
  <2>2. \A n \in DOMAIN cpu.frames : cpu.frames[n] \in GoodFrame
    BY <2>1, ElementOfSeq, LenProperties
  <2> QED
    BY <2>1, <2>2 DEF HltIsLeft, GoodFrame
<1> QED
  BY <1>1, CpuInvHolds, PTL

(* Handlers that end with EI and RETI do not nest. *)
THEOREM HandlersAreFlat == Spec => []HandlersDoNotNest
<1>1. CpuInv => HandlersDoNotNest
  BY DEF CpuInv, Disciplined, HandlersDoNotNest
<1> QED
  BY <1>1, CpuInvHolds, PTL

(* Nor do they starve the program. *)
THEOREM ProgramIsNotStarved == Spec => []ProgramProgresses
<1>1. CpuInv => ProgramProgresses
  BY DEF CpuInv, Disciplined, ProgramProgresses
<1> QED
  BY <1>1, CpuInvHolds, PTL

(* Only a reset stops a timer. *)
THEOREM TimerRunsOn == Spec => TimerRuns
<1>1. CpuInv /\ [Next]_vars =>
        [cpu.tcount # 0 => cpu'.tcount # 0 \/ cpu' = AtReset]_vars
  BY CpuNext DEF TimerGoesOn
<1> QED
  BY <1>1, CpuInvHolds, PTL DEF Spec, TimerRuns

(***************************************************************************)
(* The way out of a halt.                                                  *)
(***************************************************************************)

(* The program waits at a HLT for the vertical blank, unmasked, with       *)
(* interrupts enabled or about to be.                                      *)
Waiting ==
  cpu.halt /\ cpu.iff # 0 /\ ~cpu.sirq /\ "INTF2" \notin cpu.mk.masked

(* An update of the counters changes neither the flow nor the mask, and    *)
(* drops no request.                                                       *)
KeepsRequests(c, d) ==
  SameFlow(c, d) /\ d.mk = c.mk /\ c.irr \subseteq d.irr

(* The serial counter is such an update, ... *)
LEMMA SerialKeepsRequests ==
  ASSUME NEW c \in Registers, NEW p \in Periods
  PROVE  KeepsRequests(c, UpdateSerial(c, p))
<1> DEFINE left == c.scount - p
           ticked == [c EXCEPT !.scount = left]
           n == (0 - left) \div BitClocks + 1
<1>1. CASE c.scount = 0
  BY <1>1 DEF UpdateSerial, KeepsRequests, SameFlow
<1>2. KeepsRequests(c, ticked)
  BY DEF Registers, KeepsRequests, SameFlow
<1>3. CASE c.scount # 0 /\ left > 0
  BY <1>2, <1>3 DEF UpdateSerial
<1>4. CASE c.scount # 0 /\ ~(left > 0)
  <2>1. UpdateSerial(c, p) = Shift(ticked, n)
    BY <1>4 DEF UpdateSerial
  <2> HIDE DEF left, n
  <2>2. ticked.irr = c.irr /\ ticked.sioOn = c.sioOn
    BY DEF Registers
  <2> DEFINE m == IF c.sioOn THEN c.sioCount + n ELSE c.sioCount
             s == left + n * BitClocks
  <2>3. \/ Shift(ticked, n) = [c EXCEPT !.irr = c.irr \cup {"INTFS"},
                                        !.scount = 0, !.sioCount = 0]
        \/ Shift(ticked, n) = [c EXCEPT !.scount = s, !.sioCount = m]
    BY DEF Shift, Registers
  <2> HIDE DEF m, s
  <2>4. KeepsRequests(c, [c EXCEPT !.irr = c.irr \cup {"INTFS"},
                                   !.scount = 0, !.sioCount = 0])
    BY DEF Registers, KeepsRequests, SameFlow
  <2>5. KeepsRequests(c, [c EXCEPT !.scount = s, !.sioCount = m])
    BY DEF Registers, KeepsRequests, SameFlow
  <2> HIDE DEF ticked
  <2> QED
    BY <2>1, <2>3, <2>4, <2>5
<1> QED
  BY <1>1, <1>3, <1>4

(* ... and so is the timer. *)
LEMMA TimerKeepsRequests ==
  ASSUME NEW c \in Registers, NEW p \in Periods
  PROVE  KeepsRequests(c, UpdateTimer(c, p))
<1> DEFINE s == c.tcount - p
           t == s + TimerLength(c.tm)
<1>1. \/ UpdateTimer(c, p) = c
      \/ UpdateTimer(c, p) = [c EXCEPT !.tcount = s]
      \/ UpdateTimer(c, p)
           = [c EXCEPT !.tcount = t, !.irr = c.irr \cup {"INTFT"}]
  BY DEF UpdateTimer
<1> HIDE DEF s, t
<1> QED
  BY <1>1 DEF Registers, KeepsRequests, SameFlow

(* With interrupts enabled a request of the vertical blank, or one before  *)
(* it, is accepted; where none is, the registers stay.                     *)
LEMMA CheckWakes ==
  ASSUME NEW c \in Registers, ~c.sirq, "INTF2" \notin c.mk.masked
  PROVE  \/ ~CheckInterrupt(c).halt
         \/ /\ CheckInterrupt(c) = c
            /\ ~(c.iff = 1 /\ "INTF2" \in c.irr)
<1> DEFINE wanted == {i \in 1 .. Len(IrqBits) :
                        IrqBits[i] \in c.irr \ c.mk.masked}
           first == CHOOSE i \in wanted : \A j \in wanted : i <= j
<1>1. CASE c.iff # 1 \/ wanted = {}
  <2>1. CheckInterrupt(c) = c
    BY <1>1 DEF CheckInterrupt
  <2>2. "INTF2" \in c.irr => 4 \in wanted
    BY DEF IrqBits
  <2> QED
    BY <1>1, <2>1, <2>2
<1>2. CASE c.iff = 1 /\ wanted # {}
  <2>1. CheckInterrupt(c) = [Enter(c) EXCEPT !.irr = @ \ {IrqBits[first]}]
    BY <1>2 DEF CheckInterrupt
  <2> HIDE DEF first, wanted
  <2>2. Enter(c).halt = FALSE
    BY DEF Enter, Registers
  <2>3. CheckInterrupt(c).halt = FALSE
    BY <2>1, <2>2 DEF Enter, Registers
  <2> QED
    BY <2>3
<1> QED
  BY <1>1, <1>2

(* A period that passes wakes the CPU; or it keeps every request and the   *)
(* flow, and there was none to accept.                                     *)
LEMMA PassesWakes ==
  ASSUME NEW c, NEW p \in Periods, Sound(c), Passes(c, p),
         ~c.sirq, "INTF2" \notin c.mk.masked
  PROVE  \/ ~cpu'.halt
         \/ /\ KeepsRequests(c, cpu')
            /\ ~(c.iff = 1 /\ "INTF2" \in c.irr)
<1> DEFINE d == UpdateSerial(c, p)
           e == UpdateTimer(d, p)
<1>1. c \in Registers
  BY DEF Sound
<1>2. Sound(d) /\ KeepsRequests(c, d)
  BY <1>1, SerialKeeps, SerialKeepsRequests
<1>3. cpu' = CheckInterrupt(e)
  BY DEF Passes
<1> HIDE DEF d
<1>4. d \in Registers
  BY <1>2 DEF Sound
<1>5. Sound(e) /\ KeepsRequests(d, e)
  BY <1>2, <1>4, TimerKeeps, TimerKeepsRequests
<1> HIDE DEF e
<1>6. e \in Registers /\ KeepsRequests(c, e)
  BY <1>2, <1>5 DEF Sound, KeepsRequests, SameFlow
<1>7. /\ ~e.sirq /\ "INTF2" \notin e.mk.masked /\ e.iff = c.iff
      /\ c.irr \subseteq e.irr
  BY <1>6 DEF KeepsRequests, SameFlow
<1>8. \/ ~cpu'.halt
      \/ cpu' = e /\ ~(e.iff = 1 /\ "INTF2" \in e.irr)
  BY <1>3, <1>6, <1>7, CheckWakes
<1> QED
  BY <1>6, <1>7, <1>8

(* A halted CPU executes its HLT and nothing else. *)
LEMMA HaltedIsHlt == CpuInv /\ Waiting /\ Opcode => Hlt
<1> SUFFICES ASSUME CpuInv, Waiting, Opcode
             PROVE  Hlt
  OBVIOUS
<1>1. cpu.halt /\ cpu.pc = "hlt" /\ ~cpu.psw.sk
  BY DEF CpuInv, Sound, Waiting
<1>2. ~Fetches
  BY <1>1 DEF Fetches
<1>3. ~Reti /\ ~Softi /\ \A l : ~Skip(l)
  BY <1>1 DEF Reti, Softi, Skip
<1>4. ~Plain /\ ~SetSkip /\ ~Ei /\ ~Di /\ ~Stm /\ ~Sio
  BY <1>2 DEF Plain, SetSkip, Ei, Di, Stm, Sio
<1>5. /\ \A f, q : ~SkipOnRequest(f, q)
      /\ \A l : ~StackedLoad(l)
  BY <1>2 DEF SkipOnRequest, StackedLoad
<1>6. /\ \A mk : ~SetMask(mk)
      /\ \A tm : ~SetTimer(tm)
      /\ \A on, hold : ~SetMode(on, hold)
  BY <1>2 DEF SetMask, SetTimer, SetMode
<1> QED
  BY <1>3, <1>4, <1>5, <1>6 DEF Opcode

(* Until it is woken a waiting CPU waits on, enabled no later than before, *)
(* and a request of the vertical blank is kept.                            *)
WaitsOn ==
  Waiting' /\ cpu'.iff <= cpu.iff /\ ("INTF2" \in cpu.irr => "INTF2" \in cpu'.irr)

(* With the request there, an opcode wakes the CPU or uses up the delay of *)
(* EI.                                                                     *)
LEMMA WaitingHlt ==
  ASSUME CpuInv, Waiting, Hlt
  PROVE  \/ ~cpu'.halt
         \/ WaitsOn /\ ("INTF2" \in cpu.irr => cpu'.iff < cpu.iff)
<1> DEFINE c == [Done EXCEPT !.halt = TRUE, !.pc = "hlt"]
<1>1. cpu \in Registers /\ cpu.iff \in 1 .. 3 /\ ~cpu.psw.sk
  BY DEF CpuInv, Sound, Waiting, Registers, Hlt
<1>2. Works(Done) /\ Done.psw = Clear /\ Done.iff = Delayed(cpu.iff)
  BY <1>1, DoneWorks
<1>3. Works(c)
  BY <1>2, ClearIsFlags, HaltWorks
<1>4. c \in Registers
  BY <1>3 DEF Works
<1>5. /\ Done.irr = cpu.irr /\ Done.mk = cpu.mk /\ Done.sirq = cpu.sirq
  BY <1>1 DEF Done, Registers
<1>6. /\ c.irr = cpu.irr /\ c.mk = cpu.mk /\ c.sirq = cpu.sirq
      /\ c.iff = Delayed(cpu.iff)
  BY <1>2, <1>5 DEF Works, Registers
<1>7. PICK p \in OpClocks : Passes(c, p)
  BY DEF Hlt, Executes
<1>8. Sound(c) /\ p \in Periods
  BY <1>3 DEF Works, Sound, CpuInv, Periods
<1> HIDE DEF c
<1>9. \/ ~cpu'.halt
      \/ KeepsRequests(c, cpu') /\ ~(c.iff = 1 /\ "INTF2" \in c.irr)
  BY <1>6, <1>7, <1>8, PassesWakes DEF Waiting
<1>10. CASE ~cpu'.halt
  BY <1>10
<1>11. CASE cpu'.halt
  <2>1. /\ cpu'.iff = Delayed(cpu.iff) /\ cpu'.mk = cpu.mk
        /\ cpu'.sirq = cpu.sirq /\ cpu.irr \subseteq cpu'.irr
    BY <1>6, <1>9, <1>11 DEF KeepsRequests, SameFlow
  <2>2. cpu'.iff # 0 /\ cpu'.iff <= cpu.iff
    BY <1>1, <2>1 DEF Delayed
  <2>3. "INTF2" \in cpu.irr => cpu'.iff < cpu.iff
    BY <1>1, <1>6, <1>9, <1>11, <2>1 DEF Delayed
  <2>4. Waiting' /\ ("INTF2" \in cpu.irr => "INTF2" \in cpu'.irr)
    BY <1>11, <2>1, <2>2 DEF Waiting
  <2> QED
    BY <2>2, <2>3, <2>4 DEF WaitsOn
<1> QED
  BY <1>10, <1>11

(* A clock of a held bus does not make a waiting CPU lose its request.     *)
LEMMA WaitingHold ==
  ASSUME CpuInv, Waiting, Hold
  PROVE  ~cpu'.halt \/ WaitsOn
<1>1. Passes(cpu, 1) /\ 1 \in Periods
  BY DEF Hold, Periods
<1>2. Sound(cpu) /\ cpu.iff \in 0 .. 3
  BY DEF CpuInv, Sound, Registers
<1>3. ~cpu'.halt \/ KeepsRequests(cpu, cpu')
  BY <1>1, <1>2, PassesWakes DEF Waiting
<1>4. CASE ~cpu'.halt
  BY <1>4
<1>5. CASE cpu'.halt
  <2>1. /\ cpu'.iff = cpu.iff /\ cpu'.mk = cpu.mk
        /\ cpu'.sirq = cpu.sirq /\ cpu.irr \subseteq cpu'.irr
    BY <1>3, <1>5 DEF KeepsRequests, SameFlow
  <2>2. Waiting'
    BY <1>5, <2>1 DEF Waiting
  <2> QED
    BY <1>2, <2>1, <2>2 DEF WaitsOn
<1> QED
  BY <1>4, <1>5

(* A step of a CPU that waits for the vertical blank: it is woken or waits *)
(* on; an opcode with the request there brings the wake nearer; the edge   *)
(* of the vertical blank that MK selects makes the request.                *)
WakeIsComing ==
  Waiting =>
    \/ ~cpu'.halt
    \/ /\ WaitsOn
       /\ Opcode /\ "INTF2" \in cpu.irr => cpu'.iff < cpu.iff
       /\ Vline => cpu'.mk = cpu.mk
                     /\ (vblank' = cpu.mk.es => "INTF2" \in cpu'.irr)

(* The safety half of HaltEnds: whatever the timer, the serial counter,    *)
(* the sound chip and the lines of the display do meanwhile, the request   *)
(* is not lost, interrupts are not disabled, and each HLT executed with    *)
(* the request there wakes the CPU or counts the delay of EI down.         *)
THEOREM WakesAreKept == Spec => [][WakeIsComing]_vars
<1>1. ASSUME CpuInv, Next
      PROVE  WakeIsComing
  <2> SUFFICES ASSUME Waiting, cpu'.halt
               PROVE  /\ WaitsOn
                      /\ Opcode /\ "INTF2" \in cpu.irr => cpu'.iff < cpu.iff
                      /\ Vline => cpu'.mk = cpu.mk
                           /\ (vblank' = cpu.mk.es => "INTF2" \in cpu'.irr)
    BY DEF WakeIsComing
  <2>1. cpu \in Registers
    BY <1>1 DEF CpuInv, Sound
  <2>2. ASSUME NEW i \in SUBSET {"INTF1", "INTF2"},
               cpu' = [cpu EXCEPT !.irr = cpu.irr \cup i]
        PROVE  WaitsOn /\ cpu'.mk = cpu.mk /\ cpu'.irr = cpu.irr \cup i
    BY <2>1, <2>2 DEF WaitsOn, Waiting, Registers
  <2>3. Opcode => WaitsOn /\ ("INTF2" \in cpu.irr => cpu'.iff < cpu.iff)
    BY <1>1, HaltedIsHlt, WaitingHlt
  <2>4. SoundAck => WaitsOn
    <3>1. SoundAck => cpu' = [cpu EXCEPT !.irr = cpu.irr \cup {"INTF1"}]
      BY DEF SoundAck
    <3> QED
      BY <2>2, <3>1
  <2>5. Vline => /\ WaitsOn /\ cpu'.mk = cpu.mk
                 /\ vblank' = cpu.mk.es => "INTF2" \in cpu'.irr
    <3> DEFINE i == IF cpu.mk.es = vblank' THEN {"INTF2"} ELSE {}
    <3>1. Vline => cpu' = [cpu EXCEPT !.irr = cpu.irr \cup i]
      <4>1. CASE cpu.mk.es = vblank'
        BY <4>1 DEF Vline
      <4>2. CASE cpu.mk.es # vblank'
        <5>1. cpu.irr \cup i = cpu.irr
          BY <4>2
        <5> QED
          BY <4>2, <5>1 DEF Vline
      <4> QED
        BY <4>1, <4>2
    <3>2. i \in SUBSET {"INTF1", "INTF2"}
      OBVIOUS
    <3>3. cpu.mk.es = vblank' => "INTF2" \in i
      OBVIOUS
    <3> HIDE DEF i
    <3> QED
      BY <2>2, <3>1, <3>2, <3>3
  <2>6. ~Reset
    BY DEF Reset, AtReset
  <2>7. Hold => WaitsOn /\ ~Opcode
    BY <1>1, WaitingHold DEF Hold, Opcode
  <2>8. CASE Opcode
    BY <2>3, <2>5, <2>8
  <2>9. CASE Hold \/ SoundAck
    BY <2>3, <2>4, <2>5, <2>7, <2>9
  <2>10. CASE Vline
    BY <2>3, <2>5, <2>10
  <2> QED
    BY <1>1, <2>6, <2>8, <2>9, <2>10 DEF Next
<1>2. CpuInv /\ [Next]_vars => [WakeIsComing]_vars
  BY <1>1
<1> QED
  BY <1>2, CpuInvHolds, PTL DEF Spec
=============================================================================
