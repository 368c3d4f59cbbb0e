# A TLA+ model of EmuSCV

EmuSCV is a libretro core that emulates the Epoch/Yeno *Super Cassette Vision*.
This directory holds TLA+ modules translated from its source, the TLC runs that
check them on small instances, and TLAPS proofs. Paths below are relative to
`src/src/`.

## 1. Inventory

| Component | State it keeps | Operations | Talks to |
|---|---|---|---|
| Event manager, `vm/event.cpp` | 64 event handles in two linked lists (free, fire), `event_clocks` | `register_event[_by_clock]`, `cancel_event`, `update_event`, `reset`, `save_state`/`load_state` | calls `event_callback` of the devices, which register and cancel from inside |
| Drive loop, `EVENT::drive` | `vclocks`, `event_remain`, `cpu_remain`, `cpu_accum`, `frames_per_sec` | one frame per `VM::run` | runs the CPU opcode by opcode, `event_vline` of the VDP, `update_event` |
| Sound mixing, `EVENT::touch_sound` ff. | two sample buffers, `mix_counter`, write index, `sound_samples` | the mixer's loop event, `touch_sound`, `create_sound` | `SOUND::mix`; once a frame `EMU::update_sound` |
| Sound chip, `vm/scv/sound.cpp` | `params`, `param_cnt`, `param_ptr`, `register_id`, `cmd_addr`, six channels, the PCM table | command byte at 0x3600, PC3, acknowledgement, mix, reset, save/load | event manager (100 us acknowledge), CPU (INTF1) |
| Memory bus and cart, `vm/scv/memory.cpp` | bank windows, `cart`, `sram`, headers, `cur_bank`, RAM flags, the save file | reads and writes, `set_bank`, `open_cart`, `close_cart`, `save_cart`, save/load | sound chip (0x3600), files |
| I/O ports, `vm/scv/io.cpp` | latches `pa`, `pb`, `pc` | port writes and reads, save/load | bus (PC5, PC6), sound chip (PC3) |
| CPU, `vm/upd7801.cpp` | registers, `IFF`, `IRR`, `MK`, `HALT`, timer and serial counters | `run(-1)`: one opcode; `write_signal` | bus, ports |
| VDP, `vm/scv/vdp.cpp` | sprites, palettes | `event_vline` (INTF2 on lines 239 and 261), drawing | CPU, bus |
| VM and EMU, `vm/scv/scv.cpp`, `emu.cpp` | list of devices | reset, run, cart operations, save/load of all devices in list order | everything |
| Save state buffer, `state.cpp` | data, length, position, `ready_to_load` | `Init`, Get/Set/Check, deferred restore | libretro calls, `RetroRun` |
| libretro front, `libretro.cpp`, `emuscv.cpp` | settings, pressed keys and their edges, overlay with its fading and cursor, power switch | the `retro_*` entry points, above all `RetroRun` | EMU, frontend |
| Helpers, `fifo.cpp`, `fileio.cpp`, `common.cpp`, `md5.cpp`, `config.cpp`, `osd/` | none of the machine's | utilities, host input and output | |

The program runs on one thread: the hard behaviours are not races but
*callbacks* (an event's callback changes the list it was found in), *cuts*
(PC3, resets, settings and restored states arrive between two steps of a
handshake), *overruns* (an opcode does not end where its line ends), *stale
copies* (`register_id`, `cur_bank`, `frames_per_sec`, the key flags repeat what
another component knows), *shared buffers* (two for sound that two clocks fill
and empty, one for saved states that three calls use), and *files* (a cart's RAM is kept over changes of cart and
kills). `PROJECT.json` lists each at its line, under "hazards".

What makes the components correct:

* event manager: both lists stay whole; what is due fires, in order, at its
  clock; loop events do not drift; an update ends;
* drive loop: no clock is lost or dealt twice, CPU and events share each line,
  a frame has the clocks of its rate, a frame ends;
* sound chip: bytes are counted right however a command is cut; no
  acknowledgement without a waiting chip, no waiting chip without one; the
  chip always listens again;
* sound buffers: the mixer stays within them; what is played is a whole block;
  no block is lost or played more than twice;
* save state buffer: what the next frame restores is what the host gave;
* front end: no key sticks, no direction meant for the overlay reaches the
  game, and the machine comes to read what the host holds;
* cart: the RAM window follows cart and bank; a save file holds its own game's
  RAM; no progress is lost on a change of cart, and the game resumes from it;
  the mapped bank is the one the port names.

## 2. Modules

| Module | Models | Role |
|---|---|---|
| `EventBase` | constants and assumptions of the next two | |
| `EventTimers` | what the event manager promises | abstract specification |
| `EventManager` | `EVENT::register_event` to `update_event` and `reset`, with the lists | implements `EventTimers` |
| `EventDrive` | `EVENT::drive`, its reset, settings, save and restore | |
| `SoundCommand` | the command handshake of `SOUND` with PC3 of `IO` and the acknowledge event | composes the three |
| `CartBank` | cart RAM, bank window and save files of `MEMORY` with PC5/PC6 of `IO` | composes the two |
| `CpuInterrupt` | interrupts, halts, skips, timer and serial counter of `UPD7801`, with INTF2 of the VDP and INTF1 of the sound chip | composes the three |
| `SoundMix` | the two sample buffers of `EVENT` and what the front end plays of them | |
| `StateSession` | the one save state buffer of `STATE` under the libretro calls | |
| `RetroFrame` | a frame of `RetroRun` and the calls between frames | composes `SoundMix` and `StateSession` |
| `FrontInput` | controller, overlay, keys and switches of `RetroRun`, with `osd_input.cpp` and what `IO` reads | composes the three |
| `EventTimersProofs`, `EventManagerProofs`, `EventDriveProofs`, `SoundCommandProofs`, `CartBankProofs`, `CpuInterruptProofs`, `RetroFrameProofs`, `FrontInputProofs` | | TLAPS proofs |
| `MC*` | | constants for TLC |

### EventTimers and EventManager

`EventManager` keeps the handles as the array `event` with the `next` and
`prev` fields of the code: `Chain` follows `next`, `InsertEvent` is
`insert_event` (the first handle that expires later, else the tail), `Unlink`
the relinking of `cancel_event`. `update_event` is split where control leaves
it: `StartUpdate`, `FireHead` up to the callback, `CallbackReturns`,
`FinishUpdate`; between `FireHead` and `CallbackReturns` the device may
register and cancel, as the sound chip does. `born` is a history field.
Clocks carry `Frac` parts (1024 in the code, 2 here), so that periods that are
not whole clocks occur. `EventTimers` forgets the lists: a timer has an exact
due time in `1/Frac` clock; the refinement maps it to
`expired_clock * Frac + accum_clocks`. Events due in the same clock may fire in
any order there; `EqualsFireInOrder` states the order the lists add. The model
does not deduce from the program that only two events are ever registered: it
checks the manager for any device that keeps its interface.

### EventDrive

`phase` is the place in `drive`: `BeginFrame`, `BeginLine`, one `Turn` per pass
of the inner loop with any opcode length of `OpClocks`, `EndLine`, `EndFrame`.
`update_event` appears by what it adds to the clock. `Scale` is `2^power`;
`power` is set once, by `EVENT::initialize`. `begun` is a history variable:
the clocks of all lines begun. Settings that are read or saved change the rate
and call `EVENT::reset` (`emuscv.cpp:3049-3057`), and `RetroRun` does so after
every restore (`emuscv.cpp:929-935`): both are part of `ChangeSettings` and
`LoadState`. One CPU is driven, `update_extra_event` has no caller.

### SoundCommand

`waiting` is `register_id # -1`; `ackPending` says that the event manager still
holds the event. Of `params` the model keeps the bytes the code looks at (0, 1,
2 and the latest). `WriteByte` is `write_data8` with its PCM patches, `EndCommand`
the PC3 branch of `write_io8`, `Acknowledge` the callback, `Mix` the reader of
the PCM; the reader may run past the end within one mix (`Overrun`). `pcmLen`
and `pcmPtr` are `pcm_len` and `pcm.ptr`, a byte of PCM counted 1: a reset
takes the reader back and leaves the length. Wave forms and volumes are left
out. `ResetSound` is `EVENT::reset` without
`SOUND::reset`.

### CartBank

A cart has four banks of ROM, RAM seen in some of them, and perhaps a battery.
`window` says where the pages of the RAM area lead; `file` holds what the save
file of each game contains, `TORN` after a kill between the truncation and the
write. `OpenCart` closes and saves the cart in place first, as `open_cart` does,
then reads the file; `OpenBadCart` is a file that is no cart, or one whose CRC
is wrong (which stays inserted with its RAM out of use). A restored state
belongs to the game in place, as frontends offer it.

### CpuInterrupt

`cpu` holds the registers that decide what the next opcode does: requests and
masks, `IFF` with its count after EI, `HALT`, the flags SK, L0 and L1 of PSW,
the two counters, and `frames`, the stack of PSW and PC that interrupts and
SOFTI push. An opcode is known by what it does to these (`Plain` stands for all
that do nothing to them); `Executes` is an opcode with the rest of
`run_one_opecode` (`Passes`): serial counter, timer, interrupts, in that order. PC is kept only as far as it is at a
HLT or past it. A sum replaces the loop of the serial counter (`Shift`).
History fields say what an opcode of the same program asked (`asked`), whether
an opcode was executed since a handler returned (`progressed`, `starved`), and
that EI began the end of a handler (`leaving`).

The program is any with balanced handlers. `nests` is chosen once: where it is
false, a handler enables interrupts only as its last opcode before RETI, the
idiom EI's delay exists for, and `HandlersDoNotNest` and `ProgramProgresses`
are about such programs. The other properties hold of both kinds. EI leaves
`IFF` at 3; the next opcode makes it 2 and the one after 1, so that the first
interrupt may follow the second opcode after EI, RETI and one of the program.

`CpuAssumption` asks that no opcode is longer than the period of the timer. The
code has no such bound: with TM1:TM0 = 0 the period is 16 clocks and some
opcodes take up to 20; an opcode that leaves the counter at exactly 0 then stops
the timer. SOFTI is not skipped and pushes PSW as it is, with SK: the model keeps
that.

`held` is bit 6 of MC clear. Bit 7 of port C, which asks for the bus, always
reads 1 (`io.cpp:115`), so the opcode that clears the bit is the last: `Hold`
lets a clock pass, runs no opcode and does not count the delay of EI, yet may
accept an interrupt. MC is 0xff after a reset, and only a reset, or a restored
state, which the module leaves out, ends it.

Left out: the wait signal and the external serial clock, which nothing drives,
and the pins SAK, TO and HLDA. Where MC turns a bit of port C over to one of
them, it changes the bit as a write of the program would (PC3, PC6; PC4 is
open), and `SoundCommand` and `CartBank` let the port be written at any time.

### SoundMix

`Tick` is `EVENT::event_callback`, once per sample of the machine's clock;
`BeginFrame` the swap in `EMU::run`; `Play` the loop that hands the samples to
the host. Samples are counted, not kept: `block` says how many samples a buffer
starts with. `Ticks` gives the ticks a frame may have, since the mixer's period
is not a whole number of clocks and a frame not a whole number of samples.
`plays` and `calm` are history: a frame is *calm* if it owes one mix at most.
Frames that are not calm exist, see below. `MachineReset`, `ChangeSettings` and
`RestoreSound` clear the buffers between frames. Only the last of these sets
`mix_counter`, and only if the restore reaches the event manager.

### StateSession

`SizeQuery`, `SaveState` and `LoadState` are the libretro calls, `ApplyState`
what `RetroRun` does with the state that waits. A state is known by whose it is
and whether all of it is there; `data_current_size` is kept as a number,
because it guards the next restore and `IO::load_state` adds to it. The host
asks for the size or saves before it first restores.

### RetroFrame

Extends both modules and orders their actions as `RetroRun` does: restore,
settings and buttons, the driven frame, the sound. `Restore` is the step both
share. `content.whole` is what lets a restore go through; one that does not
stops before the event manager, between it and the ports, or after.

### FrontInput

One action is one `RetroRun`, its operators the blocks of the code in their
order: `Shown` and `Faded` the overlay, `Moved` the cursor, `PadIsFree` and
`Sent` the pad, `Asked`, `Released` and `CursorAfter` the fifteen key blocks,
which differ in their key only, `FlagOf` the one flag that is wrong. The two
ports are joined by "or" except for the pad they drive; one is modelled. The
code keeps an edge flag for each direction and for the overlay's button: all
are what was held in the last frame (`held`). `status` is `key_status`,
`current` and `joy` the pad as set and as the machine reads it. `Unused` are
keys the player leaves alone.

## 3. Runs

| Run | Bounds | Shows |
|---|---|---|
| `manager` | 3 handles, 2 devices, a delay of 2 clocks, a period of 1.5 clocks, clock to 3, fairness | list integrity, order, no drift, refinement of `EventTimers`, `UpdateTerminates` |
| `drive` | 3 lines, 8 or 7 clocks a frame, opcodes of 1 and 5 CPU clocks, 2 CPU clocks per event clock | the clock account, the shares, the line clocks, `FrameEnds` |
| `sound` | three byte values, lengths 4, 3 and 7, settings and states in use | counting and acknowledgements under every cut |
| `sound_ack` | six byte values, PCM of 9 bytes, overrun 1, fairness, no settings, states or patched game | `DeafOnlyUntilAck`, `ListensAgain` |
| `cart_bank` | two battery games and one without, real RAM banks | window and save files |
| `cpu` | opcodes of 3 clocks, timer of 4, serial bits of 2 clocks and transfers of 2 bits, nothing masked or all as after a reset, one stacked load, two handlers deep, fairness | flags, halts, nesting, starvation and timer, with the bus held or not, `HaltEnds` |
| `frame` | 5 or 6 samples a frame (735 or 882), one tick more or less, buffers of 6, 2 states of 4 bytes in data of 2 to 6, announced as 6 | sound blocks and restores through every order of calls |
| `input` | 13 sets of controls, fading of 3 in steps of 2, start-up of 2 frames, key 9 left alone, fairness | keys, overlay, pad, `MachineFollowsHost` |
| `input_nine` | four sets of controls, key 9 in use, fairness | violation, see below |
| `sound_restore`, `cart_port`, `cart_rom` | as above | violations, see below |

Three handles give a head, a middle and a tail of the fire list, and both lists
empty and full. An opcode of 5 CPU clocks at 2 per event clock overruns lines of
2 or 3 event clocks by part of a line and by more than one, with a fraction
carried; 8 and 7 clocks over 3 lines leave remainders of 2 and 1. Seven bytes
reach the first data byte of a PCM (the code looks at bytes 1, 2, 5 and from 7
on), nine its early end `0xfe 0x00`. Three games are enough for one whose file
is written while another's is read. An opcode of 3 clocks passes one serial bit
or two and the end of the timer exactly or beyond; two frames hold a handler
interrupted by another or by SOFTI, and one SOFTI inside another. A rate of 5
samples after one of 6, and 6 after 5, leave a counter above and below the new
frame. Fading of 3 in steps of 2 passes both ends of the counter. Two keys held
at once, a key of the host with the cursor elsewhere, and a direction with A
press several keys in a frame.

Every property has a mutant: a definition preceded by "Mutant:", a plausible bug
in place of the definition it is named for, under which TLC finds the property
violated.

### Fairness

The program is a loop on one thread. `manager` assumes that an update, once
begun, goes on and that callbacks return. `drive` assumes that a frame begun
goes on. `sound_ack` assumes that while frames are run the event manager fires
what is due (`UpdateTerminates` and the clock account are why) and that the
mixer event, a loop event, mixes. `cpu` assumes that a halted CPU is run, as
`EVENT::drive` does, and that lines go on (`FrameEnds`). `input` assumes that the
host goes on calling `RetroRun`; `frames` makes each call a step, so that fading
cannot stand still. Nothing else is assumed of the game, the player or the
frontend.

`UpdateTerminates` needs that no device registers an event with no delay in its
own callback; the program asks for 100 us and 1/44100 s, and the constants
exclude zero in that run.

### Disagreements found

* `sound_restore`: a state saved between a command byte and its acknowledgement
  leaves the chip deaf when restored. `RetroRun` reads the settings again after
  each restore, `reset_sound` cancels the acknowledge event, and `register_id`
  still says one is pending. A change of settings does the same.
  The patch for one game (`sound.cpp:245`) cancels the event and keeps
  `register_id` too.
* `input_nine`: when key 9 is let go, the flag of key 0 is cleared. The flag of
  9 stays, so the pads are never read again, and a key 0 let go stays down in
  the machine.
* `cart_port`: `IO::load_state` writes where it should read; the port latch and
  the mapped bank disagree after a restore.
* `cart_rom`: the second `SET_BANK` of `set_bank` makes ROM writable.

Seen while modelling, and kept in the models or excluded by a named bound, with
no run of their own:

* A frame that is not calm writes past its buffer. A 50 to 60 Hz change with a
  counter of 736 or more does it, and at 60 Hz a frame of 736 ticks that begins
  with the counter at 735: two mixes, 1470 samples, in room for 882. By the
  lengths of the clocks the second happens about once in 97 minutes.
* Before the first size query or save, the length is 0 and a restore of any
  length is accepted, against the comment at `emuscv.cpp:3619`. Each restore
  adds 3 to the length (`IO::load_state`), so that after many without a query a
  valid state is refused.
* A size query or a save drops a restore that was accepted and waits. A refused
  save drops it too. A restore that waits survives a change of game.
* A program that clears bit 6 of MC stops until a reset: the bus is asked for at
  all times.
* RESET held resets the machine and saves the cart every frame.
* A key of the pad held while the cursor slides presses each key it comes to,
  POWER among them.
* A direction held when the overlay opens stays pressed in the game until the
  overlay is gone: `OverlayMutesPad` is about new directions.

## 4. Proofs

`EventTimersProofs` proves `TimersTypeCorrect` and `TimersNeverOverdue`. The
invariant is inductive with the types; the argument is about the clock a time
falls in: `ClockOfBound` (the defining property of division), from it
monotonicity and that what is armed now is not due before now.

`EventManagerProofs` proves `ManagerTypeCorrect`, `ListsStayWhole`,
`FireListStaysTimely`, `LoopsStayOnTheirPeriods`, `EqualsStayInOrder`, the
refinement `ListsImplementTimers` and `UpdateMovesOn`, for any number of
handles, devices, delays and periods. `ListsPartitionSlots` is stated with
`Chain`, which follows `next` from a head, and says nothing a relinking could
use: so the invariant `ManagerInv` says that there are two sequences of handles
(`Whole`) which name every handle once and agree with `next`, `prev` and
`active`, the first sorted by expiry. With it go the types, `NoneOverdue` (no
active handle expires before the clock, and the clock is not past the goal of an
update) and `LoopsDoNotDrift`. The argument:

* `ChainIsList`: `Chain` of the head is the sequence. `Chain` is a recursive
  function; the induction is on the least number for which it fails
  (`LeastElement`, `SetInduction`, from `WFMin`), a set of numbers in place of
  the predicate the library's theorems take.
* What an operation does, said of the sequences: `RegisterEffect` (the handle
  leaves the head of the free list and is spliced in behind the last that is due
  no later), `UnlinkEffect`, `FireLoopEffect` (the head is spliced in again),
  `ResetEffect`. `EVENT::reset` goes through the handles, a recursive function
  in the model; `SweepsExist` and `SweepStep` do the induction.
* `EqualsStayInOrder` then speaks of positions: an operation removes one handle
  or splices one in (`InsertedOrder`, `RemovedOrder`), so the order of the
  others stays, and a handle that goes in goes behind its equals.
* `ListsImplementTimers` maps each step by a lemma of its own: `RegisterArms`,
  `CancelDisarms`, `ResetDisarmsAll`, `FireExpires`, `FinishFinishes`. The timer
  of a handle does not depend on its links, so a relinking is no step of
  `EventTimers`; the arithmetic is that `expired_clock` and `accum_clocks` are
  quotient and remainder of one time (`SameQuotient`, `TimeIsInClock`).
* `EqualsStayInOrder` and `UpdateMovesOn` also need that an event on the fire
  list is some device's, with a period that a device asked for
  (`AsRegistered`).

`EventDriveProofs` proves `DriveTypeCorrect`, `NoClockIsLost`,
`CpuIsNeverStarved` and `FramesHaveTheirClocks` for any number of lines, any rates, clocks, opcode lengths
and a power of two `Scale`. `NoClockLost` alone is not inductive. Needed with it:
no event clock is left outside the loop of a line (`LineIsDone`; otherwise a
line could begin over an unfinished one), CPU and events agree
(`eventRemain * Scale = cpuRemain + cpuAccum`; otherwise a turn without CPU
clocks could carry a fraction), and the same account holds of a saved state
(`SavedIsSettled`). A corollary is that the branch of `drive` that advances the
events alone is never taken with one CPU. `FramesHaveTheirClocks` needs what the
line clocks add up to (`LineClocksAddUp`): the clocks left over after the
division are spread so that each falls on one line (`RestIsOnLines`), and
`SumFunction`, a fold, is any measure that grows element by element
(`SumIsMeasure`, by induction on a least counterexample). Its invariant
`RateIsKnown` says that line clocks and the rate they were made for go together,
in a saved state too.

`SoundCommandProofs` proves `CommandsAreCounted`, `NoAckIsOrphaned`,
`HeldCommandsStartClean` and, where settings, states and the patched game are
out of use, `DeafnessEnds`. The invariant `SoundInv` has the types as far as the
argument needs them, the three properties, and that a saved state has what it
had when it was saved: without that a restore could bring back a command counted
wrong. `SoundTypeCorrect` adds the rest of the types on top of it.
`DeafnessEnds` needs its three assumptions, each cut excluded there is a way to
lose the acknowledgement, and the run `sound_restore` shows one of them.

`CartBankProofs` proves `CartTypeCorrect`, `WindowIsRight`, `FilesStayTheirOwn`
and the action properties `ProgressIsKept` and `GamesResume` for any games, banks
and bytes. `CartInv` adds to the three invariants that RAM in place is the
game's own (`RamIsOwn`; otherwise a close would save another game's RAM) and
that a saved state is one of the game it names (`SavedIsRight`). The action
properties follow from `CartInv` in the state before the step.

`CpuInterruptProofs` proves `CpuTypeCorrect`, `InterruptsAreHidden`,
`HltsAreLeft`, `HandlersAreFlat`, `ProgramIsNotStarved` and the action property
`TimerRunsOn` for any opcode lengths, masks, timers and depth. `CpuInv` has two
parts. `Sound` holds of every program: in each frame the flags are those asked,
an opcode asks for one thing at most (otherwise a skipped load could keep its
flag), and a halted CPU has nothing to skip. `Disciplined` holds where handlers
do not nest: with an interrupt's handler in progress `IFF` is 0, or 3 once EI
has begun its end, so that RETI leaves 2 and one opcode of the program passes
before the next. Both are stated of a record, not of the variable, so that each
stage of `Passes` (`SerialKeeps`, `TimerKeeps`, `CheckKeeps`) is a lemma of
its own, for the clocks of an opcode and the single one of a held bus alike
(`Periods`), and an opcode has only to leave a record that satisfies them.

`RetroFrameProofs` proves `FrameImplementsParts`: every behaviour of a frame is
one of `SoundMix` and one of `StateSession`. So the invariants are proved of
each part alone and carried over: `FrameTypeCorrect`, `WriterIsBounded`,
`BlocksAreWhole`, `ReplaysAreSingle`, `NoBlockIsLost` and `RestoresAreHonest`,
for any rates, buffer sizes and lengths. `MixInv` adds to the types that the
write index is 0 or past a whole block (`IndexIsWhole`), that the two lengths
of a frame agree (`LengthsAgree`), what a calm frame still
owes (`CalmOwesOne`; without it a second mix could not be excluded), and which
block may be on its second play (`ReplayIsLast`). `ReplaysAreSingle` rests on
the assumption that a frame has at least half as many ticks as samples; the
code's frames differ by one. `SessionInv` says that the length that
guards a restore is at least that of a saved state once the host has asked.

`FrontInputProofs` proves `InputTypeCorrect`, `NoKeyIsStuck` and `OverlayIsMute`
for any inputs. The first needs that every key has a cell and that of several
keys one comes last, for the cursor ends there. The second is proved where key 9
is left alone: it shows that the slip there is the only one. `KeysAreHeld` is
not inductive, since what a frame lets go it takes from the flags: `KeysInv` adds
that the flags of the front end agree with the key status of the machine
(`KeysAgree`), so that a frame that is not fading leaves down exactly what it
asks for (`StatusAfter`), and that is what the host holds and at most the key
under the cursor (`AskedOverHeld`). The third needs only that a machine that is on has read the pad as set last
(`PadIsRead`).

Assumptions are those the modules name (`TimersAssumption`, `DriveAssumption`
and their like); TLC evaluates them in the runs.

Liveness is only model-checked: the prover has no rule for `ENABLED` and
fairness here. Of each such property the safety half is proved, that no step
undoes what was gained and each step of the loop gains something; what TLC adds
is that the steps are taken.

| Liveness | Its safety half |
|---|---|
| `UpdateTerminates` | `UpdateMovesOn`: with delays and periods of at least a clock (`AskedAhead`; the program asks for 100 us and 1/44100 s) each callback is at a later clock, none past the goal, or leaves fewer events that are due |
| `FrameEnds` | `FramesMoveOn`: each step of a frame goes to its next line or uses up CPU clocks, and there are some to use |
| `HaltEnds` | `WakesAreKept`: a CPU that waits is woken or waits on; its request is not lost, and each HLT with the request there wakes it or counts the delay of EI down |
| `ListensAgain` | `DeafnessEnds`: a deaf chip has its acknowledgement pending |
| `MachineFollowsHost` | `InputsSettle`: with key 9 left alone, each frame of a player who settles fades the overlay, lets all keys go, or has the machine read what is held |

## 5. Plan

Built, in this order: the event manager and its abstract timers, the drive loop,
the sound chip's handshake, the cart, the CPU's interrupts, the sound buffers
and the save state buffer with the frame that composes them, and the input. What
could follow:

1. A window module for `SET_BANK` page by page, with the inclusive end of the
   RAM window (`memory.cpp:333`).
2. Save and restore of the event lists in `EventManager`.
3. The operators of the opcodes (addition with carries, DAA, skips on results)
   against arithmetic definitions.

## 6. Not modelled

The arithmetic of opcodes, pixels, wave forms, cart detection by size and
checksum, the BIOS, the drawing of overlays, settings parsing, video output, the
debugger (compiled out) and the vendored libraries: data paths and presentation,
where a model would repeat the code. A save directory that cannot be written is
left out of `CartBank`: `save_cart` ignores the failure and nothing is saved.

Most of the repository's lines are no program: some 185 thousand of the 220
thousand lines outside the vendored libraries are images converted to C arrays
(`res/*.c`), and much of the rest draws. The modules cover control, not those.
