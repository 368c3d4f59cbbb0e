------------------------------ MODULE SoundMix ------------------------------
(***************************************************************************)
(* The two sample buffers between the sound chip and the host              *)
(* (vm/event.cpp). A loop event ticks once per sample; when mix_counter    *)
(* has reached the samples of a frame, it mixes a whole frame into the     *)
(* buffer being written. create_sound, called before each frame is driven, *)
(* swaps the buffers if a frame has been mixed; the front end plays the    *)
(* other one when the frame is over (emuscv.cpp:2700). The machine clock   *)
(* and the frames do not agree to the sample, the frame rate may change,   *)
(* and resets and restores clear the buffers between frames.               *)
(* touch_sound mixes nothing: sound_strict_rendering is TRUE and nothing   *)
(* sets it otherwise.                                                      *)
(***************************************************************************)
EXTENDS Integers

CONSTANTS
  Rates,  (* samples of a frame, one for each frame rate: 735 and 882      *)
  Size,   (* samples a buffer has room for: those of the lowest rate       *)
  Ticks   (* ticks of the mixer event a frame at that rate may contain     *)

ASSUME MixAssumption ==
  /\ Size \in Nat
  /\ Rates \subseteq 1 .. Size
  /\ Ticks \in [Rates -> SUBSET Nat]
  /\ \A s \in Rates : \A t \in Ticks[s] : 2 * t >= s

VARIABLES
  driving,       (* EMU::run drives a frame; else it is the host's turn    *)
  left,          (* ticks left in that frame                               *)
  mixCounter,
  soundSamples,  (* sound_samples of the event manager                     *)
  frontSamples,  (* sound_buffer_samples of the front end                  *)
  writeIndex,
  write,         (* buffer 1 or 2: sound_buffer_write                      *)
  read,          (* sound_buffer_read                                      *)
  block,         (* samples in the block each buffer starts with, 0 when   *)
                 (* the buffer is silent                                   *)
  plays,         (* history: frames that have played it                    *)
  calm           (* history: the frame begun owes one mix at most          *)

mixVars == <<driving, left, mixCounter, soundSamples, frontSamples, writeIndex,
             write, read, block, plays, calm>>

Buffers == {1, 2}
Other(b) == 3 - b

MixInit ==
  /\ driving = FALSE
  /\ left = 0
  /\ mixCounter = 1
  /\ soundSamples \in Rates
  /\ frontSamples = soundSamples
  /\ writeIndex = 0
  /\ write = 1
  /\ read = 2
  /\ block = [b \in Buffers |-> 0]
  /\ plays = [b \in Buffers |-> 0]
  /\ calm = TRUE

(* Mutant: what was mixed for the frame rate before is kept. *)
KeepBuffers(s) ==
  /\ soundSamples' = s
  /\ writeIndex' = 0
  /\ UNCHANGED <<write, read, block, plays>>

(* The sound part of EVENT::reset: mix_counter is left as it is. *)
ClearSound(s) ==
  /\ soundSamples' = s
  /\ writeIndex' = 0
  /\ write' = 1
  /\ read' = 2
  /\ block' = [b \in Buffers |-> 0]
  /\ plays' = [b \in Buffers |-> 0]

(* A reset of the machine, or a cart opened or closed, between frames: the *)
(* samples of a frame follow the configured rate again.                    *)
MachineReset ==
  /\ ~driving
  /\ ClearSound(frontSamples)
  /\ UNCHANGED <<driving, left, mixCounter, frontSamples, calm>>

(* Settings are read or saved: reset_sound, then the front end's copy. *)
ChangeSettings(s) ==
  /\ ~driving
  /\ ClearSound(s)
  /\ frontSamples' = s
  /\ UNCHANGED <<driving, left, mixCounter, calm>>

(* A state is restored and the settings are read again. The restore stops  *)
(* at the first device that finds a mismatch: `reached` says whether the   *)
(* event manager has had its turn.                                         *)
RestoreSound(s, reached) ==
  /\ ~driving
  /\ mixCounter' = IF reached THEN 1 ELSE mixCounter
  /\ ClearSound(s)
  /\ frontSamples' = s
  /\ UNCHANGED <<driving, left, calm>>

(* Mutant: the write buffer is not the one that is free now. *)
SwapReadOnly ==
  IF writeIndex >= soundSamples
  THEN read' = write /\ writeIndex' = 0 /\ UNCHANGED write
  ELSE UNCHANGED <<read, write, writeIndex>>

(* Mutant: the swap leaves the write index where it was. *)
SwapKeepsIndex ==
  IF writeIndex >= soundSamples
  THEN read' = write /\ write' = Other(write) /\ UNCHANGED writeIndex
  ELSE UNCHANGED <<read, write, writeIndex>>

(* EVENT::create_sound *)
CreateSound ==
  IF writeIndex >= soundSamples
  THEN read' = write /\ write' = Other(write) /\ writeIndex' = 0
  ELSE UNCHANGED <<read, write, writeIndex>>

(* Mutant: every frame counts its samples from the start. *)
BeginFrameRecounts(t) ==
  /\ ~driving
  /\ driving' = TRUE
  /\ left' = t
  /\ CreateSound
  /\ calm' = (mixCounter + t <= 2 * soundSamples)
  /\ mixCounter' = 1
  /\ UNCHANGED <<soundSamples, frontSamples, block, plays>>

(* EMU::run: update_sound, and a frame with t ticks of the mixer begins. *)
BeginFrame(t) ==
  /\ ~driving
  /\ driving' = TRUE
  /\ left' = t
  /\ CreateSound
  /\ calm' = (mixCounter + t <= 2 * soundSamples)
  /\ UNCHANGED <<mixCounter, soundSamples, frontSamples, block, plays>>

MixIsDue == mixCounter >= soundSamples

(* mix_sound: a block at the index; one that does not start its buffer is  *)
(* never played.                                                           *)
MixSound ==
  /\ writeIndex' = writeIndex + soundSamples
  /\ block' = IF writeIndex = 0 THEN [block EXCEPT ![write] = soundSamples]
                                ELSE block
  /\ plays' = IF writeIndex = 0 THEN [plays EXCEPT ![write] = 0] ELSE plays

(* Mutant: what was mixed is not taken off the counter. *)
TickKeepsCounter ==
  /\ left > 0
  /\ left' = left - 1
  /\ IF MixIsDue THEN MixSound ELSE UNCHANGED <<writeIndex, block, plays>>
  /\ mixCounter' = mixCounter + 1
  /\ UNCHANGED <<driving, soundSamples, frontSamples, write, read, calm>>

(* EVENT::event_callback: one sample's time has passed. *)
Tick ==
  /\ left > 0
  /\ left' = left - 1
  /\ IF MixIsDue
     THEN MixSound /\ mixCounter' = mixCounter - soundSamples + 1
     ELSE mixCounter' = mixCounter + 1 /\ UNCHANGED <<writeIndex, block, plays>>
  /\ UNCHANGED <<driving, soundSamples, frontSamples, write, read, calm>>

(* The frame is over and the front end plays frontSamples samples of the   *)
(* read buffer. History counts to 3, which no block should reach.          *)
Play ==
  /\ driving
  /\ left = 0
  /\ driving' = FALSE
  /\ plays' = IF plays[read] < 3 THEN [plays EXCEPT ![read] = @ + 1] ELSE plays
  /\ UNCHANGED <<left, mixCounter, soundSamples, frontSamples, writeIndex,
                 write, read, block, calm>>

MixNext ==
  \/ MachineReset
  \/ \E s \in Rates : ChangeSettings(s)
  \/ \E s \in Rates, reached \in BOOLEAN : RestoreSound(s, reached)
  \/ \E t \in Ticks[soundSamples] : BeginFrame(t)
  \/ Tick
  \/ Play

MixSpec == MixInit /\ [][MixNext]_mixVars
-----------------------------------------------------------------------------
(* The type invariant: mix_counter never outgrows a buffer, even where a   *)
(* frame of fewer samples follows one of more.                             *)
MixTypeOK ==
  /\ driving \in BOOLEAN
  /\ left \in Nat
  /\ mixCounter \in 1 .. Size
  /\ soundSamples \in Rates
  /\ frontSamples \in Rates
  /\ writeIndex \in Nat
  /\ write \in Buffers
  /\ read \in Buffers
  /\ block \in [Buffers -> Nat]
  /\ plays \in [Buffers -> 0 .. 3]
  /\ calm \in BOOLEAN

(* In a frame that owes one mix at most, the mixer stays within the        *)
(* buffer: mix_sound checks nothing, so the swap of create_sound and the   *)
(* count of event_callback must have made room.                            *)
WriterStaysInBuffer == calm => writeIndex <= Size

(* What the front end plays is silence or a block of as many samples as it *)
(* takes: the event manager and the front end keep the length of a frame   *)
(* each on its own, and a change of rate comes between a mix and its play. *)
PlayedIsWhole == driving => block[read] \in {0, frontSamples}

(* No block is mixed over one that the host has not heard yet, and in a    *)
(* calm frame none is put where it is never played.                        *)
BlocksAreHeard ==
  [][ writeIndex' > writeIndex =>
        /\ writeIndex = 0 => (block[write] = 0 \/ plays[write] > 0)
        /\ calm => writeIndex = 0 ]_mixVars

(* A frame with fewer ticks than samples may mix nothing, and the block    *)
(* before is played again, once: the frame after it mixes.                 *)
NotPlayedThrice == \A b \in Buffers : block[b] # 0 => plays[b] <= 2
=============================================================================
