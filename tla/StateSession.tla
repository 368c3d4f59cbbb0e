---------------------------- MODULE StateSession ----------------------------
(***************************************************************************)
(* The save state buffer (state.cpp) and the libretro calls that share it  *)
(* (emuscv.cpp:3566-3632). The host asks for the size of a state, saves    *)
(* and restores between frames; a restore only copies the host's data, and *)
(* the next frame applies it. One buffer and one length serve all three.   *)
(* A state in the buffer is known by whose it is and whether all of it is  *)
(* there.                                                                  *)
(***************************************************************************)
EXTENDS Integers

CONSTANTS
  States,    (* states the host keeps                                      *)
  Lengths,   (* lengths of data the host may hand over                     *)
  SaveSize,  (* length of a state as saved: paths as long as they are      *)
  MaxSize,   (* length announced: paths as long as they may be             *)
  Growth,    (* bytes IO::load_state writes where it should read: 3        *)
  MACHINE    (* the buffer holds the machine as it was when last asked     *)

ASSUME SessionAssumption ==
  /\ Lengths \subseteq Nat
  /\ SaveSize \in Nat
  /\ MaxSize \in Nat
  /\ SaveSize <= MaxSize
  /\ Growth \in Nat
  /\ MACHINE \notin States

VARIABLES
  dataSize,     (* data_current_size                                       *)
  readyToLoad,  (* ready_to_load                                           *)
  content,      (* what the buffer starts with                             *)
  promised,     (* history: the state last accepted from the host          *)
  asked         (* history: the host has asked for the size or saved       *)

sessionVars == <<dataSize, readyToLoad, content, promised, asked>>

SessionInit ==
  /\ dataSize = 0
  /\ readyToLoad = FALSE
  /\ content = [state |-> MACHINE, whole |-> FALSE]
  /\ promised = MACHINE
  /\ asked = FALSE

(* Mutant: STATE::Init leaves ready_to_load as it was. *)
PutMachineStaysReady(size) ==
  /\ readyToLoad' = readyToLoad
  /\ dataSize' = size
  /\ content' = [state |-> MACHINE, whole |-> TRUE]
  /\ asked' = TRUE
  /\ UNCHANGED promised

(* STATE::Init and EMU::save_state: a restore that waits is dropped. *)
PutMachine(size) ==
  /\ readyToLoad' = FALSE
  /\ dataSize' = size
  /\ content' = [state |-> MACHINE, whole |-> TRUE]
  /\ asked' = TRUE
  /\ UNCHANGED promised

(* RetroSaveStateSize, for retro_serialize_size and retro_get_memory_size *)
SizeQuery == PutMachine(MaxSize)

(* RetroSaveState: refused, after the buffer has changed, when the host's  *)
(* data is too short.                                                      *)
SaveState == PutMachine(SaveSize)

(* RetroLoadState: length bytes are copied over the start of the buffer. *)
LoadState(s, length) ==
  /\ length >= dataSize
  /\ content' = [state |-> s, whole |-> length >= SaveSize]
  /\ readyToLoad' = TRUE
  /\ promised' = s
  /\ UNCHANGED <<dataSize, asked>>

(* The start of RetroRun: the waiting state is restored, its length grows  *)
(* by what IO::load_state wrote. `through` says whether the restore got as *)
(* far as the ports.                                                       *)
ApplyState(through) ==
  /\ readyToLoad
  /\ readyToLoad' = FALSE
  /\ dataSize' = IF through THEN dataSize + Growth ELSE dataSize
  /\ UNCHANGED <<content, promised, asked>>

(* The calls of a host that has asked for the size, or saved, before it    *)
(* restores for the first time, as libretro hosts do.                      *)
HostCall ==
  \/ SizeQuery
  \/ SaveState
  \/ asked /\ \E s \in States, length \in Lengths : LoadState(s, length)

SessionNext ==
  \/ HostCall
  \/ \E through \in BOOLEAN : ApplyState(through)

SessionSpec == SessionInit /\ [][SessionNext]_sessionVars
-----------------------------------------------------------------------------
(* The type invariant; dataSize has no bound, for a restore adds to it. *)
SessionTypeOK ==
  /\ dataSize \in Nat
  /\ readyToLoad \in BOOLEAN
  /\ content \in [state : States \cup {MACHINE}, whole : BOOLEAN]
  /\ promised \in States \cup {MACHINE}
  /\ asked \in BOOLEAN

(* What the next frame will restore is the state the host handed over      *)
(* last, all of it: a size query or a save in between puts the machine's   *)
(* own data in the same buffer, and the length that guards the copy is     *)
(* that of whatever was there.                                             *)
RestoresWhatWasGiven ==
  readyToLoad => content = [state |-> promised, whole |-> TRUE]
=============================================================================
