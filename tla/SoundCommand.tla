---------------------------- MODULE SoundCommand ----------------------------
(***************************************************************************)
(* The command handshake of the sound chip (vm/scv/sound.cpp). The game    *)
(* writes a command byte by byte; each byte but the last is acknowledged   *)
(* by INTF1, 100 us later, by an event of the event manager, and until     *)
(* then the chip ignores what is written. Raising PC3 ends the command in  *)
(* progress. The machine may be reset, saved and restored, and settings    *)
(* read again reset the event manager alone (OSD::reset_sound).            *)
(***************************************************************************)
EXTENDS Integers

CONSTANTS
  Bytes,       (* bytes the game writes                                    *)
  Callers,     (* where the game writes from: cmd_addr, as told apart      *)
  NoiseLen,    (* bytes of CMD_NOISE: 10 in the code                       *)
  ToneLen,     (* bytes of CMD_TONE: 4 in the code                         *)
  MaxParam,    (* bytes of a CMD_PCM at most: 0x8000 in the code           *)
  Overrun,     (* how far past its end one mix runs a PCM, at most         *)
  SettingsMayChange, (* whether settings change while a game runs          *)
  StatesAreUsed,     (* whether the player saves and restores states       *)
  NULL

CMD_SILENCE == 0
CMD_NOISE == 1
CMD_TONE == 2
CMD_PCM == 31

(* The two callers the code knows: Y2 Monster Land writes from 0x8402 and  *)
(* Star Speeder from 0xa765.                                               *)
MonsterLand == "0x8402"
StarSpeeder == "0xa765"

ASSUME SoundAssumption ==
  /\ Bytes \subseteq 0 .. 255
  /\ {NoiseLen, ToneLen, MaxParam} \subseteq Nat \ {0, 1}
  /\ Overrun \in Nat
  /\ SettingsMayChange \in BOOLEAN
  /\ StatesAreUsed \in BOOLEAN

VARIABLES
  waiting,    (* register_id # -1: the chip waits to acknowledge a byte    *)
  ackPending, (* the acknowledge event is registered in the event manager  *)
  cmdAddr,    (* who wrote the first byte of the command                   *)
  paramCnt,   (* bytes of the command still to come                        *)
  paramPtr,   (* bytes of the command received                             *)
  params,     (* the bytes the code looks at: 0 and, of a PCM, 1, 2 and the   *)
              (* latest                                                       *)
  pcmPlaying, (* pcm.count # 0                                             *)
  pcmLen,     (* pcm_len, a byte of PCM counted 1                          *)
  pcmPtr,     (* pcm.ptr, likewise                                         *)
  pc3,        (* bit 3 of the port C latch                                 *)
  saved       (* what a save state kept, NULL when there is none           *)

command == <<cmdAddr, paramCnt, paramPtr, params>>
pcm == <<pcmPlaying, pcmLen, pcmPtr>>
chip == <<waiting, ackPending, command, pcm>>
vars == <<chip, pc3, saved>>

NoParams == [cmd |-> 0, p1 |-> 0, p2 |-> 0, last |-> 0]

(* The parameter count a first byte sets: none for an unknown command. *)
LengthOf(byte) ==
  CASE byte = CMD_SILENCE -> 1
    [] byte = CMD_NOISE -> NoiseLen
    [] byte = CMD_TONE -> ToneLen
    [] byte = CMD_PCM -> MaxParam
    [] OTHER -> 0

(* params[ptr] := byte, of what is kept of params. *)
Store(ptr, byte) ==
  [cmd |-> IF ptr = 0 THEN byte ELSE params.cmd,
   p1 |-> IF ptr = 1 THEN byte ELSE params.p1,
   p2 |-> IF ptr = 2 THEN byte ELSE params.p2,
   last |-> byte]

Init ==
  /\ waiting = FALSE
  /\ ackPending = FALSE
  /\ cmdAddr = NULL
  /\ paramCnt = 0
  /\ paramPtr = 0
  /\ params = NoParams
  /\ pcmPlaying = FALSE
  /\ pcmLen = 0
  /\ pcmPtr = 0
  /\ pc3 = FALSE
  /\ saved = NULL

(* Mutant: the bytes still to come are not forgotten. *)
ClearParamsOnly ==
  /\ params' = NoParams
  /\ paramPtr' = 0
  /\ UNCHANGED paramCnt

ClearCommand ==
  /\ params' = NoParams
  /\ paramCnt' = 0
  /\ paramPtr' = 0

(* Mutant: the counter of an unknown command, 0, is counted down too. *)
IsCountedDown(count) == count = 1

(* A command whose count runs out is executed; an unknown one has none. *)
IsComplete(count) == count <= 1

(* SOUND::write_data8. A byte that completes its command, or ends a PCM    *)
(* command early, is executed at once and not acknowledged. Of what the    *)
(* commands do to the channels only the PCM one is kept.                   *)
WriteByte(byte, caller) ==
  /\ ~waiting
  /\ LET first == paramCnt = 0
         count == IF first THEN LengthOf(byte) ELSE paramCnt
         stored == Store(IF first THEN 0 ELSE paramPtr, byte)
         ptr == (IF first THEN 0 ELSE paramPtr) + 1
         addr == IF first THEN caller ELSE cmdAddr
         isPcm == count > 0 /\ stored.cmd = CMD_PCM
         \* the patches for Kung-Fu Road and Star Speeder end the command
         aborts == isPcm /\ ptr = 2 /\ byte \notin {4, 6, 100}
         isEnd == /\ isPcm /\ ptr >= 7 /\ addr # StarSpeeder
                  /\ params.last = 254 /\ byte = 0
         isData == isPcm /\ ptr >= 7 /\ ~isEnd
         isLast == IsComplete(count) \/ aborts \/ isEnd
         isNewPcm == first /\ byte = CMD_PCM
     IN  /\ cmdAddr' = addr
         /\ IF isLast
            THEN ClearCommand
            ELSE /\ params' = IF isPcm THEN stored
                              ELSE [NoParams EXCEPT !.cmd = stored.cmd]
                 /\ paramCnt' = count - 1
                 /\ paramPtr' = ptr
         /\ waiting' = ~isLast
         /\ ackPending' = ~isLast
         /\ pcmLen' = IF isNewPcm THEN 0
                      ELSE IF isData THEN pcmLen + 1 ELSE pcmLen
         /\ pcmPtr' = IF isNewPcm \/ aborts THEN 0 ELSE pcmPtr
         /\ pcmPlaying' = (~aborts /\ (pcmPlaying \/ isData))
  /\ UNCHANGED <<pc3, saved>>

(* Mutant: the acknowledgement is held one byte late. *)
HoldsSixthAck ==
  /\ pcmPlaying
  /\ paramPtr = 6
  /\ params.cmd = CMD_PCM /\ params.p1 = 4 /\ params.p2 = 100

(* Mutant: the acknowledgement is held whether or not a PCM plays. *)
HoldsAckForever ==
  /\ paramPtr = 5
  /\ params.cmd = CMD_PCM /\ params.p1 = 4 /\ params.p2 = 100

(* A PCM command of a given form holds its fifth acknowledgement back, by  *)
(* registering the event again, while the previous PCM plays.              *)
HoldsAck ==
  /\ pcmPlaying
  /\ paramPtr = 5
  /\ params.cmd = CMD_PCM /\ params.p1 = 4 /\ params.p2 = 100

(* Mutant: the acknowledgement is registered as a loop event. *)
AcknowledgeOverAgain ==
  /\ ackPending
  /\ ~HoldsAck
  /\ waiting' = FALSE
  /\ UNCHANGED <<ackPending, command, pcm, pc3, saved>>

(* SOUND::event_callback. The INTF1 it raises is the CPU's. *)
Acknowledge ==
  /\ ackPending
  /\ ~HoldsAck
  /\ ackPending' = FALSE
  /\ waiting' = FALSE
  /\ UNCHANGED <<command, pcm, pc3, saved>>

(* SOUND::mix. The PCM stops where the reader reaches the end of what was  *)
(* received, and the reader moves on, past the end, to the end of the mix. *)
(* A mix too short to reach the next PCM bit changes nothing here.         *)
Mix ==
  /\ pcmPlaying
  /\ \E n \in 1 .. (IF pcmLen > pcmPtr THEN pcmLen - pcmPtr ELSE 1) + Overrun :
       /\ pcmPtr' = pcmPtr + n
       /\ pcmPlaying' = (pcmPtr + n < pcmLen)
  /\ UNCHANGED <<waiting, ackPending, command, pcmLen, pc3, saved>>

(* Mutant: PC3 cancels the acknowledgement for every game. *)
EndCommandCancels ==
  /\ ackPending' = FALSE
  /\ ClearCommand

(* SOUND::write_io8 with PC3 raised: for Monster Land the acknowledge event *)
(* is cancelled, for the others it is left to come.                        *)
EndCommand ==
  IF cmdAddr = MonsterLand
  THEN IF params.cmd = CMD_PCM /\ paramPtr > 5
       THEN UNCHANGED <<params, paramCnt, paramPtr, ackPending>>
       ELSE /\ ackPending' = FALSE
            /\ ClearCommand
  ELSE /\ UNCHANGED ackPending
       /\ IF params.cmd # 0
          THEN ClearCommand
          ELSE UNCHANGED <<params, paramCnt, paramPtr>>

(* IO::write_io8: the chip is told when the latched bit changes. *)
WritePC3(bit) ==
  /\ pc3 # bit
  /\ pc3' = bit
  /\ IF bit
     THEN EndCommand
     ELSE UNCHANGED <<params, paramCnt, paramPtr, ackPending>>
  /\ UNCHANGED <<waiting, cmdAddr, pcm, saved>>

(* VM::reset: the event manager cancels, the CPU, the port and the chip    *)
(* start over. SOUND::reset takes the PCM reader back to the start of what *)
(* was received and leaves what was received.                              *)
ResetMachine ==
  /\ waiting' = FALSE
  /\ ackPending' = FALSE
  /\ cmdAddr' = NULL
  /\ ClearCommand
  /\ pcmPlaying' = FALSE
  /\ pcmPtr' = 0
  /\ UNCHANGED pcmLen
  /\ pc3' = FALSE
  /\ UNCHANGED saved

(* VM::reset_sound, called when settings are read or saved: it resets the  *)
(* event manager, which cancels the acknowledgement, and not the chip.     *)
ResetSound ==
  /\ SettingsMayChange
  /\ ackPending' = FALSE
  /\ UNCHANGED <<waiting, command, pcm, pc3, saved>>

(* The chip keeps register_id. The event manager's events are in the state *)
(* too; a restore cancels them at once, below.                             *)
SaveState ==
  /\ StatesAreUsed
  /\ saved' = [waiting |-> waiting, cmdAddr |-> cmdAddr,
               paramCnt |-> paramCnt, paramPtr |-> paramPtr,
               params |-> params, pcmPlaying |-> pcmPlaying,
               pcmLen |-> pcmLen, pcmPtr |-> pcmPtr]
  /\ UNCHANGED <<chip, pc3>>

(* RetroRun restores the state and reads the settings again, which resets  *)
(* the sound. IO::load_state does not read the port latches back: pc3      *)
(* stays.                                                                  *)
LoadState ==
  /\ saved # NULL
  /\ waiting' = saved.waiting
  /\ ackPending' = FALSE
  /\ cmdAddr' = saved.cmdAddr
  /\ paramCnt' = saved.paramCnt
  /\ paramPtr' = saved.paramPtr
  /\ params' = saved.params
  /\ pcmPlaying' = saved.pcmPlaying
  /\ pcmLen' = saved.pcmLen
  /\ pcmPtr' = saved.pcmPtr
  /\ UNCHANGED <<pc3, saved>>

Next ==
  \/ \E b \in Bytes, c \in Callers : WriteByte(b, c)
  \/ Acknowledge
  \/ Mix
  \/ \E bit \in BOOLEAN : WritePC3(bit)
  \/ ResetMachine
  \/ ResetSound
  \/ SaveState
  \/ LoadState

Spec == Init /\ [][Next]_vars

(* While frames are run, the event manager fires what is due and the mixer *)
(* event keeps mixing.                                                     *)
FairSpec == Spec /\ WF_vars(Acknowledge) /\ WF_vars(Mix)

----------------------------------------------------------------------------
Params == [cmd : Bytes \cup {0}, p1 : Bytes \cup {0}, p2 : Bytes \cup {0},
           last : Bytes \cup {0}]

(* Type invariant of the chip. *)
TypeOK ==
  /\ {waiting, ackPending, pcmPlaying, pc3} \subseteq BOOLEAN
  /\ cmdAddr \in Callers \cup {NULL}
  /\ paramCnt \in Nat
  /\ paramPtr \in Nat
  /\ params \in Params
  /\ {pcmLen, pcmPtr} \subseteq Nat

(* An acknowledgement is only ever pending for a chip that waits for it:   *)
(* however resets, restores and PC3 cut in, no INTF1 comes from an event   *)
(* the chip has forgotten.                                                 *)
NoOrphanAck == ackPending => waiting

(* The parameters are counted right whatever cuts a command short: what    *)
(* was received and what is to come make up the length of the command that *)
(* the first byte named, so a command never runs over params[MAX_PARAM]    *)
(* nor into the next one, and between commands the buffer is clear.        *)
CommandIsCounted ==
  IF paramCnt = 0
  THEN paramPtr = 0 /\ params = NoParams
  ELSE paramPtr > 0 /\ paramPtr + paramCnt = LengthOf(params.cmd)

(* "ignore new commands before return ack" (sound.cpp:43): when the chip   *)
(* ignores what is written, the acknowledgement is still to come.          *)
DeafOnlyUntilAck == waiting => ackPending

(* "wait previous pcm" (sound.cpp:270): when the chip listens for the sixth *)
(* byte of the command it holds back, nothing of an earlier PCM is played, *)
(* so the new command's data never joins the old one's.                    *)
HeldCommandStartsClean ==
  /\ paramPtr = 5
  /\ params.cmd = CMD_PCM /\ params.p1 = 4 /\ params.p2 = 100
  /\ ~waiting
  => ~pcmPlaying

(* The chip always comes to listen again: the PCM that a held              *)
(* acknowledgement waits for runs out.                                     *)
ListensAgain == waiting ~> ~waiting
=============================================================================
