------------------------- MODULE SoundCommandProofs -------------------------
(***************************************************************************)
(* For every set of bytes and callers, every command length and every      *)
(* overrun of the mixer: the bytes of a command are counted right, no      *)
(* acknowledgement is left over, a held command starts clean, and the chip *)
(* is deaf only until its acknowledgement, where nothing resets the event  *)
(* manager alone and the patched game does not run.                        *)
(***************************************************************************)
EXTENDS SoundCommand, TLAPS

(* The count of bytes, of the chip or of a saved chip. *)
IsCounted(cnt, ptr, par) ==
  IF cnt = 0
  THEN ptr = 0 /\ par = NoParams
  ELSE ptr > 0 /\ ptr + cnt = LengthOf(par.cmd)

(* The clean start of a held command, of the chip or of a saved chip. *)
StartsClean(wait, ptr, par, playing) ==
  ptr = 5 /\ par.cmd = CMD_PCM /\ par.p1 = 4 /\ par.p2 = 100 /\ ~wait
    => ~playing

(* What a saved state keeps. *)
SavedType ==
  saved # NULL =>
    /\ saved.paramCnt \in Nat
    /\ saved.paramPtr \in Nat
    /\ saved.waiting \in BOOLEAN
    /\ saved.pcmPlaying \in BOOLEAN
    /\ IsCounted(saved.paramCnt, saved.paramPtr, saved.params)
    /\ StartsClean(saved.waiting, saved.paramPtr, saved.params,
                   saved.pcmPlaying)

(* The inductive invariant: what a restore brings back was right when it   *)
(* was saved.                                                              *)
SoundInv ==
  /\ waiting \in BOOLEAN /\ ackPending \in BOOLEAN /\ pcmPlaying \in BOOLEAN
  /\ paramCnt \in Nat
  /\ paramPtr \in Nat
  /\ NoOrphanAck
  /\ CommandIsCounted
  /\ HeldCommandStartsClean
  /\ SavedType

(* A first byte announces a number of bytes. *)
LEMMA LengthIsNat == ASSUME NEW byte PROVE LengthOf(byte) \in Nat
BY SoundAssumption DEF LengthOf, CMD_SILENCE, CMD_NOISE, CMD_TONE, CMD_PCM

(* At power-on the chip listens and its buffer is clear. *)
LEMMA SoundInit == Init => SoundInv
<1> SUFFICES ASSUME Init
             PROVE  SoundInv
  OBVIOUS
<1>1. CommandIsCounted /\ HeldCommandStartsClean
  BY DEF Init, CommandIsCounted, HeldCommandStartsClean
<1>2. NoOrphanAck /\ SavedType
  BY DEF Init, NoOrphanAck, SavedType
<1> QED
  BY <1>1, <1>2 DEF Init, SoundInv

(* A byte, first or not, last or not, keeps the count and the handshake. *)
LEMMA WriteByteKeeps ==
  ASSUME SoundInv, NEW byte \in Bytes, NEW caller \in Callers,
         WriteByte(byte, caller)
  PROVE  SoundInv'
<1> DEFINE first == paramCnt = 0
           count == IF first THEN LengthOf(byte) ELSE paramCnt
           stored == Store(IF first THEN 0 ELSE paramPtr, byte)
           ptr == (IF first THEN 0 ELSE paramPtr) + 1
           addr == IF first THEN caller ELSE cmdAddr
           isPcm == count > 0 /\ stored.cmd = CMD_PCM
           aborts == isPcm /\ ptr = 2 /\ byte \notin {4, 6, 100}
           isEnd == /\ isPcm /\ ptr >= 7 /\ addr # StarSpeeder
                    /\ params.last = 254 /\ byte = 0
           isData == isPcm /\ ptr >= 7 /\ ~isEnd
           isLast == IsComplete(count) \/ aborts \/ isEnd
<1>1. /\ IF isLast
         THEN ClearCommand
         ELSE /\ params' = IF isPcm THEN stored
                           ELSE [NoParams EXCEPT !.cmd = stored.cmd]
              /\ paramCnt' = count - 1
              /\ paramPtr' = ptr
      /\ waiting' = ~isLast
      /\ ackPending' = ~isLast
      /\ pcmPlaying' = (~aborts /\ (pcmPlaying \/ isData))
      /\ UNCHANGED saved
  BY DEF WriteByte
<1>2. count \in Nat /\ ptr \in Nat /\ ptr > 0
  BY LengthIsNat DEF SoundInv
<1>3. SavedType'
  BY <1>1 DEF SoundInv, SavedType
<1>4. /\ waiting' \in BOOLEAN /\ ackPending' \in BOOLEAN
      /\ pcmPlaying' \in BOOLEAN
      /\ NoOrphanAck'
  BY <1>1 DEF NoOrphanAck
<1>5. CASE isLast
  <2>1. paramCnt' = 0 /\ paramPtr' = 0 /\ params' = NoParams
    BY <1>1, <1>5 DEF ClearCommand
  <2> QED
    BY <1>3, <1>4, <2>1
       DEF SoundInv, CommandIsCounted, HeldCommandStartsClean
<1>6. CASE ~isLast
  <2>1. /\ params' = IF isPcm THEN stored
                     ELSE [NoParams EXCEPT !.cmd = stored.cmd]
        /\ paramCnt' = count - 1
        /\ paramPtr' = ptr
        /\ waiting'
    BY <1>1, <1>6
  <2>2. count > 1
    BY <1>2, <1>6 DEF IsComplete
  <2>3. params'.cmd = stored.cmd
    BY <2>1 DEF NoParams
  <2>4. ptr + (count - 1) = LengthOf(stored.cmd)
    <3>1. CASE first
      <4>1. stored.cmd = byte /\ ptr = 1 /\ count = LengthOf(byte)
        BY <3>1 DEF Store
      <4> QED
        BY <1>2, <4>1
    <3>2. CASE ~first
      <4>1. paramPtr > 0 /\ paramPtr + paramCnt = LengthOf(params.cmd)
        BY <3>2 DEF SoundInv, CommandIsCounted
      <4>2. stored.cmd = params.cmd
        BY <3>2, <4>1 DEF Store, SoundInv
      <4>3. ptr = paramPtr + 1 /\ count = paramCnt
        BY <3>2
      <4> QED
        BY <4>1, <4>2, <4>3 DEF SoundInv
    <3> QED
      BY <3>1, <3>2
  <2>5. paramCnt' \in Nat \ {0} /\ paramPtr' \in Nat /\ paramPtr' > 0
    BY <1>2, <2>1, <2>2
  <2>6. CommandIsCounted'
    BY <2>1, <2>3, <2>4, <2>5 DEF CommandIsCounted
  <2> QED
    BY <1>3, <1>4, <2>1, <2>5, <2>6 DEF SoundInv, HeldCommandStartsClean
<1> QED
  BY <1>5, <1>6

(* PC3 clears the command or leaves it. *)
LEMMA EndCommandClears ==
  ASSUME EndCommand
  PROVE  /\ ClearCommand \/ UNCHANGED <<params, paramCnt, paramPtr>>
         /\ ackPending' = FALSE \/ UNCHANGED ackPending
BY DEF EndCommand

(* No step breaks the invariant. *)
LEMMA SoundNext == SoundInv /\ [Next]_vars => SoundInv'
<1> SUFFICES ASSUME SoundInv, [Next]_vars
             PROVE  SoundInv'
  OBVIOUS
<1>1. ASSUME NEW b \in Bytes, NEW c \in Callers, WriteByte(b, c)
      PROVE  SoundInv'
  BY <1>1, WriteByteKeeps
<1>2. CASE Acknowledge
  <2>1. HeldCommandStartsClean'
    BY <1>2 DEF Acknowledge, HoldsAck, HeldCommandStartsClean, command, pcm
  <2> QED
    BY <1>2, <2>1
       DEF Acknowledge, SoundInv, NoOrphanAck, CommandIsCounted, SavedType,
           command, pcm
<1>3. CASE Mix
  <2>1. PICK n \in 1 .. (IF pcmLen > pcmPtr THEN pcmLen - pcmPtr ELSE 1)
                      + Overrun :
          pcmPlaying' = (pcmPtr + n < pcmLen)
    BY <1>3 DEF Mix
  <2> QED
    BY <1>3, <2>1
       DEF Mix, SoundInv, NoOrphanAck, CommandIsCounted,
           HeldCommandStartsClean, SavedType, command
<1>4. ASSUME NEW bit \in BOOLEAN, WritePC3(bit)
      PROVE  SoundInv'
  <2>1. /\ ClearCommand \/ UNCHANGED <<params, paramCnt, paramPtr>>
        /\ ackPending' = FALSE \/ UNCHANGED ackPending
        /\ UNCHANGED <<waiting, pcmPlaying, saved>>
    BY <1>4, EndCommandClears DEF WritePC3, pcm
  <2>2. NoOrphanAck' /\ ackPending' \in BOOLEAN
    <3>1. CASE ackPending' = FALSE
      BY <3>1 DEF NoOrphanAck
    <3>2. CASE UNCHANGED ackPending
      BY <2>1, <3>2 DEF SoundInv, NoOrphanAck
    <3> QED
      BY <2>1, <3>1, <3>2
  <2>3. SavedType'
    BY <2>1 DEF SoundInv, SavedType
  <2>4. CASE ClearCommand
    <3>1. paramCnt' = 0 /\ paramPtr' = 0 /\ params' = NoParams
      BY <2>4 DEF ClearCommand
    <3>2. CommandIsCounted' /\ HeldCommandStartsClean'
      BY <3>1 DEF CommandIsCounted, HeldCommandStartsClean
    <3> QED
      BY <2>1, <2>2, <2>3, <3>1, <3>2 DEF SoundInv
  <2>5. CASE UNCHANGED <<params, paramCnt, paramPtr>>
    <3>1. CommandIsCounted' /\ HeldCommandStartsClean'
      BY <2>1, <2>5
         DEF SoundInv, CommandIsCounted, HeldCommandStartsClean
    <3> QED
      BY <2>1, <2>2, <2>3, <2>5, <3>1 DEF SoundInv
  <2> QED
    BY <2>1, <2>4, <2>5
<1>5. CASE ResetMachine
  BY <1>5
     DEF ResetMachine, ClearCommand, SoundInv, NoOrphanAck, CommandIsCounted,
         HeldCommandStartsClean, SavedType
<1>6. CASE ResetSound
  BY <1>6
     DEF ResetSound, SoundInv, NoOrphanAck, CommandIsCounted,
         HeldCommandStartsClean, SavedType, command, pcm
<1>7. CASE SaveState
  <2>1. SavedType'
    BY <1>7
       DEF SaveState, SavedType, SoundInv, CommandIsCounted, IsCounted,
           HeldCommandStartsClean, StartsClean
  <2> QED
    BY <1>7, <2>1
       DEF SaveState, SoundInv, NoOrphanAck, CommandIsCounted,
           HeldCommandStartsClean, chip, command, pcm
<1>8. CASE LoadState
  <2>1. /\ CommandIsCounted' /\ HeldCommandStartsClean'
        /\ paramCnt' \in Nat /\ paramPtr' \in Nat
        /\ waiting' \in BOOLEAN /\ pcmPlaying' \in BOOLEAN
    BY <1>8
       DEF LoadState, SavedType, SoundInv, CommandIsCounted, IsCounted,
           HeldCommandStartsClean, StartsClean
  <2> QED
    BY <1>8, <2>1 DEF LoadState, SoundInv, NoOrphanAck, SavedType
<1>9. CASE UNCHANGED vars
  BY <1>9
     DEF vars, chip, command, pcm, SoundInv, NoOrphanAck, CommandIsCounted,
         HeldCommandStartsClean, SavedType
<1> QED
  BY <1>1, <1>2, <1>3, <1>4, <1>5, <1>6, <1>7, <1>8, <1>9 DEF Next

(* The strengthened invariant holds of every behaviour of the chip. *)
THEOREM SoundInvHolds == Spec => []SoundInv
BY SoundInit, SoundNext, PTL DEF Spec

(* Whatever cuts a command short, its bytes are counted right.             *)
THEOREM CommandsAreCounted == Spec => []CommandIsCounted
BY SoundInvHolds, PTL DEF SoundInv

(* No acknowledgement is pending for a chip that does not wait for it.     *)
THEOREM NoAckIsOrphaned == Spec => []NoOrphanAck
BY SoundInvHolds, PTL DEF SoundInv

(* A held PCM command is continued only when the previous PCM has run out. *)
THEOREM HeldCommandsStartClean == Spec => []HeldCommandStartsClean
BY SoundInvHolds, PTL DEF SoundInv

(* Where settings do not change, no state is restored and the patched game *)
(* does not run, the acknowledgement of a chip that ignores bytes is still *)
(* to come: the three exceptions are the only ways to lose it.             *)
THEOREM DeafnessEnds ==
  ASSUME ~SettingsMayChange, ~StatesAreUsed, MonsterLand \notin Callers,
         NULL # MonsterLand
  PROVE  Spec => []DeafOnlyUntilAck
<1> DEFINE Inv == /\ DeafOnlyUntilAck
                  /\ saved = NULL
                  /\ cmdAddr # MonsterLand
<1>1. Init => Inv
  BY DEF Init, DeafOnlyUntilAck
<1>2. Inv /\ [Next]_vars => Inv'
  <2> SUFFICES ASSUME Inv, [Next]_vars
               PROVE  Inv'
    OBVIOUS
  <2>1. ASSUME NEW b \in Bytes, NEW c \in Callers, WriteByte(b, c)
        PROVE  Inv'
    BY <2>1 DEF WriteByte, DeafOnlyUntilAck
  <2>2. CASE Acknowledge
    BY <2>2 DEF Acknowledge, DeafOnlyUntilAck, command
  <2>3. CASE Mix
    BY <2>3 DEF Mix, DeafOnlyUntilAck, command
  <2>4. ASSUME NEW bit \in BOOLEAN, WritePC3(bit)
        PROVE  Inv'
    BY <2>4 DEF WritePC3, EndCommand, DeafOnlyUntilAck
  <2>5. CASE ResetMachine
    BY <2>5 DEF ResetMachine, DeafOnlyUntilAck
  <2>6. CASE UNCHANGED vars
    BY <2>6 DEF vars, chip, command, DeafOnlyUntilAck
  <2> QED
    BY <2>1, <2>2, <2>3, <2>4, <2>5, <2>6
       DEF Next, ResetSound, SaveState, LoadState
<1> QED
  BY <1>1, <1>2, PTL DEF Spec

(* A saved state keeps the types of what it will bring back. *)
SavedIsTyped ==
  saved # NULL =>
    /\ saved.cmdAddr \in Callers \cup {NULL}
    /\ saved.params \in Params
    /\ saved.pcmLen \in Nat
    /\ saved.pcmPtr \in Nat

(* The bytes kept are bytes of the game. *)
LEMMA StoreIsTyped ==
  ASSUME params \in Params, NEW byte \in Bytes, NEW ptr
  PROVE  Store(ptr, byte) \in Params
BY DEF Store, Params

(* So is what a command without data keeps of them. *)
LEMMA NoParamsIsTyped ==
  /\ NoParams \in Params
  /\ \A p \in Params : [NoParams EXCEPT !.cmd = p.cmd] \in Params
BY DEF NoParams, Params

(* A byte keeps the types. *)
LEMMA WriteByteIsTyped ==
  ASSUME TypeOK, NEW byte \in Bytes, NEW caller \in Callers,
         WriteByte(byte, caller)
  PROVE  /\ cmdAddr' \in Callers \cup {NULL}
         /\ params' \in Params
         /\ {pcmLen', pcmPtr'} \subseteq Nat
<1>1. cmdAddr' = (IF paramCnt = 0 THEN caller ELSE cmdAddr)
  BY DEF WriteByte
<1>2. \/ params' = NoParams
      \/ \E ptr : \/ params' = Store(ptr, byte)
                  \/ params' = [NoParams EXCEPT !.cmd = Store(ptr, byte).cmd]
  BY DEF WriteByte, ClearCommand
<1>3. pcmLen' \in {0, pcmLen, pcmLen + 1} /\ pcmPtr' \in {0, pcmPtr}
  BY DEF WriteByte
<1>4. params' \in Params
  BY <1>2, StoreIsTyped, NoParamsIsTyped DEF TypeOK
<1> QED
  BY <1>1, <1>3, <1>4 DEF TypeOK

(* The chip keeps its types, for any bytes, callers and lengths, and what  *)
(* a restore brings back has them too.                                     *)
THEOREM SoundTypeCorrect == Spec => []TypeOK
<1> DEFINE Typed == TypeOK /\ SavedIsTyped
<1>1. Init => Typed
  <2> SUFFICES ASSUME Init
               PROVE  TypeOK /\ SavedIsTyped
    OBVIOUS
  <2>1. params \in Params
    BY NoParamsIsTyped DEF Init
  <2>2. {waiting, ackPending, pcmPlaying, pc3} \subseteq BOOLEAN
    BY DEF Init
  <2>3. SavedIsTyped
    BY DEF Init, SavedIsTyped
  <2> QED
    BY <2>1, <2>2, <2>3 DEF Init, TypeOK
<1>2. SoundInv /\ SoundInv' /\ Typed /\ [Next]_vars => Typed'
  <2> SUFFICES ASSUME SoundInv, SoundInv', TypeOK, SavedIsTyped, [Next]_vars
               PROVE  TypeOK' /\ SavedIsTyped'
    OBVIOUS
  <2>0. /\ waiting' \in BOOLEAN /\ ackPending' \in BOOLEAN
        /\ pcmPlaying' \in BOOLEAN
        /\ paramCnt' \in Nat /\ paramPtr' \in Nat
    BY DEF SoundInv
  <2>1. ASSUME NEW b \in Bytes, NEW c \in Callers, WriteByte(b, c)
        PROVE  TypeOK' /\ SavedIsTyped'
    <3>1. UNCHANGED <<pc3, saved>>
      BY <2>1 DEF WriteByte
    <3> QED
      BY <2>0, <2>1, <3>1, WriteByteIsTyped DEF TypeOK, SavedIsTyped
  <2>2. CASE Acknowledge \/ ResetSound \/ UNCHANGED vars
    BY <2>0, <2>2
       DEF Acknowledge, ResetSound, vars, chip, command, pcm, TypeOK, SavedIsTyped
  <2>3. CASE Mix
    <3>1. pcmPtr' \in Nat
      BY <2>3, SoundAssumption DEF Mix, TypeOK
    <3> QED
      BY <2>0, <2>3, <3>1 DEF Mix, command, TypeOK, SavedIsTyped
  <2>4. ASSUME NEW bit \in BOOLEAN, WritePC3(bit)
        PROVE  TypeOK' /\ SavedIsTyped'
    <3>1. params' \in Params
      BY <2>4, EndCommandClears, NoParamsIsTyped DEF WritePC3, ClearCommand, TypeOK
    <3> QED
      BY <2>0, <2>4, <3>1 DEF WritePC3, pcm, TypeOK, SavedIsTyped
  <2>5. CASE ResetMachine
    BY <2>0, <2>5, NoParamsIsTyped DEF ResetMachine, ClearCommand, TypeOK, SavedIsTyped
  <2>6. CASE SaveState
    <3>1. SavedIsTyped'
      BY <2>6 DEF SaveState, SavedIsTyped, TypeOK
    <3> QED
      BY <2>6, <3>1 DEF SaveState, chip, command, pcm, TypeOK
  <2>7. CASE LoadState
    <3>1. /\ cmdAddr' \in Callers \cup {NULL}
          /\ params' \in Params
          /\ {pcmLen', pcmPtr'} \subseteq Nat
          /\ UNCHANGED <<pc3, saved>>
      BY <2>7 DEF LoadState, SavedIsTyped
    <3> QED
      BY <2>0, <3>1 DEF TypeOK, SavedIsTyped
  <2> QED
    BY <2>1, <2>2, <2>3, <2>4, <2>5, <2>6, <2>7 DEF Next
<1> HIDE DEF Typed
<1>3. Typed => TypeOK
  BY DEF Typed
<1> QED
  BY <1>1, <1>2, <1>3, SoundInvHolds, PTL DEF Spec
=============================================================================
