-------------------------- MODULE RetroFrameProofs --------------------------
(***************************************************************************)
(* SoundMix and StateSession are proved on their own; a step of RetroFrame *)
(* is a step of each or leaves it alone, so what holds of either holds of  *)
(* the frame.                                                              *)
(***************************************************************************)
EXTENDS RetroFrame, TLAPS

(* The mixer is either at the start of its buffer or past a whole block. *)
IndexIsWhole ==
  /\ writeIndex = 0 \/ writeIndex >= soundSamples
  /\ writeIndex # 0 => plays[write] = 0
  /\ writeIndex = 0 /\ block[write] # 0 => plays[write] \in 1 .. 2

(* A block in a buffer has the samples of the frames now driven. *)
LengthsAgree ==
  /\ frontSamples = soundSamples
  /\ \A b \in Buffers : block[b] \in {0, soundSamples}

(* What a calm frame still owes: one mix at most, none after one. *)
CalmOwesOne ==
  calm =>
    \/ writeIndex = 0 /\ (driving => mixCounter + left <= 2 * soundSamples)
    \/ writeIndex = soundSamples /\ (driving => mixCounter + left <= soundSamples)

(* A block played once, with nothing mixed since, is played in a frame     *)
(* that will still mix.                                                    *)
ReplayIsLast ==
  block[read] # 0 =>
    /\ driving => plays[read] \in 0 .. 1
    /\ ~driving => plays[read] \in 1 .. 2
    /\ ~driving /\ writeIndex = 0 =>
         plays[read] = 1 /\ 2 * mixCounter >= soundSamples + 2
    /\ driving /\ writeIndex = 0 =>
         \/ plays[read] = 0 /\ 2 * (mixCounter + left) >= soundSamples + 2
         \/ mixCounter + left >= soundSamples + 1 /\ left >= 1

MixInv ==
  /\ MixTypeOK
  /\ left > 0 => driving
  /\ write # read
  /\ IndexIsWhole
  /\ LengthsAgree
  /\ CalmOwesOne
  /\ ReplayIsLast

(* The buffers start silent, and nothing is owed before a frame begins. *)
LEMMA MixInvInit == MixInit => MixInv
<1> SUFFICES ASSUME MixInit PROVE MixInv
  OBVIOUS
<1>1. soundSamples \in Nat /\ soundSamples >= 1 /\ soundSamples <= Size
  BY MixAssumption DEF MixInit
<1>2. MixTypeOK
  <2>1. block \in [Buffers -> Nat]
    BY DEF MixInit
  <2>2. plays \in [Buffers -> 0 .. 3]
    BY DEF MixInit
  <2>3. /\ driving \in BOOLEAN /\ calm \in BOOLEAN /\ left \in Nat
        /\ soundSamples \in Rates /\ frontSamples \in Rates
        /\ writeIndex \in Nat /\ write \in Buffers /\ read \in Buffers
    BY DEF MixInit, Buffers
  <2>4. mixCounter \in 1 .. Size
    BY <1>1, MixAssumption DEF MixInit
  <2> QED
    BY <2>1, <2>2, <2>3, <2>4 DEF MixTypeOK
<1>3. IndexIsWhole /\ LengthsAgree /\ CalmOwesOne /\ ReplayIsLast
  BY <1>1 DEF MixInit, IndexIsWhole, LengthsAgree, CalmOwesOne, ReplayIsLast,
     Buffers
<1> QED
  BY <1>2, <1>3 DEF MixInv, MixInit

(* Cleared buffers satisfy the invariant, whatever mix_counter is. *)
LEMMA ClearedKeepsInv ==
  ASSUME MixInv, NEW s \in Rates, ~driving, ClearSound(s), frontSamples' = s,
         UNCHANGED <<driving, left, calm>>, mixCounter' \in {1, mixCounter}
  PROVE  MixInv'
<1>1. s \in Nat /\ s >= 1 /\ s <= Size /\ Size \in Nat
  BY MixAssumption
<1>2. MixTypeOK'
  BY <1>1 DEF MixInv, MixTypeOK, ClearSound, Buffers
<1>3. (left > 0 => driving)' /\ (write # read)'
  BY DEF MixInv, ClearSound
<1>4. IndexIsWhole' /\ LengthsAgree' /\ CalmOwesOne' /\ ReplayIsLast'
  BY <1>1 DEF MixInv, ClearSound, IndexIsWhole, LengthsAgree, CalmOwesOne,
     ReplayIsLast, Buffers
<1> QED
  BY <1>2, <1>3, <1>4 DEF MixInv

(* A frame begins: the mixed block is handed over, or the last one stays   *)
(* and the frame has ticks enough to mix.                                  *)
LEMMA BeginFrameKeepsInv ==
  ASSUME MixInv, NEW t \in Ticks[soundSamples], BeginFrame(t)
  PROVE  MixInv'
<1>1. /\ soundSamples \in Nat /\ soundSamples >= 1 /\ soundSamples <= Size
      /\ Size \in Nat /\ t \in Nat /\ 2 * t >= soundSamples /\ t >= 1
      /\ mixCounter \in Nat /\ mixCounter >= 1 /\ writeIndex \in Nat
  BY MixAssumption DEF MixInv, MixTypeOK
<1>2. CASE writeIndex >= soundSamples
  <2>1. /\ read' = write /\ write' = Other(write) /\ writeIndex' = 0
        /\ UNCHANGED <<mixCounter, soundSamples, frontSamples, block, plays>>
        /\ driving' = TRUE /\ left' = t /\ ~driving
        /\ calm' = (mixCounter + t <= 2 * soundSamples)
    BY <1>2 DEF BeginFrame, CreateSound
  <2>2. Other(write) = read /\ read \in Buffers /\ write \in Buffers
    BY DEF MixInv, MixTypeOK, Other, Buffers
  <2>3. MixTypeOK'
    BY <1>1, <2>1, <2>2 DEF MixInv, MixTypeOK
  <2>4. plays[write] = 0 /\ (block[read] # 0 => plays[read] \in 1 .. 2)
    BY <1>1, <1>2, <2>1 DEF MixInv, IndexIsWhole, ReplayIsLast
  <2>5. IndexIsWhole' /\ LengthsAgree'
    BY <2>1, <2>2, <2>4 DEF MixInv, IndexIsWhole, LengthsAgree
  <2>6. CalmOwesOne'
    BY <2>1 DEF CalmOwesOne
  <2>7. ReplayIsLast'
    <3>1. read' = write /\ plays'[read'] = 0
      BY <2>1, <2>4
    <3>2. 2 * (mixCounter' + left') >= soundSamples' + 2
      BY <1>1, <2>1
    <3> QED
      BY <2>1, <3>1, <3>2 DEF ReplayIsLast
  <2> QED
    BY <2>1, <2>2, <2>3, <2>5, <2>6, <2>7 DEF MixInv
<1>3. CASE ~(writeIndex >= soundSamples)
  <2>1. /\ UNCHANGED <<read, write, writeIndex, mixCounter, soundSamples,
                       frontSamples, block, plays>>
        /\ driving' = TRUE /\ left' = t /\ ~driving
        /\ calm' = (mixCounter + t <= 2 * soundSamples)
    BY <1>3 DEF BeginFrame, CreateSound
  <2>2. writeIndex = 0
    BY <1>3 DEF MixInv, IndexIsWhole
  <2>3. MixTypeOK'
    BY <1>1, <2>1 DEF MixInv, MixTypeOK
  <2>4. IndexIsWhole' /\ LengthsAgree' /\ CalmOwesOne'
    BY <1>1, <2>1, <2>2 DEF MixInv, IndexIsWhole, LengthsAgree, CalmOwesOne
  <2>5. ReplayIsLast'
    BY <1>1, <2>1, <2>2 DEF MixInv, ReplayIsLast
  <2> QED
    BY <2>1, <2>3, <2>4, <2>5 DEF MixInv
<1> QED
  BY <1>2, <1>3

(* A tick mixes a block at the index, or counts. *)
LEMMA TickKeepsInv == ASSUME MixInv, Tick PROVE MixInv'
<1>1. /\ soundSamples \in Nat /\ soundSamples >= 1 /\ soundSamples <= Size
      /\ Size \in Nat /\ mixCounter \in Nat /\ mixCounter >= 1
      /\ mixCounter <= Size /\ writeIndex \in Nat /\ left \in Nat
      /\ read \in Buffers /\ write \in Buffers /\ write # read /\ driving
      /\ block \in [Buffers -> Nat] /\ plays \in [Buffers -> 0 .. 3]
      /\ left > 0 /\ left' = left - 1
      /\ UNCHANGED <<driving, soundSamples, frontSamples, write, read, calm>>
  BY MixAssumption DEF MixInv, MixTypeOK, Tick
<1>2. CASE MixIsDue
  <2>1. /\ mixCounter >= soundSamples
        /\ mixCounter' = mixCounter - soundSamples + 1
        /\ writeIndex' = writeIndex + soundSamples
    BY <1>2 DEF Tick, MixSound, MixIsDue
  <2>2. /\ block' \in [Buffers -> Nat] /\ plays' \in [Buffers -> 0 .. 3]
        /\ block'[read] = block[read] /\ plays'[read] = plays[read]
        /\ plays'[write] = 0
        /\ \A b \in Buffers : block'[b] \in {block[b], soundSamples}
    <3>1. CASE writeIndex = 0
      BY <1>1, <1>2, <3>1 DEF Tick, MixSound
    <3>2. CASE writeIndex # 0
      BY <1>1, <1>2, <3>2 DEF Tick, MixSound, MixInv, IndexIsWhole
    <3> QED
      BY <3>1, <3>2
  <2>3. MixTypeOK'
    BY <1>1, <2>1, <2>2 DEF MixInv, MixTypeOK
  <2>4. IndexIsWhole' /\ LengthsAgree'
    BY <1>1, <2>1, <2>2 DEF MixInv, IndexIsWhole, LengthsAgree
  <2>5. CalmOwesOne'
    BY <1>1, <2>1 DEF MixInv, CalmOwesOne
  <2>6. ReplayIsLast'
    BY <1>1, <2>1, <2>2 DEF MixInv, ReplayIsLast
  <2> QED
    BY <1>1, <2>3, <2>4, <2>5, <2>6 DEF MixInv
<1>3. CASE ~MixIsDue
  <2>1. /\ mixCounter < soundSamples /\ mixCounter' = mixCounter + 1
        /\ UNCHANGED <<writeIndex, block, plays>>
    BY <1>1, <1>3 DEF Tick, MixIsDue
  <2>2. MixTypeOK'
    BY <1>1, <2>1 DEF MixInv, MixTypeOK
  <2>3. IndexIsWhole' /\ LengthsAgree'
    BY <1>1, <2>1 DEF MixInv, IndexIsWhole, LengthsAgree
  <2>4. CalmOwesOne'
    BY <1>1, <2>1 DEF MixInv, CalmOwesOne
  <2>5. ReplayIsLast'
    BY <1>1, <2>1 DEF MixInv, ReplayIsLast
  <2> QED
    BY <1>1, <2>2, <2>3, <2>4, <2>5 DEF MixInv
<1> QED
  BY <1>2, <1>3

(* The block played is played for the first time, or once more. *)
LEMMA PlayKeepsInv == ASSUME MixInv, Play PROVE MixInv'
<1>1. /\ driving /\ driving' = FALSE /\ left = 0
      /\ read \in Buffers /\ write \in Buffers /\ write # read
      /\ plays \in [Buffers -> 0 .. 3] /\ mixCounter \in Nat
      /\ soundSamples \in Nat /\ writeIndex \in Nat
      /\ UNCHANGED <<left, mixCounter, soundSamples, frontSamples, writeIndex,
                     write, read, block, calm>>
  BY MixAssumption DEF MixInv, MixTypeOK, Play
<1>2. /\ plays' \in [Buffers -> 0 .. 3] /\ plays'[write] = plays[write]
      /\ plays[read] < 3 => plays'[read] = plays[read] + 1
  BY <1>1 DEF Play
<1>3. MixTypeOK'
  BY <1>1, <1>2 DEF MixInv, MixTypeOK
<1>4. IndexIsWhole' /\ LengthsAgree' /\ CalmOwesOne'
  BY <1>1, <1>2 DEF MixInv, IndexIsWhole, LengthsAgree, CalmOwesOne
<1>5. ReplayIsLast'
  BY <1>1, <1>2 DEF MixInv, ReplayIsLast
<1> QED
  BY <1>1, <1>3, <1>4, <1>5 DEF MixInv

(* Every step of the mixer keeps its invariant. *)
LEMMA MixInvStep == MixInv /\ [MixNext]_mixVars => MixInv'
<1> SUFFICES ASSUME MixInv, [MixNext]_mixVars PROVE MixInv'
  OBVIOUS
<1>1. CASE MachineReset
  <2>1. frontSamples \in Rates
    BY DEF MixInv, MixTypeOK
  <2> QED
    BY <1>1, <2>1, ClearedKeepsInv DEF MachineReset
<1>2. ASSUME NEW s \in Rates, ChangeSettings(s) PROVE MixInv'
  BY <1>2, ClearedKeepsInv DEF ChangeSettings
<1>3. ASSUME NEW s \in Rates, NEW reached \in BOOLEAN, RestoreSound(s, reached)
      PROVE  MixInv'
  BY <1>3, ClearedKeepsInv DEF RestoreSound
<1>4. ASSUME NEW t \in Ticks[soundSamples], BeginFrame(t) PROVE MixInv'
  BY <1>4, BeginFrameKeepsInv
<1>5. CASE Tick
  BY <1>5, TickKeepsInv
<1>6. CASE Play
  BY <1>6, PlayKeepsInv
<1>7. CASE UNCHANGED mixVars
  BY <1>7 DEF mixVars, MixInv, MixTypeOK, IndexIsWhole, LengthsAgree,
     CalmOwesOne, ReplayIsLast
<1> QED
  BY <1>1, <1>2, <1>3, <1>4, <1>5, <1>6, <1>7 DEF MixNext

(* What the mixer's invariant says of the properties the runs check. *)
LEMMA MixInvImplies ==
  MixInv => MixTypeOK /\ WriterStaysInBuffer /\ PlayedIsWhole /\ NotPlayedThrice
<1> SUFFICES ASSUME MixInv
             PROVE  WriterStaysInBuffer /\ PlayedIsWhole /\ NotPlayedThrice
  BY DEF MixInv
<1>1. soundSamples \in Nat /\ soundSamples <= Size /\ Size \in Nat
  BY MixAssumption DEF MixInv, MixTypeOK
<1>2. WriterStaysInBuffer
  BY <1>1 DEF MixInv, CalmOwesOne, WriterStaysInBuffer
<1>3. PlayedIsWhole
  BY DEF MixInv, MixTypeOK, LengthsAgree, PlayedIsWhole
<1>4. NotPlayedThrice
  <2>1. \A b \in Buffers : b = read \/ b = write
    BY DEF MixInv, MixTypeOK, Buffers
  <2>2. block[read] # 0 => plays[read] <= 2
    BY DEF MixInv, MixTypeOK, ReplayIsLast
  <2>3. block[write] # 0 => plays[write] <= 2
    BY DEF MixInv, MixTypeOK, IndexIsWhole
  <2> QED
    BY <2>1, <2>2, <2>3 DEF NotPlayedThrice
<1> QED
  BY <1>2, <1>3, <1>4

SessionInv ==
  /\ SessionTypeOK
  /\ RestoresWhatWasGiven
  /\ asked => dataSize >= SaveSize

(* The length in the buffer is that of a whole state once the host has     *)
(* asked, so that no shorter state is accepted.                            *)
LEMMA SessionInvStep == SessionInv /\ [SessionNext]_sessionVars => SessionInv'
<1> SUFFICES ASSUME SessionInv, [SessionNext]_sessionVars PROVE SessionInv'
  OBVIOUS
<1>a. /\ SaveSize \in Nat /\ MaxSize \in Nat /\ SaveSize <= MaxSize
      /\ Growth \in Nat /\ Lengths \subseteq Nat /\ dataSize \in Nat
      /\ promised \in States \cup {MACHINE}
  BY SessionAssumption DEF SessionInv, SessionTypeOK
<1>1. ASSUME NEW size \in Nat, size >= SaveSize, PutMachine(size)
      PROVE  SessionInv'
  BY <1>1, <1>a DEF PutMachine, SessionInv, SessionTypeOK, RestoresWhatWasGiven
<1>2. CASE SizeQuery \/ SaveState
  BY <1>a, <1>1, <1>2 DEF SizeQuery, SaveState
<1>3. ASSUME asked, NEW s \in States, NEW length \in Lengths, LoadState(s, length)
      PROVE  SessionInv'
  <2>1. length \in Nat /\ length >= dataSize /\ dataSize >= SaveSize
    BY <1>a, <1>3 DEF LoadState, SessionInv
  <2>2. (length >= SaveSize) = TRUE
    BY <1>a, <2>1
  <2>3. content' = [state |-> promised', whole |-> TRUE] /\ promised' = s
    BY <1>3, <2>2 DEF LoadState
  <2>4. /\ UNCHANGED <<dataSize, asked>> /\ readyToLoad' = TRUE
    BY <1>3 DEF LoadState
  <2>5. SessionTypeOK'
    BY <1>a, <2>3, <2>4 DEF SessionInv, SessionTypeOK
  <2> QED
    BY <2>3, <2>4, <2>5 DEF SessionInv, RestoresWhatWasGiven
<1>4. ASSUME NEW through \in BOOLEAN, ApplyState(through) PROVE SessionInv'
  <2>1. /\ readyToLoad' = FALSE /\ dataSize' \in Nat /\ dataSize' >= dataSize
        /\ UNCHANGED <<content, promised, asked>>
    BY <1>a, <1>4 DEF ApplyState
  <2>2. SessionTypeOK' /\ RestoresWhatWasGiven'
    BY <2>1 DEF SessionInv, SessionTypeOK, RestoresWhatWasGiven
  <2>3. (asked => dataSize >= SaveSize)'
    BY <1>a, <2>1 DEF SessionInv
  <2> QED
    BY <2>2, <2>3 DEF SessionInv
<1>5. CASE UNCHANGED sessionVars
  BY <1>5 DEF sessionVars, SessionInv, SessionTypeOK, RestoresWhatWasGiven
<1> QED
  BY <1>2, <1>3, <1>4, <1>5 DEF SessionNext, HostCall
-----------------------------------------------------------------------------
(* A step of the frame is a step of the mixer and of the session, or       *)
(* leaves them alone.                                                      *)
LEMMA FrameStep == [Next]_vars => [MixNext]_mixVars /\ [SessionNext]_sessionVars
<1> SUFFICES ASSUME [Next]_vars
             PROVE  [MixNext]_mixVars /\ [SessionNext]_sessionVars
  OBVIOUS
<1>1. CASE HostCalls
  BY <1>1 DEF HostCalls, MixNext, SessionNext
<1>2. CASE CallRetroRun
  BY <1>2 DEF CallRetroRun
<1>3. ASSUME NEW s \in Rates, NEW reached \in BOOLEAN, NEW through \in BOOLEAN,
             Restore(s, reached, through)
      PROVE  [MixNext]_mixVars /\ [SessionNext]_sessionVars
  BY <1>3 DEF Restore, MixNext, SessionNext
<1>4. CASE HandleInputs
  BY <1>4 DEF HandleInputs, MixNext
<1>5. ASSUME NEW t \in Ticks[soundSamples], RunMachine(t)
      PROVE  [MixNext]_mixVars /\ [SessionNext]_sessionVars
  BY <1>5 DEF RunMachine, MixNext
<1>6. CASE PlayNoise
  BY <1>6 DEF PlayNoise
<1>7. CASE TickMachine
  BY <1>7 DEF TickMachine, MixNext
<1>8. CASE PlayFrame
  BY <1>8 DEF PlayFrame, MixNext
<1>9. CASE UNCHANGED vars
  BY <1>9 DEF vars
<1> QED
  BY <1>1, <1>2, <1>3, <1>4, <1>5, <1>6, <1>7, <1>8, <1>9 DEF Next

StageIsRight ==
  /\ stage \in {"host", "start", "inputs", "machine"}
  /\ driving <=> stage = "machine"

(* The machine is driven in its stage only. *)
LEMMA StageStep == StageIsRight /\ [Next]_vars => StageIsRight'
<1> SUFFICES ASSUME StageIsRight, [Next]_vars PROVE StageIsRight'
  OBVIOUS
<1> USE DEF StageIsRight
<1>1. CASE HostCalls
  BY <1>1 DEF HostCalls, MachineReset, mixVars
<1>2. CASE CallRetroRun
  BY <1>2 DEF CallRetroRun, mixVars
<1>3. ASSUME NEW s \in Rates, NEW reached \in BOOLEAN, NEW through \in BOOLEAN,
             Restore(s, reached, through)
      PROVE  StageIsRight'
  BY <1>3 DEF Restore, RestoreSound
<1>4. CASE HandleInputs
  BY <1>4 DEF HandleInputs, ChangeSettings, MachineReset
<1>5. ASSUME NEW t \in Ticks[soundSamples], RunMachine(t) PROVE StageIsRight'
  BY <1>5 DEF RunMachine, BeginFrame
<1>6. CASE PlayNoise
  BY <1>6 DEF PlayNoise, mixVars
<1>7. CASE TickMachine
  BY <1>7 DEF TickMachine, Tick
<1>8. CASE PlayFrame
  BY <1>8 DEF PlayFrame, Play
<1>9. CASE UNCHANGED vars
  BY <1>9 DEF vars, mixVars
<1> QED
  BY <1>1, <1>2, <1>3, <1>4, <1>5, <1>6, <1>7, <1>8, <1>9 DEF Next

(* The frame with its host implements the mixer and the session: what      *)
(* RetroRun does to either is what that component promises on its own.     *)
THEOREM FrameImplementsParts == Spec => MixSpec /\ SessionSpec
<1>1. Init => MixInit /\ SessionInit
  BY DEF Init
<1> QED
  BY <1>1, FrameStep, PTL DEF Spec, MixSpec, SessionSpec

(* The invariant of the mixer holds of the frame. *)
LEMMA FrameKeepsMixInv == Spec => []MixInv
<1>1. MixSpec => []MixInv
  BY MixInvInit, MixInvStep, PTL DEF MixSpec
<1> QED
  BY <1>1, FrameImplementsParts, PTL

(* The invariant of the session holds of the frame. *)
LEMMA FrameKeepsSessionInv == Spec => []SessionInv
<1>1. SessionInit => SessionInv
  <2> SUFFICES ASSUME SessionInit PROVE SessionInv
    OBVIOUS
  <2>1. SessionTypeOK
    BY DEF SessionInit, SessionTypeOK
  <2> QED
    BY <2>1 DEF SessionInit, SessionInv, RestoresWhatWasGiven
<1>2. SessionSpec => []SessionInv
  BY <1>1, SessionInvStep, PTL DEF SessionSpec
<1> QED
  BY <1>2, FrameImplementsParts, PTL

(* The types, with mix_counter never more than the room of a buffer. *)
THEOREM FrameTypeCorrect == Spec => []FrameTypeOK
<1>1. Init => StageIsRight
  BY DEF Init, MixInit, StageIsRight
<1>2. Spec => []StageIsRight
  BY <1>1, StageStep, PTL DEF Spec
<1>3. MixInv /\ SessionInv /\ StageIsRight => FrameTypeOK
  BY DEF MixInv, SessionInv, StageIsRight, FrameTypeOK
<1> QED
  BY <1>2, <1>3, FrameKeepsMixInv, FrameKeepsSessionInv, PTL

(* mix_sound needs no check of its index in a frame that owes one mix. *)
THEOREM WriterIsBounded == Spec => []WriterStaysInBuffer
  BY FrameKeepsMixInv, MixInvImplies, PTL

(* The host plays silence or whole blocks of its own frame length. *)
THEOREM BlocksAreWhole == Spec => []PlayedIsWhole
  BY FrameKeepsMixInv, MixInvImplies, PTL

(* No block is played three times, if two frames have the ticks of one mix. *)
THEOREM ReplaysAreSingle == Spec => []NotPlayedThrice
  BY FrameKeepsMixInv, MixInvImplies, PTL

(* The two buffers suffice: no block is overwritten unheard. *)
THEOREM NoBlockIsLost == Spec => BlocksAreHeard
<1> DEFINE Heard == writeIndex' > writeIndex =>
                      /\ writeIndex = 0 => (block[write] = 0 \/ plays[write] > 0)
                      /\ calm => writeIndex = 0
<1>1. MixInv /\ [MixNext]_mixVars => [Heard]_mixVars
  <2> SUFFICES ASSUME MixInv, MixNext, writeIndex' > writeIndex
               PROVE  Heard
    BY DEF mixVars
  <2>1. writeIndex \in Nat /\ soundSamples \in Nat /\ soundSamples >= 1
    BY MixAssumption DEF MixInv, MixTypeOK
  <2>2. Tick /\ MixIsDue
    BY <2>1 DEF MixNext, MachineReset, ChangeSettings, RestoreSound, ClearSound,
       BeginFrame, CreateSound, Play, Tick
  <2>3. writeIndex = 0 => (block[write] = 0 \/ plays[write] > 0)
    BY DEF MixInv, IndexIsWhole
  <2>4. calm => writeIndex = 0
    BY <2>1, <2>2 DEF MixInv, MixTypeOK, CalmOwesOne, Tick, MixIsDue
  <2> QED
    BY <2>3, <2>4
<1>2. Spec => [][MixNext]_mixVars
  BY FrameImplementsParts DEF MixSpec
<1>3. Spec => [][Heard]_mixVars
  BY <1>1, <1>2, FrameKeepsMixInv, PTL
<1> QED
  BY <1>3 DEF BlocksAreHeard

(* What is restored is the state the host gave last, whole, whatever it    *)
(* asked for in between, if it has asked for the size before.              *)
THEOREM RestoresAreHonest == Spec => []RestoresWhatWasGiven
<1>1. SessionInv => RestoresWhatWasGiven
  BY DEF SessionInv
<1> QED
  BY <1>1, FrameKeepsSessionInv, PTL
=============================================================================
