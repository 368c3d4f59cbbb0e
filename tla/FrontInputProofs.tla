-------------------------- MODULE FrontInputProofs --------------------------
(***************************************************************************)
(* Proofs about FrontInput, for any inputs of the host, any keys left      *)
(* alone and any fading.                                                   *)
(***************************************************************************)
EXTENDS FrontInput, TLAPS

(* The keys and their places in the order, one by one. *)
LEMMA OrderIsListed ==
  /\ DOMAIN Order = 1 .. 15
  /\ Order[1] = "POWER" /\ Order[2] = "RESET" /\ Order[3] = "PAUSE"
  /\ Order[4] = "0" /\ Order[5] = "1" /\ Order[6] = "2" /\ Order[7] = "3"
  /\ Order[8] = "4" /\ Order[9] = "5" /\ Order[10] = "6" /\ Order[11] = "7"
  /\ Order[12] = "8" /\ Order[13] = "9" /\ Order[14] = "CL"
  /\ Order[15] = "EN"
BY DEF Order

(* The keys as a set. *)
LEMMA KeysAreListed ==
  Keys = {"POWER", "RESET", "PAUSE", "0", "1", "2", "3", "4", "5", "6", "7",
          "8", "9", "CL", "EN"}
BY OrderIsListed DEF Keys

(* No key has two places. *)
LEMMA PlacesDiffer ==
  \A i, n \in 1 .. 15 : Order[i] = Order[n] => i = n
BY OrderIsListed

(* Every cell of the overlay has a key. *)
LEMMA CellsHaveKeys ==
  ASSUME NEW c \in Cells
  PROVE  KeyAt(c) \in Keys
BY KeysAreListed DEF Cells, KeyAt, Overlay

(* Every key is somewhere on the overlay. *)
LEMMA KeysHaveCells ==
  ASSUME NEW k \in Keys
  PROVE  \E d \in Cells : KeyAt(d) = k
<1> DEFINE At(i, j) == [x |-> i, y |-> j]
<1>1. \A i, j \in 0 .. 3 : At(i, j) \in Cells /\ KeyAt(At(i, j)) = Overlay[j + 1][i + 1]
  BY DEF Cells, KeyAt
<1>2. \E i, j \in 0 .. 3 : Overlay[j + 1][i + 1] = k
  <2>1. CASE k \in {"POWER", "7", "8", "9"}
    <3>1. /\ Overlay[0 + 1][0 + 1] = "POWER"
          /\ Overlay[0 + 1][1 + 1] = "7"
          /\ Overlay[0 + 1][2 + 1] = "8"
          /\ Overlay[0 + 1][3 + 1] = "9"
      BY DEF Overlay
    <3> QED
      BY <2>1, <3>1
  <2>2. CASE k \in {"RESET", "4", "5", "6"}
    <3>1. /\ Overlay[1 + 1][0 + 1] = "RESET"
          /\ Overlay[1 + 1][1 + 1] = "4"
          /\ Overlay[1 + 1][2 + 1] = "5"
          /\ Overlay[1 + 1][3 + 1] = "6"
      BY DEF Overlay
    <3> QED
      BY <2>2, <3>1
  <2>3. CASE k \in {"1", "2", "3"}
    <3>1. /\ Overlay[2 + 1][1 + 1] = "1"
          /\ Overlay[2 + 1][2 + 1] = "2"
          /\ Overlay[2 + 1][3 + 1] = "3"
      BY DEF Overlay
    <3> QED
      BY <2>3, <3>1
  <2>4. CASE k \in {"PAUSE", "0", "CL", "EN"}
    <3>1. /\ Overlay[3 + 1][0 + 1] = "PAUSE"
          /\ Overlay[3 + 1][1 + 1] = "0"
          /\ Overlay[3 + 1][2 + 1] = "CL"
          /\ Overlay[3 + 1][3 + 1] = "EN"
      BY DEF Overlay
    <3> QED
      BY <2>4, <3>1
  <2> QED
    BY <2>1, <2>2, <2>3, <2>4, KeysAreListed
<1> HIDE DEF At
<1> QED
  BY <1>1, <1>2

(* Of several keys one comes last. *)
LEMMA OneComesLast ==
  ASSUME NEW S \in SUBSET Keys, S # {}
  PROVE  \E k \in S : \A j \in S : ~Comes(k, j)
<1> DEFINE P == {i \in 1 .. 15 : Order[i] \in S}
<1>1. PICK m \in P : \A n \in P : n <= m
  <2>1. P # {} /\ P \subseteq 1 .. 15
    BY OrderIsListed DEF Keys
  <2> HIDE DEF P
  <2>2. SUFFICES ASSUME \A m \in P : \E n \in P : n > m
                 PROVE  FALSE
    BY <2>1
  <2>3. 15 \notin P /\ 14 \notin P /\ 13 \notin P
    BY <2>1, <2>2
  <2>4. 12 \notin P /\ 11 \notin P /\ 10 \notin P
    BY <2>1, <2>2, <2>3
  <2>5. 9 \notin P /\ 8 \notin P /\ 7 \notin P
    BY <2>1, <2>2, <2>3, <2>4
  <2>6. 6 \notin P /\ 5 \notin P /\ 4 \notin P
    BY <2>1, <2>2, <2>3, <2>4, <2>5
  <2>7. 3 \notin P /\ 2 \notin P /\ 1 \notin P
    BY <2>1, <2>2, <2>3, <2>4, <2>5, <2>6
  <2>8. PICK p \in P : p \in 1 .. 15
    BY <2>1
  <2>9. p > 7
    BY <2>5, <2>6, <2>7, <2>8
  <2> QED
    BY <2>3, <2>4, <2>5, <2>8, <2>9
<1>2. SUFFICES \A j \in S : ~Comes(Order[m], j)
  OBVIOUS
<1> QED
  BY <1>1, PlacesDiffer, OrderIsListed DEF Comes, Keys

(* The cursor moves within the overlay. *)
LEMMA MovesStayOnOverlay ==
  ASSUME NEW h, cursor \in Cells
  PROVE  Moved(h) \in Cells
<1>1. \A c \in Cells : /\ c = [x |-> c.x, y |-> c.y]
                      /\ c.x \in 0 .. 3 /\ c.y \in 0 .. 3
  BY DEF Cells
<1>2. \A i, j \in 0 .. 3 : [x |-> i, y |-> j] \in Cells
  BY DEF Cells
<1>3. \A c \in Cells : Up(c) \in Cells
  BY <1>1, <1>2 DEF Up, OnReset, Cells
<1>4. \A c \in Cells : Down(c) \in Cells
  BY <1>1, <1>2 DEF Down, OnReset, Cells
<1>5. \A c \in Cells : Left(c) \in Cells
  BY <1>1, <1>2 DEF Left, Cells
<1>6. \A c \in Cells : Right(c) \in Cells
  BY <1>1, <1>2 DEF Right, Cells
<1> QED
  BY <1>3, <1>4, <1>5, <1>6 DEF Moved

(* What is asked for are keys. *)
LEMMA AskedAreKeys ==
  ASSUME NEW h, cursor \in Cells
  PROVE  Asked(h) \subseteq Keys
<1>1. KeyAt(Moved(h)) \in Keys
  BY MovesStayOnOverlay, CellsHaveKeys
<1>2. HostKeys(h) \subseteq Keys
  BY KeysAreListed DEF HostKeys
<1> QED
  BY <1>1, <1>2 DEF Asked

(* The cursor ends on the overlay, wherever a key pressed takes it. *)
LEMMA CursorStaysOnOverlay ==
  ASSUME NEW h, cursor \in Cells
  PROVE  CursorAfter(h) \in Cells
<1> DEFINE last == CHOOSE k \in Asked(h) : \A j \in Asked(h) : ~Comes(k, j)
<1>1. CASE Asked(h) = {}
  BY <1>1, MovesStayOnOverlay DEF CursorAfter
<1>2. CASE Asked(h) # {}
  <2>1. last \in Keys
    <3>1. Asked(h) \in SUBSET Keys
      BY AskedAreKeys
    <3>2. \E k \in Asked(h) : \A j \in Asked(h) : ~Comes(k, j)
      BY <1>2, <3>1, OneComesLast
    <3> QED
      BY <3>1, <3>2
  <2>2. CASE last = "RESET"
    <3>1. CursorAfter(h) =
            [x |-> 0, y |-> IF "POWER" \in Asked(h) \/ Moved(h).y < 2 THEN 1 ELSE 2]
      BY <1>2, <2>2 DEF CursorAfter
    <3> QED
      BY <3>1 DEF Cells
  <2>3. CASE last # "RESET"
    <3>1. CursorAfter(h) = CHOOSE d \in Cells : KeyAt(d) = last
      BY <1>2, <2>3 DEF CursorAfter
    <3> HIDE DEF last
    <3>2. \E d \in Cells : KeyAt(d) = last
      BY <2>1, KeysHaveCells
    <3> QED
      BY <3>1, <3>2
  <2> QED
    BY <2>2, <2>3
<1> QED
  BY <1>1, <1>2

(* The fading stays between closed and open. *)
LEMMA FadingIsBounded ==
  ASSUME NEW h, fade \in 0 .. Delay
  PROVE  Faded(h) \in 0 .. Delay
BY InputAssumption DEF Faded

(* The initial state has its types. *)
LEMMA InitHasTypes == Init => TypeOK
<1> SUFFICES ASSUME Init
             PROVE  TypeOK
  OBVIOUS
<1>1. cursor \in Cells
  BY DEF Init, Cells
<1>2. fade \in 0 .. Delay /\ starting \in 0 .. StartUp
  BY InputAssumption DEF Init
<1> QED
  BY <1>1, <1>2 DEF Init, TypeOK

(* Every variable keeps its type through frames and changes of game, and   *)
(* the cursor stays on the overlay, whose rows and columns it indexes.     *)
THEOREM InputTypeCorrect == Spec => []TypeOK
<1>1. Init => TypeOK
  BY InitHasTypes
<1>2. TypeOK /\ [Next]_vars => TypeOK'
  <2> SUFFICES ASSUME TypeOK, [Next]_vars
               PROVE  TypeOK'
    OBVIOUS
  <2> USE DEF TypeOK
  <2>1. ASSUME NEW h \in HostInputs, RetroRun(h)
        PROVE  TypeOK'
    <3>1. held' \subseteq Controls /\ displayed' \in BOOLEAN
      BY <2>1, InputAssumption DEF RetroRun, Shown
    <3>2. fade' \in 0 .. Delay
      BY <2>1, FadingIsBounded DEF RetroRun
    <3>3. cursor' \in Cells
      BY <2>1, CursorStaysOnOverlay DEF RetroRun
    <3>4. pressed' \subseteq Keys /\ status' \subseteq MachineKeys
      BY <2>1, AskedAreKeys DEF RetroRun
    <3>5. current' \subseteq Directions \cup Buttons
      BY <2>1 DEF RetroRun, Sent
    <3>6. joy' \subseteq Directions \cup Buttons
      BY <2>1, <3>5 DEF RetroRun
    <3>7. starting' \in 0 .. StartUp
      BY <2>1, InputAssumption DEF RetroRun
    <3>8. on' \in BOOLEAN
      BY <2>1 DEF RetroRun
    <3>9. frames' \in {0, 1}
      BY <2>1 DEF RetroRun
    <3> QED
      BY <3>1, <3>2, <3>3, <3>4, <3>5, <3>6, <3>7, <3>8, <3>9
  <2>2. ASSUME LoadGame
        PROVE  TypeOK'
    BY <2>2 DEF LoadGame, Cells
  <2>3. CASE UNCHANGED vars
    BY <2>3 DEF vars
  <2> QED
    BY <2>1, <2>2, <2>3 DEF Next, Frame
<1> QED
  BY <1>1, <1>2, PTL DEF Spec

(* The flags of the front end agree with the key status of the machine:   *)
(* what it has pressed it will let go.                                     *)
KeysAgree == status = pressed \ Switches

(* The inductive invariant: a key that is down is only let go where its    *)
(* flag says so.                                                           *)
KeysInv ==
  /\ TypeOK
  /\ KeysAgree
  /\ "9" \notin pressed
  /\ KeysAreHeld

(* What the host holds of the machine's keys is asked for; all that is     *)
(* asked for besides is the key under the cursor, by a button, with the    *)
(* overlay shown.                                                          *)
LEMMA AskedOverHeld ==
  ASSUME NEW h, held' = h
  PROVE  /\ KeysHeld' \subseteq Asked(h) \cap MachineKeys
         /\ \/ Asked(h) \cap MachineKeys \subseteq KeysHeld'
            \/ /\ Shown(h) /\ h \cap Buttons # {}
               /\ Asked(h) \cap MachineKeys \subseteq KeysHeld' \cup {KeyAt(Moved(h))}
<1>1. KeysHeld' = HostKeys(h) \cap MachineKeys
  BY DEF KeysHeld, HostKeys, MachineKeys, Switches
<1> QED
  BY <1>1 DEF Asked

(* A frame leaves down what is asked for, and while the overlay fades away *)
(* what was.                                                               *)
LEMMA StatusAfter ==
  ASSUME KeysInv, NEW h, RetroRun(h)
  PROVE  /\ Asked(h) \cap MachineKeys \subseteq status'
         /\ Shown(h) \/ Faded(h) <= 0 => status' = Asked(h) \cap MachineKeys
<1>1. status' = (status \cup (Asked(h) \cap MachineKeys)) \ Released(h)
  BY DEF RetroRun
<1>2. Released(h) \cap Asked(h) = {}
  BY DEF Released
<1>3. Asked(h) \cap MachineKeys \subseteq status'
  BY <1>1, <1>2
<1>4. ASSUME Shown(h) \/ Faded(h) <= 0
      PROVE  status' = Asked(h) \cap MachineKeys
  <2>1. Faded(h) \in 0 .. Delay
    BY FadingIsBounded DEF KeysInv, TypeOK
  <2>2. Faded(h) <= 0 => ~(Faded(h) > 0)
    BY <2>1, InputAssumption
  <2>3. Released(h) = pressed \ Asked(h)
    BY <1>4, <2>2 DEF Released
  <2>4. status \subseteq pressed /\ status \subseteq MachineKeys
    BY DEF KeysInv, KeysAgree, TypeOK
  <2> QED
    BY <1>1, <1>2, <2>3, <2>4
<1> QED
  BY <1>3, <1>4

(* A frame keeps the keys right. *)
LEMMA FrameKeepsHeld ==
  ASSUME KeysInv, NEW h, RetroRun(h)
  PROVE  KeysAreHeld'
<1>1. held' = h /\ displayed' = (Shown(h) /\ ~Closes(h)) /\ fade' = Faded(h)
  BY DEF RetroRun
<1>2. Faded(h) \in 0 .. Delay /\ fade \in 0 .. Delay
  BY FadingIsBounded DEF KeysInv, TypeOK
<1>3. Shown(h) => Faded(h) > 0
  BY <1>2, InputAssumption DEF Faded
<1>4. /\ KeysHeld' \subseteq Asked(h) \cap MachineKeys
      /\ \/ Asked(h) \cap MachineKeys \subseteq KeysHeld'
         \/ /\ Shown(h) /\ h \cap Buttons # {}
            /\ Asked(h) \cap MachineKeys \subseteq KeysHeld' \cup {KeyAt(Moved(h))}
  BY <1>1, AskedOverHeld
<1>5. KeysHeld' \subseteq status'
  BY <1>4, StatusAfter
<1>6. ASSUME ~displayed', fade' = 0
      PROVE  status' \subseteq KeysHeld'
  <2>1. ~Shown(h) /\ Faded(h) <= 0
    BY <1>1, <1>2, <1>3, <1>6
  <2> QED
    BY <1>4, <2>1, StatusAfter
<1>7. ASSUME displayed'
      PROVE  /\ held' \cap Buttons = {} => status' \subseteq KeysHeld'
             /\ \E k \in MachineKeys : status' \subseteq KeysHeld' \cup {k}
  <2>1. status' = Asked(h) \cap MachineKeys
    BY <1>1, <1>7, StatusAfter
  <2>2. held' \cap Buttons = {} => status' \subseteq KeysHeld'
    BY <1>1, <1>4, <2>1
  <2>3. "PAUSE" \in MachineKeys
    BY KeysAreListed DEF MachineKeys, Switches
  <2>4. \E k \in MachineKeys : status' \subseteq KeysHeld' \cup {k}
    <3>1. CASE KeyAt(Moved(h)) \in MachineKeys
      BY <1>4, <2>1, <3>1
    <3>2. CASE KeyAt(Moved(h)) \notin MachineKeys
      BY <1>4, <2>1, <2>3, <3>2
    <3> QED
      BY <3>1, <3>2
  <2> QED
    BY <2>2, <2>4
<1> QED
  BY <1>5, <1>6, <1>7 DEF KeysAreHeld

(* The invariant holds where key 9 is left alone.                          *)
LEMMA KeysHold ==
  ASSUME "9" \in Unused
  PROVE  Spec => []KeysInv
<1>1. Init => KeysInv
  <2> SUFFICES ASSUME Init
               PROVE  KeysInv
    OBVIOUS
  <2>1. KeysAreHeld
    BY KeysAreListed DEF Init, KeysAreHeld, KeysHeld
  <2> QED
    BY <2>1, InitHasTypes DEF Init, KeysInv, KeysAgree
<1>2. KeysInv /\ TypeOK' /\ [Next]_vars => KeysInv'
  <2> SUFFICES ASSUME KeysInv, TypeOK', [Next]_vars
               PROVE  KeysInv'
    OBVIOUS
  <2>1. ASSUME NEW h \in HostInputs, Asked(h) \cap Unused = {}, RetroRun(h)
        PROVE  KeysInv'
    <3>1. Asked(h) \subseteq Keys /\ "9" \notin Asked(h)
      BY <2>1, AskedAreKeys DEF KeysInv, TypeOK
    <3>2. Released(h) \subseteq pressed
      BY DEF Released
    <3>3. {FlagOf(k) : k \in Released(h)} = Released(h)
      BY <3>2 DEF FlagOf, KeysInv
    <3>4. pressed' = (pressed \cup Asked(h)) \ Released(h)
      BY <2>1, <3>3 DEF RetroRun
    <3>5. status' = (status \cup (Asked(h) \cap MachineKeys)) \ Released(h)
      BY <2>1 DEF RetroRun
    <3>6. KeysAgree'
      BY <3>1, <3>4, <3>5 DEF KeysInv, KeysAgree, MachineKeys
    <3>7. KeysAreHeld'
      BY <2>1, FrameKeepsHeld
    <3> QED
      BY <3>1, <3>4, <3>6, <3>7 DEF KeysInv
  <2>2. ASSUME LoadGame \/ UNCHANGED vars
        PROVE  KeysInv'
    BY <2>2 DEF LoadGame, vars, KeysInv, KeysAgree, KeysAreHeld, KeysHeld
  <2> QED
    BY <2>1, <2>2 DEF Next, Frame
<1> QED
  BY <1>1, <1>2, InputTypeCorrect, PTL DEF Spec

(* Where key 9 is left alone, whatever else the player does, for all       *)
(* inputs of the host and any fading, no key of the machine is stuck and   *)
(* none that the host holds is missed: the slip at key 9 is the only one   *)
(* in the twelve blocks.                                                   *)
THEOREM NoKeyIsStuck ==
  ASSUME "9" \in Unused
  PROVE  Spec => []KeysAreHeld
<1>1. Spec => []KeysInv
  BY KeysHold
<1>2. KeysInv => KeysAreHeld
  BY DEF KeysInv
<1> QED
  BY <1>1, <1>2, PTL

(* A machine that is on has read what the front end set last. *)
PadIsRead == on => joy = current

(* An overlay opened over a running game keeps the directions from it, for *)
(* all keys the overlay presses and however the console is switched.       *)
THEOREM OverlayIsMute == Spec => OverlayMutesPad
<1> DEFINE Mutes == on /\ displayed /\ displayed' => joy' \cap Directions \subseteq joy
<1>1. Init => PadIsRead
  BY DEF Init, PadIsRead
<1>2. PadIsRead /\ [Next]_vars => PadIsRead'
  BY DEF PadIsRead, Next, Frame, RetroRun, LoadGame, vars
<1>3. PadIsRead /\ [Next]_vars => [Mutes]_vars
  <2> SUFFICES ASSUME PadIsRead, Next, on, displayed, displayed'
               PROVE  joy' \cap Directions \subseteq joy
    BY DEF vars
  <2>1. ASSUME NEW h \in HostInputs, RetroRun(h)
        PROVE  joy' \cap Directions \subseteq joy
    <3>1. Shown(h) /\ ~Closes(h)
      BY <2>1 DEF RetroRun
    <3>2. current' = current
      BY <2>1, <3>1 DEF RetroRun, PadIsFree, Closes
    <3> QED
      BY <2>1, <3>2 DEF RetroRun, PadIsRead
  <2>2. CASE LoadGame
    BY <2>2 DEF LoadGame
  <2> QED
    BY <2>1, <2>2 DEF Next, Frame
<1> QED
  BY <1>1, <1>2, <1>3, PTL DEF Spec, OverlayMutesPad

(* A frame in which the player holds on to directions and buttons, with    *)
(* the overlay closed.                                                     *)
Rests ==
  /\ Frame
  /\ ~displayed
  /\ held' = held /\ held \subseteq Directions \cup Buttons

(* Such a frame goes on with the fading of the overlay, or, faded away,    *)
(* lets every key go; with the overlay gone and no key down the machine    *)
(* reads what is held.                                                     *)
InputSettles ==
  Rests =>
    /\ ~displayed'
    /\ fade' < fade \/ (fade' = 0 /\ pressed' = {} /\ status' = {})
    /\ fade = 0 /\ pressed = {} /\ on' => joy' = held

(* Directions and buttons are no keys. *)
LEMMA NoKeysAsked ==
  ASSUME NEW h, h \subseteq Directions \cup Buttons, ~Shown(h)
  PROVE  Asked(h) = {}
<1>1. h \cap Keys = {} /\ "START" \notin h
  BY KeysAreListed DEF Directions, Buttons
<1> QED
  BY <1>1 DEF Asked, HostKeys

(* The safety half of MachineFollowsHost: where key 9 is left alone every  *)
(* frame of a player who settles brings the machine nearer to what is      *)
(* held, whatever overlay, keys and fading came before. With the slip at   *)
(* key 9 it would not: a flag would stay set.                              *)
THEOREM InputsSettle ==
  ASSUME "9" \in Unused
  PROVE  Spec => [][InputSettles]_vars
<1>1. ASSUME KeysInv, Next
      PROVE  InputSettles
  <2> SUFFICES ASSUME Rests
               PROVE  /\ ~displayed'
                      /\ fade' < fade
                           \/ (fade' = 0 /\ pressed' = {} /\ status' = {})
                      /\ fade = 0 /\ pressed = {} /\ on' => joy' = held
    BY DEF InputSettles
  <2>1. RetroRun(held) /\ held \subseteq Directions \cup Buttons /\ ~displayed
    BY DEF Rests, Frame, RetroRun
  <2>2. ~Shown(held)
    BY <2>1 DEF Shown
  <2>3. Asked(held) = {}
    BY <2>1, <2>2, NoKeysAsked
  <2>4. fade' = IF fade >= Step THEN fade - Step ELSE 0
    BY <2>1, <2>2 DEF RetroRun, Faded
  <2>5. fade \in Nat /\ Step \in Nat \ {0}
    BY <1>1, InputAssumption DEF KeysInv, TypeOK
  <2>6. fade' = Faded(held)
    BY <2>1 DEF RetroRun
  <2>7. CASE fade' > 0
    <3>1. fade' < fade /\ fade # 0
      BY <2>4, <2>5, <2>7
    <3> QED
      BY <2>1, <2>2, <3>1 DEF RetroRun
  <2>8. CASE ~(fade' > 0)
    <3>1. fade' = 0
      BY <2>4, <2>5, <2>8
    <3>2. Released(held) = pressed
      BY <2>3, <2>6, <3>1 DEF Released
    <3>3. {FlagOf(k) : k \in Released(held)} = pressed
      BY <1>1, <3>2 DEF FlagOf, KeysInv
    <3>4. pressed' = {}
      BY <2>1, <2>3, <3>3 DEF RetroRun
    <3>5. status' = {}
      BY <1>1, <2>1, <2>3, <3>2 DEF RetroRun, KeysInv, KeysAgree
    <3>6. ASSUME fade = 0, pressed = {}, on'
          PROVE  joy' = held
      <4>1. Sent(held) = held
        BY <2>1 DEF Sent, Directions, Buttons
      <4>2. PadIsFree(held)
        BY <2>2, <2>6, <3>1, <3>6 DEF PadIsFree
      <4> QED
        BY <2>1, <3>6, <4>1, <4>2 DEF RetroRun
    <3> QED
      BY <2>1, <2>2, <3>1, <3>4, <3>5, <3>6 DEF RetroRun
  <2> QED
    BY <2>7, <2>8
<1>2. Spec => []KeysInv
  BY KeysHold
<1>3. KeysInv /\ [Next]_vars => [InputSettles]_vars
  BY <1>1
<1> QED
  BY <1>2, <1>3, PTL DEF Spec
=============================================================================
