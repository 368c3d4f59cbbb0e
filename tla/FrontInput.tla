----------------------------- MODULE FrontInput -----------------------------
(***************************************************************************)
(* From the host's controller and keyboard to what the machine reads       *)
(* (RetroRun in emuscv.cpp, osd_input.cpp, io.cpp). An overlay shows the   *)
(* keys of the console; while it is open or fading the controller moves    *)
(* its cursor and presses its keys, else it plays. One action is one       *)
(* RetroRun. The two ports are treated alike and joined by "or" except for *)
(* the pad they drive: one is modelled. "A" stands for A and R, "B" for B  *)
(* and L, "SELECT" for all buttons that open the overlay. The menu is      *)
(* never displayed: the code that would is commented out.                  *)
(***************************************************************************)
EXTENDS Integers, Sequences

CONSTANTS
  HostInputs,  (* sets of controls a host may report for one frame         *)
  Unused,      (* keys of the console the player leaves alone              *)
  Delay,       (* EMUSCV_KEYBOARD_DELAY: 100                               *)
  Step,        (* what a frame fades: 300 / fps                            *)
  StartUp      (* frames until the console is switched on by itself        *)

Directions == {"up", "down", "left", "right"}
Buttons == {"A", "B"}

(* The keys in the order RetroRun looks at them. *)
Order == <<"POWER", "RESET", "PAUSE", "0", "1", "2", "3", "4", "5", "6", "7",
           "8", "9", "CL", "EN">>
Keys == {Order[i] : i \in DOMAIN Order}
Comes(j, k) == \E i, n \in DOMAIN Order : i < n /\ Order[i] = j /\ Order[n] = k

(* Keys the machine reads; the other two are the front end's own. *)
Switches == {"POWER", "RESET"}
MachineKeys == Keys \ Switches

(* The overlay, by rows; the reset key is two rows high. *)
Overlay == << <<"POWER", "7", "8", "9">>,
              <<"RESET", "4", "5", "6">>,
              <<"RESET", "1", "2", "3">>,
              <<"PAUSE", "0", "CL", "EN">> >>
KeyAt(c) == Overlay[c.y + 1][c.x + 1]
Cells == [x : 0 .. 3, y : 0 .. 3]

Controls == Directions \cup Buttons \cup {"START", "SELECT"} \cup Keys

ASSUME InputAssumption ==
  /\ HostInputs \subseteq SUBSET Controls
  /\ Unused \subseteq Keys
  /\ Delay \in Nat \ {0}
  /\ Step \in Nat \ {0}
  /\ StartUp \in Nat

VARIABLES
  held,       (* what the host reported for the last frame: the edge flags *)
              (* button_keyboard_pressed and key_pressed_up ... right      *)
  displayed,  (* is_keyboard_displayed                                     *)
  fade,       (* keyboard_counter                                          *)
  cursor,     (* keyboard_x, keyboard_y                                    *)
  pressed,    (* keys whose key_pressed_ flag is set                       *)
  status,     (* keys of the machine that are down (key_status)            *)
  current,    (* joy_status_current                                        *)
  joy,        (* joy_status: the pad the machine reads                     *)
  starting,   (* frames left until the console is switched on              *)
  on,         (* is_power_on                                               *)
  frames      (* retro_frame_counter, modulo 2: no frame is a stutter      *)

vars == <<held, displayed, fade, cursor, pressed, status, current, joy,
          starting, on, frames>>

Init ==
  /\ held = {}
  /\ displayed = FALSE
  /\ fade = 0
  /\ cursor = [x |-> 1, y |-> 2]
  /\ pressed = {}
  /\ status = {}
  /\ current = {}
  /\ joy = {}
  /\ starting = StartUp
  /\ on = TRUE
  /\ frames = 0

Shown(h) == IF "SELECT" \in h \ held THEN ~displayed ELSE displayed

(* Mutant: what is left of the fading below one step stays. *)
FadedNotClamped(h) ==
  IF Shown(h) THEN (IF fade + Step >= Delay THEN Delay ELSE fade + Step)
              ELSE (IF fade >= Step THEN fade - Step ELSE fade)

Faded(h) ==
  IF Shown(h) THEN (IF fade + Step >= Delay THEN Delay ELSE fade + Step)
              ELSE (IF fade >= Step THEN fade - Step ELSE 0)

OnReset(c) == c.x = 0 /\ c.y \in {1, 2}

Up(c) ==
  IF c.y = 0 THEN c ELSE [c EXCEPT !.y = IF OnReset(c) THEN 0 ELSE @ - 1]

(* Mutant: the last row is not the end. *)
DownFurther(c) == [c EXCEPT !.y = IF OnReset(c) THEN 3 ELSE @ + 1]

Down(c) ==
  IF c.y = 3 THEN c ELSE [c EXCEPT !.y = IF OnReset(c) THEN 3 ELSE @ + 1]

Left(c) == IF c.x = 0 THEN c ELSE [c EXCEPT !.x = @ - 1]

Right(c) == IF c.x = 3 THEN c ELSE [c EXCEPT !.x = @ + 1]

(* The cursor follows the directions pressed since the last frame. *)
Moved(h) ==
  LET new == IF Shown(h) THEN h \ held ELSE {}
      u == IF "up" \in new THEN Up(cursor) ELSE cursor
      d == IF "down" \in new THEN Down(u) ELSE u
      l == IF "left" \in new THEN Left(d) ELSE d
  IN  IF "right" \in new THEN Right(l) ELSE l

(* START is the console's EN as well; POWER is idle while it starts up. *)
HostKeys(h) ==
  ((h \cap Keys) \cup (IF "START" \in h THEN {"EN"} ELSE {}))
    \ (IF starting > 0 THEN {"POWER"} ELSE {})

(* The keys pressed in this frame. The pad's buttons press the key under   *)
(* the cursor, unless a key looked at before has taken the cursor away.    *)
Asked(h) ==
  LET under == KeyAt(Moved(h))
  IN  HostKeys(h) \cup
        (IF /\ Shown(h)
            /\ h \cap Buttons # {}
            /\ \A k \in HostKeys(h) : ~Comes(k, under)
            /\ ~(under = "POWER" /\ starting > 0)
         THEN {under} ELSE {})

(* The cursor ends on the last key pressed; on the reset key it keeps to   *)
(* the row it is nearer to.                                                *)
CursorAfter(h) ==
  IF Asked(h) = {} THEN Moved(h)
  ELSE LET last == CHOOSE k \in Asked(h) : \A j \in Asked(h) : ~Comes(k, j)
           c == Moved(h)
       IN  IF last = "RESET"
           THEN [x |-> 0, y |-> IF "POWER" \in Asked(h) \/ c.y < 2 THEN 1 ELSE 2]
           ELSE CHOOSE d \in Cells : KeyAt(d) = last

(* Mutant: keys stay down while the overlay is open too. *)
ReleasedWhenGone(h) ==
  IF Faded(h) > 0
  THEN (pressed \cap Switches) \ Asked(h)
  ELSE pressed \ Asked(h)

(* Keys let go. While the overlay fades away they stay down. *)
Released(h) ==
  IF ~Shown(h) /\ Faded(h) > 0
  THEN (pressed \cap Switches) \ Asked(h)
  ELSE pressed \ Asked(h)

(* The flag a key clears when it is let go. For 9 the code names 0. *)
FlagOf(k) == IF k = "9" THEN "0" ELSE k

(* Mutant: the pad plays on while the overlay is open. *)
PadIsFreeAlways(h) == pressed = {}

(* The pad plays: no overlay, and no key down as the frame begins. *)
PadIsFree(h) == ~Shown(h) /\ Faded(h) = 0 /\ pressed = {}

(* What the pad sends: START presses both buttons. *)
Sent(h) ==
  (h \cap (Directions \cup Buttons)) \cup (IF "START" \in h THEN Buttons ELSE {})

(* START closes the overlay, and so do B and a key of the host's keyboard. *)
Closes(h) ==
  \/ Shown(h) /\ "START" \in h
  \/ Asked(h) # {} /\ "B" \in h
  \/ h \cap (Keys \ {"POWER", "RESET", "PAUSE"}) # {}

(* RetroRun with the controls h held. *)
RetroRun(h) ==
  /\ held' = h
  /\ displayed' = (Shown(h) /\ ~Closes(h))
  /\ fade' = Faded(h)
  /\ cursor' = CursorAfter(h)
  /\ pressed' = (pressed \cup Asked(h)) \ {FlagOf(k) : k \in Released(h)}
  /\ status' = (status \cup (Asked(h) \cap MachineKeys)) \ Released(h)
  /\ current' = IF PadIsFree(h) THEN Sent(h)
                ELSE IF Shown(h) /\ "START" \in h THEN Buttons ELSE current
  /\ starting' = IF starting > 0 THEN starting - 1 ELSE 0
  /\ on' = IF starting > 0 THEN starting = 1
           ELSE IF "POWER" \in Asked(h) \ pressed THEN ~on ELSE on
  /\ joy' = IF on' THEN current' ELSE joy
  /\ frames' = 1 - frames

(* A frame in which the player presses only keys that are in use. *)
Frame == \E h \in HostInputs : Asked(h) \cap Unused = {} /\ RetroRun(h)

(* RetroLoadGame, for a first or another game: keys stay as they are. *)
LoadGame ==
  /\ cursor' = [x |-> 1, y |-> 2]
  /\ frames' = 0
  /\ UNCHANGED <<held, displayed, fade, pressed, status, current, joy,
                 starting, on>>

Next == Frame \/ LoadGame

Spec == Init /\ [][Next]_vars

(* The host goes on calling RetroRun. *)
FairSpec == Spec /\ WF_vars(Frame)
-----------------------------------------------------------------------------
(* The type invariant: the cursor stays on the overlay. *)
TypeOK ==
  /\ held \subseteq Controls
  /\ displayed \in BOOLEAN
  /\ fade \in 0 .. Delay
  /\ cursor \in Cells
  /\ pressed \subseteq Keys
  /\ status \subseteq MachineKeys
  /\ current \subseteq Directions \cup Buttons
  /\ joy \subseteq Directions \cup Buttons
  /\ starting \in 0 .. StartUp
  /\ on \in BOOLEAN
  /\ frames \in {0, 1}

(* The keys the host holds, of those the machine reads. *)
KeysHeld ==
  ((held \cap Keys) \cup (IF "START" \in held THEN {"EN"} ELSE {}))
    \cap MachineKeys

(* No key is stuck and none is missed: what the host holds is down in the  *)
(* machine; while the overlay is open at most one more is, and only while  *)
(* a button of the pad presses it, however the cursor slides and whatever  *)
(* keys are pressed at once; and when the overlay has faded away, by SELECT *)
(* or by the press that closed it, nothing else is.                        *)
KeysAreHeld ==
  /\ KeysHeld \subseteq status
  /\ ~displayed /\ fade = 0 => status \subseteq KeysHeld
  /\ displayed /\ held \cap Buttons = {} => status \subseteq KeysHeld
  /\ displayed => \E k \in MachineKeys : status \subseteq KeysHeld \cup {k}

(* While the overlay was and stays open over a running game, the game sees *)
(* no direction it did not see before: the directions move the cursor.     *)
OverlayMutesPad ==
  [][ on /\ displayed /\ displayed' => joy' \cap Directions \subseteq joy ]_vars

(* When the player settles on some directions and buttons, with the        *)
(* overlay closed and the console on, the machine comes to read exactly    *)
(* these, and no key is left down.                                         *)
MachineFollowsHost ==
  \A h \in HostInputs \cap SUBSET (Directions \cup Buttons) :
    <>[](held = h /\ ~displayed /\ on) => <>[](joy = h /\ status = {})
=============================================================================
