------------------------------ MODULE CartBank ------------------------------
(***************************************************************************)
(* The cartridge on the memory bus (vm/scv/memory.cpp) and the port that   *)
(* selects its bank (vm/scv/io.cpp, PC5 and PC6). A cart has four banks of *)
(* ROM; its RAM, if any, covers part of some banks, and with a battery it  *)
(* is kept in a file of its own between games. Carts come and go, the      *)
(* machine is reset, saved and restored, and the program may be killed,    *)
(* in the middle of writing a file too. A file that cannot be opened for   *)
(* writing is left out: the save directory is writable.                    *)
(***************************************************************************)
EXTENDS Integers, Functions

CONSTANTS
  Carts,         (* the games                                              *)
  RamBanks,      (* banks each game's RAM is seen in, none without RAM     *)
  BatteryCarts,  (* the games whose RAM is kept (BLOCK_TYPE_SRAM)          *)
  Bytes,         (* what a game writes                                     *)
  StatesAreUsed, (* whether the player saves and restores states           *)
  NULL

Banks == 0 .. 3

ASSUME CartAssumption ==
  /\ RamBanks \in [Carts -> SUBSET Banks]
  /\ BatteryCarts \subseteq {c \in Carts : RamBanks[c] # {}}
  /\ StatesAreUsed \in BOOLEAN
  /\ NULL \notin Carts

(* What RAM holds. A game's bytes are told from those of another; TORN is  *)
(* the file left by a program killed while it wrote it.                    *)
VOID == <<"0xff", 0>>
ZERO == <<"0x00", 0>>
TORN == <<"torn", 0>>
ByteOf(c, b) == <<c, b>>

VARIABLES
  running,  (* the program runs                                            *)
  inserted, (* cart_inserted: the game whose cart is in, or NULL           *)
  ramUsed,  (* ram_used, and the banks, path and size of that game's RAM   *)
  sram,     (* what the RAM holds                                          *)
  pc,       (* PC5 and PC6 of the port C latch, as a bank                  *)
  curBank,  (* cur_bank, the bank the pages were set to                    *)
  window,   (* what the pages of the RAM area lead to: "ram" or "rom"      *)
  patched,  (* history: the game wrote to the ROM of its cart              *)
  file,     (* each game's save file, NULL when there is none              *)
  saved     (* what a save state kept, NULL when there is none             *)

bus == <<pc, curBank, window>>
vars == <<running, inserted, ramUsed, sram, bus, patched, file, saved>>

HasBattery(c) == c \in BatteryCarts

(* Mutant: set_bank does not ask whether the RAM is in use. *)
SetBankAnyRam(c, used, bank) ==
  /\ curBank' = bank
  /\ window' = IF c # NULL /\ bank \in RamBanks[c] THEN "ram" ELSE "rom"

(* set_bank, for a cart whose RAM is in use or not. *)
SetBank(c, used, bank) ==
  /\ curBank' = bank
  /\ window' = IF used /\ bank \in RamBanks[c] THEN "ram" ELSE "rom"

(* VM::reset of the port and the bus. *)
ResetBus(c, used) == pc' = 0 /\ SetBank(c, used, 0)

(* Mutant: the RAM of a damaged cart is saved too. *)
FilesAfterAnySave ==
  IF inserted # NULL /\ HasBattery(inserted)
  THEN [file EXCEPT ![inserted] = sram]
  ELSE file

(* save_cart, as the files it leaves. *)
FilesAfterSave ==
  IF inserted # NULL /\ ramUsed /\ HasBattery(inserted)
  THEN [file EXCEPT ![inserted] = sram]
  ELSE file

Init ==
  /\ running = TRUE
  /\ inserted = NULL
  /\ ramUsed = FALSE
  /\ sram = VOID
  /\ pc = 0
  /\ curBank = 0
  /\ window = "rom"
  /\ patched = FALSE
  /\ file = [c \in Carts |-> NULL]
  /\ saved = NULL

(* Mutant: neither the header nor the CRC of a save file is looked at. *)
IsThere(contents) == contents # NULL

(* Mutant: the CRC of a save file never fits. *)
IsNeverWhole(contents) == FALSE

(* The checks of open_cart on a save file: its header and its CRC. *)
IsWhole(contents) == contents \notin {NULL, TORN}

(* open_cart of a good cart, after closing the one in place: the RAM starts *)
(* from the file, or from zero when there is none. A torn file is found by *)
(* its header or its CRC and removed.                                      *)
OpenCart(c) ==
  /\ running
  /\ LET files == FilesAfterSave
         kept == HasBattery(c) /\ IsWhole(files[c])
     IN  /\ sram' = CASE kept -> files[c]
                      [] ~kept /\ RamBanks[c] # {} -> ZERO
                      [] OTHER -> VOID
         /\ file' = IF HasBattery(c) /\ files[c] = TORN
                    THEN [files EXCEPT ![c] = NULL] ELSE files
  /\ inserted' = c
  /\ ramUsed' = (RamBanks[c] # {})
  /\ patched' = FALSE
  /\ ResetBus(c, RamBanks[c] # {})
  /\ UNCHANGED <<running, saved>>

(* open_cart of a file that is no cart, or, when its blocks are read and   *)
(* the CRC of the whole is wrong, of a damaged one: the latter stays       *)
(* inserted, with its ROM erased and its RAM out of use.                   *)
OpenBadCart(c, crcIsWrong) ==
  /\ running
  /\ file' = FilesAfterSave
  /\ inserted' = IF crcIsWrong THEN c ELSE NULL
  /\ ramUsed' = FALSE
  /\ sram' = VOID
  /\ patched' = FALSE
  /\ ResetBus(c, FALSE)
  /\ UNCHANGED <<running, saved>>

(* Mutant: the cart is cleared and its RAM not saved before. *)
CloseCartUnsaved ==
  /\ running
  /\ inserted # NULL
  /\ inserted' = NULL
  /\ ramUsed' = FALSE
  /\ sram' = VOID
  /\ patched' = FALSE
  /\ ResetBus(inserted, FALSE)
  /\ UNCHANGED <<running, file, saved>>

(* RetroUnloadGame closes a cart that is inserted. *)
CloseCart ==
  /\ running
  /\ inserted # NULL
  /\ file' = FilesAfterSave
  /\ inserted' = NULL
  /\ ramUsed' = FALSE
  /\ sram' = VOID
  /\ patched' = FALSE
  /\ ResetBus(inserted, FALSE)
  /\ UNCHANGED <<running, saved>>

(* The RAM is saved when the player switches the machine off or resets it. *)
SaveCart ==
  /\ running
  /\ file' = FilesAfterSave
  /\ UNCHANGED <<running, inserted, ramUsed, sram, bus, patched, saved>>

(* VM::reset keeps the RAM of the cart. *)
Reset ==
  /\ running
  /\ ResetBus(inserted, ramUsed)
  /\ UNCHANGED <<running, inserted, ramUsed, sram, patched, file, saved>>

(* IO::write_io8: the bus is told when PC5 or PC6 changes. *)
WritePortC(bank) ==
  /\ running
  /\ pc' = bank
  /\ IF bank # pc
     THEN SetBank(inserted, ramUsed, bank)
     ELSE UNCHANGED <<curBank, window>>
  /\ UNCHANGED <<running, inserted, ramUsed, sram, patched, file, saved>>

(* A write to the RAM area or, with inRom, to the rest of the bank. The    *)
(* pages of ROM are mapped for writing as well: the second SET_BANK of     *)
(* set_bank overrides the first, which had made them read only.            *)
WriteCart(b, inRom) ==
  /\ running
  /\ inserted # NULL
  /\ IF window = "ram" /\ ~inRom
     THEN sram' = ByteOf(inserted, b) /\ UNCHANGED patched
     ELSE patched' = TRUE /\ UNCHANGED sram
  /\ UNCHANGED <<running, inserted, ramUsed, bus, file, saved>>

SaveState ==
  /\ StatesAreUsed
  /\ running
  /\ saved' = [inserted |-> inserted, ramUsed |-> ramUsed, sram |-> sram,
               pc |-> pc, curBank |-> curBank]
  /\ UNCHANGED <<running, inserted, ramUsed, sram, bus, patched, file>>

(* A state is restored to the game it was saved from, as frontends offer   *)
(* it. IO::load_state calls SetValue where GetValue is meant: the port     *)
(* latch stays. The ROM is not in the state.                               *)
LoadState ==
  /\ running
  /\ saved # NULL
  /\ saved.inserted = inserted
  /\ ramUsed' = saved.ramUsed
  /\ sram' = saved.sram
  /\ SetBank(inserted, saved.ramUsed, saved.curBank)
  /\ UNCHANGED <<running, inserted, pc, patched, file, saved>>

(* The program is killed. Killed while it writes a save file, it leaves it *)
(* torn; save states are the frontend's and stay.                          *)
Kill ==
  /\ running
  /\ running' = FALSE
  /\ inserted' = NULL
  /\ ramUsed' = FALSE
  /\ sram' = VOID
  /\ patched' = FALSE
  /\ ResetBus(NULL, FALSE)
  /\ file' \in {file} \cup
       {[file EXCEPT ![c] = TORN] :
          c \in {d \in BatteryCarts : inserted = d /\ ramUsed}}
  /\ UNCHANGED saved

Start ==
  /\ ~running
  /\ running' = TRUE
  /\ UNCHANGED <<inserted, ramUsed, sram, bus, patched, file, saved>>

Next ==
  \/ \E c \in Carts : OpenCart(c)
  \/ \E c \in Carts, crcIsWrong \in BOOLEAN : OpenBadCart(c, crcIsWrong)
  \/ CloseCart
  \/ SaveCart
  \/ Reset
  \/ \E bank \in Banks : WritePortC(bank)
  \/ \E b \in Bytes, inRom \in BOOLEAN : WriteCart(b, inRom)
  \/ SaveState
  \/ LoadState
  \/ Kill
  \/ Start

Spec == Init /\ [][Next]_vars

----------------------------------------------------------------------------
RamOf(c) == {VOID, ZERO} \cup {ByteOf(c, b) : b \in Bytes}

AnyRam == {VOID} \cup UNION {RamOf(c) : c \in Carts}

(* Type invariant of the cart, the bus and the files. *)
TypeOK ==
  /\ {running, ramUsed, patched} \subseteq BOOLEAN
  /\ inserted \in Carts \cup {NULL}
  /\ sram \in AnyRam
  /\ {pc, curBank} \subseteq Banks
  /\ window \in {"ram", "rom"}
  /\ file \in [Carts -> AnyRam \cup {TORN, NULL}]

(* The pages of the RAM area lead where the cart in place and the current  *)
(* bank say, although set_bank runs only on port writes and resets: no     *)
(* cart change, damaged cart or restored state leaves the RAM of another   *)
(* configuration mapped.                                                   *)
WindowFollowsCart ==
  window = "ram" <=>
    inserted # NULL /\ ramUsed /\ curBank \in RamBanks[inserted]

(* A save file holds what its own game had in RAM and nothing else: not    *)
(* another game's RAM, not the contents of an empty slot, not the erased   *)
(* RAM of a damaged cart.                                                  *)
SaveFilesAreTheGames ==
  \A c \in Carts :
    file[c] \in {NULL, TORN, ZERO} \cup {ByteOf(c, b) : b \in Bytes}

(* A game with a battery never leaves the running machine without its RAM  *)
(* in its file, whatever takes its place.                                  *)
NoProgressLost ==
  [][/\ running /\ running'
     /\ inserted # NULL /\ ramUsed /\ HasBattery(inserted)
     /\ inserted' # inserted
     => file'[inserted] = sram]_vars

(* The next game of a battery cart starts from what its file holds: a      *)
(* whole file is never dropped or overwritten before it has been read.     *)
GameResumes ==
  [][\A c \in BatteryCarts :
       /\ inserted # c /\ inserted' = c /\ ramUsed'
       /\ file[c] \notin {NULL, TORN}
       => sram' = file[c]]_vars

(* "BANK 1 / PC5 = 1 and PC6 = 0" (memory.h:43), and so on: the bank that  *)
(* is mapped is the one the port names.                                    *)
BankFollowsPort == curBank = pc

(* "ROM (Read Only Memory)" (memory.h:37): no game changes its ROM.        *)
RomIsReadOnly == ~patched
=============================================================================
