--------------------------- MODULE CartBankProofs ---------------------------
(***************************************************************************)
(* For every set of games, whatever banks their RAM is seen in and whether *)
(* they have a battery: the RAM window follows the cart and the bank, save *)
(* files hold their own game's RAM, no game that is replaced loses it, and *)
(* it resumes from it.                                                     *)
(***************************************************************************)
EXTENDS CartBank, TLAPS

(* What a game's own RAM may hold once it is in use. *)
OwnRam(c) == {ZERO} \cup {ByteOf(c, b) : b \in Bytes}

Contents == AnyRam \cup {TORN, NULL}

(* RAM in use is the RAM of the cart in place. *)
RamIsOwn == ramUsed => inserted \in Carts /\ sram \in OwnRam(inserted)

(* A saved state was right when it was saved. *)
SavedIsRight ==
  saved # NULL =>
    /\ saved.ramUsed \in BOOLEAN
    /\ saved.sram \in AnyRam
    /\ saved.curBank \in Banks
    /\ saved.ramUsed => /\ saved.inserted \in Carts
                        /\ saved.sram \in OwnRam(saved.inserted)

(* The inductive invariant. *)
CartInv ==
  /\ TypeOK
  /\ WindowFollowsCart
  /\ SaveFilesAreTheGames
  /\ RamIsOwn
  /\ SavedIsRight

(* A game's own RAM is some RAM. *)
LEMMA OwnRamIsRam ==
  ASSUME NEW c \in Carts
  PROVE  OwnRam(c) \subseteq AnyRam
BY DEF OwnRam, AnyRam, RamOf

(* The RAM of an empty slot is some RAM. *)
LEMMA VoidIsRam == VOID \in AnyRam
BY DEF AnyRam

(* set_bank maps the RAM exactly where the cart in place has it. *)
LEMMA SetBankMaps ==
  ASSUME NEW c, NEW used \in BOOLEAN, NEW bank \in Banks,
         SetBank(c, used, bank),
         inserted' = c \/ ~used, ramUsed' = used, used => c # NULL
  PROVE  /\ WindowFollowsCart'
         /\ curBank' \in Banks
         /\ window' \in {"ram", "rom"}
BY DEF SetBank, WindowFollowsCart

(* save_cart puts the RAM of a battery game in its file, and touches no    *)
(* other.                                                                  *)
LEMMA SaveWritesOwnFile ==
  ASSUME CartInv
  PROVE  /\ FilesAfterSave \in [Carts -> Contents]
         /\ \A c \in Carts :
              FilesAfterSave[c] \in {NULL, TORN} \cup OwnRam(c)
         /\ \A c \in Carts : c # inserted => FilesAfterSave[c] = file[c]
         /\ inserted # NULL /\ ramUsed /\ HasBattery(inserted)
              => FilesAfterSave[inserted] = sram
<1>1. file \in [Carts -> Contents] /\ sram \in Contents
  BY DEF CartInv, TypeOK, Contents
<1>2. \A c \in Carts : file[c] \in {NULL, TORN} \cup OwnRam(c)
  BY DEF CartInv, SaveFilesAreTheGames, OwnRam
<1>3. CASE inserted # NULL /\ ramUsed /\ HasBattery(inserted)
  <2>1. inserted \in Carts /\ sram \in OwnRam(inserted)
    BY <1>3 DEF CartInv, RamIsOwn
  <2>2. FilesAfterSave = [file EXCEPT ![inserted] = sram]
    BY <1>3 DEF FilesAfterSave
  <2> QED
    BY <1>1, <1>2, <2>1, <2>2
<1>4. CASE ~(inserted # NULL /\ ramUsed /\ HasBattery(inserted))
  <2>1. FilesAfterSave = file
    BY <1>4 DEF FilesAfterSave
  <2> QED
    BY <1>1, <1>2, <1>4, <2>1
<1> QED
  BY <1>3, <1>4

(* The program starts with an empty slot and no save files. *)
LEMMA CartInit == Init => CartInv
<1> SUFFICES ASSUME Init
             PROVE  CartInv
  OBVIOUS
<1>1. TypeOK
  <2>1. {running, ramUsed, patched} \subseteq BOOLEAN
    BY DEF Init
  <2>2. {pc, curBank} \subseteq Banks
    BY DEF Init, Banks
  <2>3. file \in [Carts -> AnyRam \cup {TORN, NULL}]
    BY DEF Init
  <2> QED
    BY <2>1, <2>2, <2>3, VoidIsRam DEF Init, TypeOK
<1>2. WindowFollowsCart /\ RamIsOwn /\ SavedIsRight
  BY DEF Init, WindowFollowsCart, RamIsOwn, SavedIsRight
<1>3. SaveFilesAreTheGames
  BY DEF Init, SaveFilesAreTheGames
<1> QED
  BY <1>1, <1>2, <1>3 DEF CartInv

(* The game whose cart is opened finds its RAM in its file, or cleared.    *)
LEMMA OpenCartLoads ==
  ASSUME CartInv, NEW c \in Carts, OpenCart(c)
  PROVE  /\ sram' \in AnyRam
         /\ ramUsed' => sram' \in OwnRam(c)
         /\ file' \in [Carts -> Contents]
         /\ \A d \in Carts : file'[d] \in {NULL, TORN} \cup OwnRam(d)
<1> DEFINE files == FilesAfterSave
           kept == HasBattery(c) /\ IsWhole(files[c])
<1>1. /\ files \in [Carts -> Contents]
      /\ \A d \in Carts : files[d] \in {NULL, TORN} \cup OwnRam(d)
  BY SaveWritesOwnFile
<1>2. /\ sram' = CASE kept -> files[c]
                   [] ~kept /\ RamBanks[c] # {} -> ZERO
                   [] OTHER -> VOID
      /\ file' = IF HasBattery(c) /\ files[c] = TORN
                 THEN [files EXCEPT ![c] = NULL] ELSE files
      /\ ramUsed' = (RamBanks[c] # {})
  BY DEF OpenCart
<1> HIDE DEF files
<1>3. ZERO \in OwnRam(c)
  BY DEF OwnRam
<1>4. kept => files[c] \in OwnRam(c)
  BY <1>1 DEF IsWhole
<1>5. /\ file' \in [Carts -> Contents]
      /\ \A d \in Carts : file'[d] \in {NULL, TORN} \cup OwnRam(d)
  <2>1. CASE HasBattery(c) /\ files[c] = TORN
    <3>1. file' = [files EXCEPT ![c] = NULL] /\ NULL \in Contents
      BY <1>2, <2>1 DEF Contents
    <3> QED
      BY <1>1, <3>1
  <2>2. CASE ~(HasBattery(c) /\ files[c] = TORN)
    BY <1>1, <1>2, <2>2
  <2> QED
    BY <2>1, <2>2
<1>6. sram' \in AnyRam /\ (ramUsed' => sram' \in OwnRam(c))
  <2>1. CASE kept
    <3>1. sram' = files[c]
      BY <1>2, <2>1
    <3> QED
      BY <1>4, <2>1, <3>1, OwnRamIsRam
  <2>2. CASE ~kept /\ RamBanks[c] # {}
    <3>1. sram' = ZERO
      BY <1>2, <2>2
    <3> QED
      BY <1>3, <3>1, OwnRamIsRam
  <2>3. CASE ~kept /\ RamBanks[c] = {}
    <3>1. sram' = VOID /\ ~ramUsed'
      BY <1>2, <2>3
    <3> QED
      BY <3>1, VoidIsRam
  <2> QED
    BY <2>1, <2>2, <2>3
<1> QED
  BY <1>5, <1>6

(* What is common to all steps that put nothing in the slot, or a cart     *)
(* that cannot be used: the RAM is out of use and the bus is reset.        *)
LEMMA SlotIsUnused ==
  ASSUME CartInv,
         running' \in BOOLEAN, inserted' \in Carts \cup {NULL},
         ramUsed' = FALSE, sram' = VOID, patched' = FALSE,
         pc' = 0, curBank' = 0, window' = "rom", UNCHANGED saved,
         file' \in [Carts -> Contents],
         \A d \in Carts : file'[d] \in {NULL, TORN} \cup OwnRam(d)
  PROVE  CartInv'
<1>1. WindowFollowsCart' /\ RamIsOwn'
  BY DEF WindowFollowsCart, RamIsOwn
<1>2. SaveFilesAreTheGames'
  BY DEF SaveFilesAreTheGames, OwnRam
<1>3. SavedIsRight'
  BY DEF CartInv, SavedIsRight
<1>4. {running', ramUsed', patched'} \subseteq BOOLEAN
  OBVIOUS
<1>5. TypeOK'
  BY <1>4, VoidIsRam DEF TypeOK, Contents, Banks
<1> QED
  BY <1>1, <1>2, <1>3, <1>5 DEF CartInv

(* No step breaks the invariant. *)
LEMMA CartNext == CartInv /\ [Next]_vars => CartInv'
<1> SUFFICES ASSUME CartInv, [Next]_vars
             PROVE  CartInv'
  OBVIOUS
<1>a. /\ running \in BOOLEAN /\ ramUsed \in BOOLEAN /\ patched \in BOOLEAN
      /\ inserted \in Carts \cup {NULL} /\ sram \in AnyRam
      /\ pc \in Banks /\ curBank \in Banks /\ 0 \in Banks
      /\ file \in [Carts -> Contents]
  BY DEF CartInv, TypeOK, Contents, Banks
<1>b. \A c \in Carts : file[c] \in {NULL, TORN} \cup OwnRam(c)
  BY DEF CartInv, SaveFilesAreTheGames, OwnRam
<1>c. ramUsed => inserted # NULL
  BY CartAssumption DEF CartInv, RamIsOwn
<1>1. ASSUME NEW c \in Carts, OpenCart(c)
      PROVE  CartInv'
  <2>1. /\ sram' \in AnyRam
        /\ ramUsed' => sram' \in OwnRam(c)
        /\ file' \in [Carts -> Contents]
        /\ \A d \in Carts : file'[d] \in {NULL, TORN} \cup OwnRam(d)
    BY <1>1, OpenCartLoads
  <2>2. /\ inserted' = c /\ c # NULL
        /\ ramUsed' = (RamBanks[c] # {}) /\ ramUsed' \in BOOLEAN
        /\ patched' = FALSE /\ pc' = 0
        /\ SetBank(c, RamBanks[c] # {}, 0)
        /\ UNCHANGED <<running, saved>>
    BY <1>1, CartAssumption DEF OpenCart, ResetBus
  <2>3. /\ WindowFollowsCart' /\ curBank' \in Banks
        /\ window' \in {"ram", "rom"}
    BY <1>a, <2>2, SetBankMaps
  <2>4. {running', ramUsed', patched'} \subseteq BOOLEAN
    BY <1>a, <2>2
  <2>5. TypeOK'
    BY <1>a, <2>1, <2>2, <2>3, <2>4 DEF TypeOK, Contents
  <2>6. RamIsOwn' /\ SavedIsRight' /\ SaveFilesAreTheGames'
    BY <2>1, <2>2
       DEF RamIsOwn, SavedIsRight, CartInv, SaveFilesAreTheGames, OwnRam
  <2> QED
    BY <2>3, <2>5, <2>6 DEF CartInv
<1>2. ASSUME NEW c \in Carts, NEW crcIsWrong \in BOOLEAN,
             OpenBadCart(c, crcIsWrong)
      PROVE  CartInv'
  <2>1. /\ inserted' \in Carts \cup {NULL} /\ running' \in BOOLEAN
        /\ ramUsed' = FALSE /\ sram' = VOID /\ patched' = FALSE
        /\ pc' = 0 /\ curBank' = 0 /\ window' = "rom" /\ UNCHANGED saved
    BY <1>2, <1>a DEF OpenBadCart, ResetBus, SetBank
  <2>2. /\ file' \in [Carts -> Contents]
        /\ \A d \in Carts : file'[d] \in {NULL, TORN} \cup OwnRam(d)
    BY <1>2, SaveWritesOwnFile DEF OpenBadCart
  <2> QED
    BY <2>1, <2>2, SlotIsUnused
<1>3. CASE CloseCart
  <2>1. /\ inserted' \in Carts \cup {NULL} /\ running' \in BOOLEAN
        /\ ramUsed' = FALSE /\ sram' = VOID /\ patched' = FALSE
        /\ pc' = 0 /\ curBank' = 0 /\ window' = "rom" /\ UNCHANGED saved
    BY <1>3, <1>a DEF CloseCart, ResetBus, SetBank
  <2>2. /\ file' \in [Carts -> Contents]
        /\ \A d \in Carts : file'[d] \in {NULL, TORN} \cup OwnRam(d)
    BY <1>3, SaveWritesOwnFile DEF CloseCart
  <2> QED
    BY <2>1, <2>2, SlotIsUnused
<1>4. CASE SaveCart
  <2>1. /\ file' \in [Carts -> Contents]
        /\ \A c \in Carts : file'[c] \in {NULL, TORN} \cup OwnRam(c)
    BY <1>4, SaveWritesOwnFile DEF SaveCart
  <2>2. UNCHANGED <<running, inserted, ramUsed, sram, pc, curBank, window,
                    patched, saved>>
    BY <1>4 DEF SaveCart, bus
  <2>3. TypeOK' /\ SaveFilesAreTheGames'
    BY <2>1, <2>2
       DEF CartInv, TypeOK, Contents, SaveFilesAreTheGames, OwnRam
  <2> QED
    BY <2>2, <2>3 DEF CartInv, WindowFollowsCart, RamIsOwn, SavedIsRight
<1>5. CASE Reset
  <2>1. /\ pc' = 0 /\ SetBank(inserted, ramUsed, 0)
        /\ UNCHANGED <<running, inserted, ramUsed, sram, patched, file,
                        saved>>
    BY <1>5 DEF Reset, ResetBus
  <2>2. /\ WindowFollowsCart' /\ curBank' \in Banks
        /\ window' \in {"ram", "rom"}
    BY <1>a, <1>c, <2>1, SetBankMaps
  <2>3. TypeOK'
    BY <1>a, <2>1, <2>2 DEF CartInv, TypeOK
  <2> QED
    BY <2>1, <2>2, <2>3
       DEF CartInv, SaveFilesAreTheGames, RamIsOwn, SavedIsRight
<1>6. ASSUME NEW bank \in Banks, WritePortC(bank)
      PROVE  CartInv'
  <2>1. /\ pc' = bank
        /\ UNCHANGED <<running, inserted, ramUsed, sram, patched, file,
                        saved>>
    BY <1>6 DEF WritePortC
  <2>2. /\ WindowFollowsCart' /\ curBank' \in Banks
        /\ window' \in {"ram", "rom"}
    <3>1. CASE bank # pc
      BY <1>6, <1>a, <1>c, <2>1, <3>1, SetBankMaps DEF WritePortC
    <3>2. CASE bank = pc
      BY <1>6, <1>a, <2>1, <3>2
         DEF WritePortC, CartInv, TypeOK, WindowFollowsCart
    <3> QED
      BY <3>1, <3>2
  <2>3. TypeOK'
    BY <1>a, <2>1, <2>2 DEF CartInv, TypeOK
  <2> QED
    BY <2>1, <2>2, <2>3
       DEF CartInv, SaveFilesAreTheGames, RamIsOwn, SavedIsRight
<1>7. ASSUME NEW b \in Bytes, NEW inRom \in BOOLEAN, WriteCart(b, inRom)
      PROVE  CartInv'
  <2>1. UNCHANGED <<running, inserted, ramUsed, pc, curBank, window, file,
                    saved>>
    BY <1>7 DEF WriteCart, bus
  <2>2. inserted \in Carts
    BY <1>7, <1>a DEF WriteCart
  <2>3. ByteOf(inserted, b) \in OwnRam(inserted)
    BY DEF OwnRam
  <2>4. /\ sram' \in AnyRam /\ patched' \in BOOLEAN
        /\ ramUsed => sram' \in OwnRam(inserted)
    BY <1>7, <1>a, <2>2, <2>3, OwnRamIsRam
       DEF WriteCart, CartInv, RamIsOwn
  <2>5. {running', ramUsed', patched'} \subseteq BOOLEAN
    BY <1>a, <2>1, <2>4
  <2>6. TypeOK'
    BY <2>1, <2>4, <2>5 DEF CartInv, TypeOK
  <2> QED
    BY <2>1, <2>2, <2>4, <2>6
       DEF CartInv, WindowFollowsCart, SaveFilesAreTheGames, RamIsOwn,
           SavedIsRight
<1>8. CASE SaveState
  <2>1. UNCHANGED <<running, inserted, ramUsed, sram, pc, curBank, window,
                    patched, file>>
    BY <1>8 DEF SaveState, bus
  <2>2. SavedIsRight'
    BY <1>8, <1>a DEF SaveState, SavedIsRight, CartInv, RamIsOwn
  <2> QED
    BY <2>1, <2>2
       DEF CartInv, TypeOK, WindowFollowsCart, SaveFilesAreTheGames, RamIsOwn
<1>9. CASE LoadState
  <2>1. /\ saved # NULL /\ saved.inserted = inserted
        /\ ramUsed' = saved.ramUsed /\ sram' = saved.sram
        /\ SetBank(inserted, saved.ramUsed, saved.curBank)
        /\ UNCHANGED <<running, inserted, pc, patched, file, saved>>
    BY <1>9 DEF LoadState
  <2>2. /\ saved.ramUsed \in BOOLEAN /\ saved.sram \in AnyRam
        /\ saved.curBank \in Banks
        /\ saved.ramUsed => /\ inserted \in Carts
                            /\ saved.sram \in OwnRam(inserted)
    BY <2>1 DEF CartInv, SavedIsRight
  <2>3. /\ WindowFollowsCart' /\ curBank' \in Banks
        /\ window' \in {"ram", "rom"}
    BY <2>1, <2>2, SetBankMaps, CartAssumption
  <2>4. {running', ramUsed', patched'} \subseteq BOOLEAN
    BY <1>a, <2>1, <2>2
  <2>5. TypeOK'
    BY <2>1, <2>2, <2>3, <2>4 DEF CartInv, TypeOK
  <2> QED
    BY <2>1, <2>2, <2>3, <2>5
       DEF CartInv, SaveFilesAreTheGames, RamIsOwn, SavedIsRight
<1>10. CASE Kill
  <2>1. /\ file' \in [Carts -> Contents]
        /\ \A c \in Carts : file'[c] \in {NULL, TORN} \cup OwnRam(c)
    <3>1. CASE file' = file
      BY <1>a, <1>b, <3>1
    <3>2. ASSUME NEW c \in BatteryCarts, file' = [file EXCEPT ![c] = TORN]
          PROVE  /\ file' \in [Carts -> Contents]
                 /\ \A d \in Carts :
                      file'[d] \in {NULL, TORN} \cup OwnRam(d)
      <4>1. TORN \in Contents
        BY DEF Contents
      <4> QED
        BY <1>a, <1>b, <3>2, <4>1
    <3> QED
      BY <1>10, <3>1, <3>2 DEF Kill
  <2>2. /\ inserted' \in Carts \cup {NULL} /\ running' \in BOOLEAN
        /\ ramUsed' = FALSE /\ sram' = VOID /\ patched' = FALSE
        /\ pc' = 0 /\ curBank' = 0 /\ window' = "rom" /\ UNCHANGED saved
    BY <1>10 DEF Kill, ResetBus, SetBank
  <2> QED
    BY <2>1, <2>2, SlotIsUnused
<1>11. CASE Start
  <2>1. /\ running' = TRUE
        /\ UNCHANGED <<inserted, ramUsed, sram, pc, curBank, window, patched,
                        file, saved>>
    BY <1>11 DEF Start, bus
  <2>2. {running', ramUsed', patched'} \subseteq BOOLEAN
    BY <1>a, <2>1
  <2>3. TypeOK'
    BY <2>1, <2>2 DEF CartInv, TypeOK
  <2> QED
    BY <2>1, <2>3
       DEF CartInv, WindowFollowsCart, SaveFilesAreTheGames, RamIsOwn,
           SavedIsRight
<1>12. CASE UNCHANGED vars
  BY <1>12
     DEF vars, bus, CartInv, TypeOK, WindowFollowsCart, SaveFilesAreTheGames,
         RamIsOwn, SavedIsRight
<1> QED
  BY <1>1, <1>2, <1>3, <1>4, <1>5, <1>6, <1>7, <1>8, <1>9, <1>10, <1>11,
     <1>12 DEF Next

(* The strengthened invariant holds of every behaviour. *)
THEOREM CartInvHolds == Spec => []CartInv
BY CartInit, CartNext, PTL DEF Spec

(* The variables keep their types. *)
THEOREM CartTypeCorrect == Spec => []TypeOK
BY CartInvHolds, PTL DEF CartInv

(* The RAM window follows the cart in place and the current bank.          *)
THEOREM WindowIsRight == Spec => []WindowFollowsCart
BY CartInvHolds, PTL DEF CartInv

(* A save file holds its own game's RAM or nothing of use.                 *)
THEOREM FilesStayTheirOwn == Spec => []SaveFilesAreTheGames
BY CartInvHolds, PTL DEF CartInv

(* A battery game that is replaced, or taken out, while the program runs   *)
(* leaves its RAM in its file.                                             *)
THEOREM ProgressIsKept == Spec => NoProgressLost
<1> DEFINE Leaves == /\ running /\ running'
                     /\ inserted # NULL /\ ramUsed /\ HasBattery(inserted)
                     /\ inserted' # inserted
           Kept == Leaves => file'[inserted] = sram
<1>1. CartInv /\ [Next]_vars => [Kept]_vars
  <2> SUFFICES ASSUME CartInv, [Next]_vars, Leaves
               PROVE  file'[inserted] = sram
    OBVIOUS
  <2>1. FilesAfterSave \in [Carts -> Contents] /\ FilesAfterSave[inserted] = sram
    BY SaveWritesOwnFile
  <2>2. ASSUME NEW c \in Carts, OpenCart(c)
        PROVE  file'[inserted] = sram
    <3>1. /\ inserted' = c
          /\ file' = IF HasBattery(c) /\ FilesAfterSave[c] = TORN
                     THEN [FilesAfterSave EXCEPT ![c] = NULL]
                     ELSE FilesAfterSave
      BY <2>2 DEF OpenCart
    <3>2. inserted # c
      BY <3>1
    <3> QED
      BY <2>1, <3>1, <3>2
  <2>3. ASSUME NEW c \in Carts, NEW crcIsWrong \in BOOLEAN,
               OpenBadCart(c, crcIsWrong)
        PROVE  file'[inserted] = sram
    BY <2>1, <2>3 DEF OpenBadCart
  <2>4. CASE CloseCart
    BY <2>1, <2>4 DEF CloseCart
  <2>5. CASE Kill
    BY <2>5 DEF Kill
  <2> QED
    BY <2>2, <2>3, <2>4, <2>5
       DEF Next, vars, SaveCart, Reset, WritePortC, WriteCart, SaveState,
           LoadState, Start
<1> QED
  BY <1>1, CartInvHolds, PTL DEF Spec, NoProgressLost

(* A battery game starts from what its file holds.                         *)
THEOREM GamesResume == Spec => GameResumes
<1> DEFINE Starts(c) == /\ inserted # c /\ inserted' = c /\ ramUsed'
                        /\ file[c] \notin {NULL, TORN}
           Resumes == \A c \in BatteryCarts : Starts(c) => sram' = file[c]
<1>1. CartInv /\ [Next]_vars => [Resumes]_vars
  <2> SUFFICES ASSUME CartInv, [Next]_vars, NEW c \in BatteryCarts, Starts(c)
               PROVE  sram' = file[c]
    OBVIOUS
  <2>1. c \in Carts /\ c # NULL
    BY CartAssumption
  <2>2. FilesAfterSave[c] = file[c]
    BY <2>1, SaveWritesOwnFile
  <2>3. ASSUME NEW d \in Carts, OpenCart(d)
        PROVE  sram' = file[c]
    <3>1. d = c
      BY <2>3 DEF OpenCart
    <3>2. HasBattery(c) /\ IsWhole(FilesAfterSave[c])
      BY <2>2 DEF HasBattery, IsWhole
    <3>3. sram' = CASE TRUE -> FilesAfterSave[c]
                    [] FALSE -> ZERO
                    [] OTHER -> VOID
      BY <2>3, <3>1, <3>2 DEF OpenCart
    <3> QED
      BY <2>2, <3>3
  <2>4. ASSUME NEW d \in Carts, NEW crcIsWrong \in BOOLEAN,
               OpenBadCart(d, crcIsWrong)
        PROVE  sram' = file[c]
    BY <2>4 DEF OpenBadCart
  <2>5. CASE CloseCart
    BY <2>1, <2>5 DEF CloseCart
  <2>6. CASE Kill
    BY <2>1, <2>6 DEF Kill
  <2> QED
    BY <2>3, <2>4, <2>5, <2>6
       DEF Next, vars, SaveCart, Reset, WritePortC, WriteCart, SaveState,
           LoadState, Start
<1> QED
  BY <1>1, CartInvHolds, PTL DEF Spec, GameResumes
=============================================================================
