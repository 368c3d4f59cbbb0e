SPECIFICATION Spec
CONSTANTS
  Carts <- MCCarts
  RamBanks <- MCRamBanks
  BatteryCarts <- MCBattery
  Bytes = {1}
  StatesAreUsed = TRUE
  NULL = NULL
INVARIANTS
  TypeOK
  WindowFollowsCart
  SaveFilesAreTheGames
PROPERTIES
  NoProgressLost
  GameResumes
