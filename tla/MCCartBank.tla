----------------------------- MODULE MCCartBank -----------------------------
EXTENDS CartBank

(* Genuine carts: two with a battery and one without.                      *)
MCCarts == {"Dragon Slayer", "Pop & Chips", "Pole Position II"}
MCRamBanks ==
  [c \in MCCarts |-> IF c = "Pole Position II" THEN {2, 3} ELSE {1, 3}]
MCBattery == {"Dragon Slayer", "Pop & Chips"}
=============================================================================
