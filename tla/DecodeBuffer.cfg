SPECIFICATION FairSpec
CONSTANTS
  LENGTH_PSS = 1
  cyclic_prefix = 1
  count_subcarriers = 2
  count_ofdm_in_slot = 2
  Sizes = {1, 6, 7, 8, 14, 15}
INVARIANTS TypeOK SymbolsInBlock SlotsWellFormed NoOverlap MessagesMatchReference
PROPERTIES SearchAdvances Terminates
CHECK_DEADLOCK FALSE
