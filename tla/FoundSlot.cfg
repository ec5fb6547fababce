SPECIFICATION LoopSpec
CONSTANTS
  count_subcarriers = 12
  step_RS = 3
  def_interval = 1
  cyclic_prefix = 1
  count_ofdm_in_slot = 2
  LENGTH_PSS = 2
  MsgSizes = {10}
  Leads <- Beginnings
  Tails <- Ends
INVARIANTS FoundSlotDecoded
CHECK_DEADLOCK FALSE
