SPECIFICATION LoopSpec
CONSTANTS
  count_subcarriers = 12
  step_RS = 3
  def_interval = 1
  cyclic_prefix = 1
  count_ofdm_in_slot = 2
  LENGTH_PSS = 2
  MsgSizes = {0, 1, 2, 3, 4, 5, 6, 7, 8, 9, 10, 11, 12, 13, 14, 15, 16, 17, 18, 19, 20, 21, 22, 23, 24, 25, 26, 27, 28, 29, 30}
  Leads <- Beginnings
  Tails <- Ends
INVARIANTS TypeOK NoOverrun SlotsComplete RoundTrip EndToEnd TestPrograms
CHECK_DEADLOCK FALSE
