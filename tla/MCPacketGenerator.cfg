SPECIFICATION Spec
CONSTANTS
  SIZE_CRC = 4
  SIZE_SEQ_GOLD = 4
  SIZE_BUFFER = 1008
  polinom <- polinomMC
  DataFiles <- DataFilesMC
  GoldFiles <- GoldFilesMC
  Gaps = {0, 1, 7, 8, 29}
INVARIANTS PacketAsSpecified ErrorsDetected
CHECK_DEADLOCK FALSE
