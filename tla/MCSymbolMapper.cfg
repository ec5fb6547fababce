SPECIFICATION Spec
CONSTANTS
  Bytes = {1, 35, 69, 103, 137, 171, 205, 239}
  MaxBytes = 4
  Noises <- NoiseSet
  Pads = {0, 2, 4}
INVARIANTS GroupsMatch RoundTrip
CHECK_DEADLOCK FALSE
