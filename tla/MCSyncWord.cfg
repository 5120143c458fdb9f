SPECIFICATION MCSpec
CONSTANTS
  MaxPulses = 3
  Data = {d0, d1}
  Words = {d0, d1}
INVARIANTS
  OnePulsePerRequest
  WordsArriveIntact
  ReadsAnswered
PROPERTY PulseDelivered
