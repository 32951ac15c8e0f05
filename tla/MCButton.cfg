SPECIFICATION LiveSpec
CONSTANTS
  DebounceTicks = 2
  ShortTicks = 3
  LongTicks = 5
  SerialTicks = 2
  Tolerance = 2
  HoldTicks = 4
  Word = 16
  TimeWord = 20
  MaxHeld = 30
INVARIANTS TypeOK
PROPERTIES ResetIsMeant HoldIsHonoured ComesToRest
