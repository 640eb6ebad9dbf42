SPECIFICATION AlgSpec
CONSTANTS
  Keys = {0, 1, 2, 3, 4, 5}
  Quotes = {7, 8}
  Capacity = 5
  MaxLegacy = 4
  BASE = 2
  I64_MAX = 900000000
  MANT = 2684
  DIGITS = 4
  PC_FACTOR_SIZE = 8
  STORE_MAX = 1000000
  EXP_MAX = 16
  ONE_DIGITS = 3
  PD_EMA_MAX_DIFF = 41
  PD_EMA_DECAY <- DecayRate
  PD_EMA_EXPO <- DecayExpo
  expo_ <- PriceExpo
  SCHAR_MAX = 2
  WIDTH = 15
  BYTE = 256
  ALPHA = 58
  FACTOR = 13657
  hsize_ = 2
  MaxQuotes = 4
  MaxText = 4
  MaxUpdates = 4
  MaxAccounts = 3
INVARIANTS
  SortsStably PriceModelSound ArithmeticSound ConversionsInvert ContainersSound TxSound
PROPERTIES
  Monotone ListImplementsSet
CHECK_DEADLOCK FALSE
