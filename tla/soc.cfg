SPECIFICATION Spec
CONSTANTS
  NsPerSec = 8
  HighHz <- MCHighHz
  MidHz <- MCMidHz
  LowHz = 2
  Lines = {13, 14, 15, 20, 21, 24}
  TauLine <- MCTauLine
  Counts = {0, 2}
  Divisors = {1, 2}
  SauLine <- MCSauLine
  SauErrLine <- MCSauErrLine
  BitCycles <- MCBitCycles
  FrameBits <- MCFrameBits
  Parities = {0, 1}
  MaxBytes = 3
  AdcClocks <- MCAdcClocks
  Sources = {0, 2}
  Voltages = {0, 5000}
  Limits = {128}
  Pins = {1, 2, 130}
  InputOnly = {1}
  OutputOnly = {130}
  TiedLow = {}
  Guests = {"timers", "serial", "converter", "ports", "interrupts"}
  SerialInits <- MCSerialInits
  MaxQuantum = 3
  MaxAccesses <- MCMaxAccesses
  Horizon = 5
  MaxFrames = 1
INVARIANTS ArmedOnce TicksOnGrid HighestOffered
PROPERTIES RequestsKept ShiftedGoesOut
CHECK_DEADLOCK FALSE
