SPECIFICATION HostSpec
CONSTANTS
  CsiMax = 2
  MaxRaw = 6
  MaxRecords = 3
  InputByte <- MCInputByte
  Record <- MCRecord
INVARIANTS
  EventMatchesBytes
  SwallowsExactlySequences
  KeysAsPressed
  TerminalLeftAsFound
