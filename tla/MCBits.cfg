\* Every 2-nibble hex string against the 6-bit digest width, every 4-bit
\* size_t, and 500 protobuf notes with 8-bit values.
CONSTANTS
  W = 6
  HexLen = 2
  VW = 8
  SW = 4
  W128 = 12
  W256 = 16
  W384 = 20
  P = 5
  Radix = 8
  FrBytes = 2
  GBytes = 3
  G2Bytes = 4
SPECIFICATION Spec
INVARIANT HexRoundTrip
INVARIANT SizeTBits
INVARIANT NoteParse
 
INVARIANT FixedWidthHex
