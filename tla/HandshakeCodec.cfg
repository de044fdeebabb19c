\* Bytes of 3 values: a session ID of 0 or 1 bytes stays below the width of
\* its length byte as 32 does below 256; peer strings of up to 9 bytes reach
\* every early return of Unmarshal and an empty extension block.
CONSTANTS
  ByteMod = 3
  RandomLength = 1
  MaxSessionIDLen = 1
  MaxExtLen = 1
  MaxVerifyLen = 2
  MaxInputLen = 9
SPECIFICATION Spec
INVARIANTS
  TypeOK
  RoundTrip
  UnmarshalConsistent
