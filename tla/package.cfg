SPECIFICATION RSpec
CONSTANTS
  Points = {0, 1, 9, 2040, 2041, 2042}
  Types = {1, 2, 9, 33, 248}
  Address = {0, 511}
  Seq16 = {0, 15}
  Memory <- MCMemory
  StatusLen = 3
  Damages = {0, 1, 22, 104, 255}
  Contents <- MCContents
  Omissions = {0, 1, 9}
  Listed = {0, 9, 2040}
  Dispatch = {TRUE, FALSE}
INVARIANTS PackagesParse DamageDetected TagNamesPoint ReadingsRight RowsRight BufferFreedOnce
