SPECIFICATION DatagramSpec
CONSTANTS
  Late = 15535
  Gaps <- Steps
  MaxTime = 135000
  MaxNet = 2
  Base = 6
  Size = 8
  Texts = {1}
  Records = {4}
  RecordSize = 2
  Flags = {5}
  Width <- Widths
  Defaults <- Nones
  Strings <- Words
  Numbers <- Values
  Addresses <- Addrs
  MaxElements = 3
  MaxForeign = 6
CHECK_DEADLOCK FALSE
INVARIANTS Reconstructed ParserSafe Understood
