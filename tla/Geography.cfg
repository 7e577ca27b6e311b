\* Every class, dimension and format; every value of the six geography columns.
SPECIFICATION ColumnSpec
CONSTANTS
  Bits = 7
  Septet = 3
  Unit = 32768
  Factor = 100
  Wgs84 = 5
  Srid = 5
  Written <- MCWritten
  Values <- MCValues
  Given <- MCGiven
  DoubleBits = 8
  RealBits = 3
  WholeEnd = 16
  BigEnd = 1024
  Length = 2
  Day = 4
  Zone = 1
INVARIANTS
  ReadBack
  GeographyReturned
  ColumnReturned
\* A geometry once read, or refused, is done with.
CHECK_DEADLOCK FALSE
