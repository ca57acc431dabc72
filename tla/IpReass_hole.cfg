\* Four fragments of one datagram.
CONSTANTS
  Datagrams = {d1}
  DatagramLen = 4
  FragmentLen = 1
  UnitPbufs = 1
  MaxPbufs = 10
  ReassData = 2
  ReassMaxAge = 1
SPECIFICATION ReassSpec
INVARIANT ReassembledIsOriginal
