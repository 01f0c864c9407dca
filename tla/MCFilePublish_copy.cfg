SPECIFICATION MCSpec
CONSTRAINT NotClash
CONSTANTS
  w1 = w1
  w2 = w2
  c1 = c1
  c2 = c2
  k1 = k1
  k2 = k2
  a = a
  d = d
  NoFile = NoFile
  Writers <- TheWriters
  Consumers <- TheConsumers
  Copiers <- TheCopiers
  Names <- TheNames
  Dst = d
  Size <- TheSizes
  MaxFiles = 1
  MaxIno = 5
  MaxFaults = 1
INVARIANT CopyAsSaid
