SPECIFICATION PartsSpec
CONSTANTS
  Tasks = 3
  Modulus = 8
  MaxAsleep = 4
  Kibi = 32
  Thousand = 4
  Sixty = 6
  Buffers = {1, 5, 6, 8, 9, 10, 32}
  Largest = 34000
  Wrapper = {w1, w2, w3, w4}
  Url = {w1, w2}
  Object = {o1, o2, o3, o4}
  Null = null
  Byte = {"a", "b", "c", "d"}
  Versions <- MCVersions
  Chunk = 2
  Missing = missing
  Runs = 3
INVARIANTS
  ReturnsInOrder
  BuildsAgree
  LongTimesRoundUp
  AllOrNothing
  OneOwner
  NeverPartial
  SuccessMeansUploaded
PROPERTY AmountsInOrder
