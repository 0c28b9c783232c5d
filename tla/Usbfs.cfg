\* A divided transfer of each type, or two control transfers.
SPECIFICATION Spec
CONSTANTS
  divided = divided
  ctrl1 = ctrl1
  ctrl2 = ctrl2
  NoTransfer = NoTransfer
  Transfers = {divided, ctrl1, ctrl2}
  Settings <- MCSettings
  ShortNotOk = {ctrl2}
  Lengths <- MCLengths
  Packets <- MCPackets
  MaxBulk = 2
  MaxIso = 2
  BufferLength = 6
INVARIANTS UrbsAddUp NothingLost StatusEarned
PROPERTIES ImplementsTransfer EndComes
