SPECIFICATION FairSpec
CONSTANTS
  Size = 4
  SeqMod = 8
  PacketBufferSize = 2
  LenMod = 4
  Kinds = {"S2M", "M2S"}
  Apis = {"packet", "burst"}
  MaxLen = 3
  MaxPackets = 4
  TxBurst = 1
  RxBurst = 2
INVARIANTS RingInvariant PostedBuffersWhole PacketsFramed
PROPERTY ImplementsQueue EventuallyRead
CHECK_DEADLOCK FALSE
