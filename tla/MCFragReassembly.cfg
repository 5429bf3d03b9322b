SPECIFICATION FragSpec
CONSTANTS
    Senders = {s1, s2}
    FragCount = 2
    MaxPart = 2
    IdMod = 2
    LocalIdMod = 4
    MaxPackets = 2
    MaxRestarts = 1
    MaxLocalId = 5
INVARIANTS DeliveredIntact OneSlotPerPacket
PROPERTY RecentPacketsKept
CHECK_DEADLOCK FALSE
