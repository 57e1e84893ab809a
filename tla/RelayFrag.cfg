SPECIFICATION Spec
CONSTANTS
    Senders = {a, b}
    NoSender = none
    Parts = 2
    FragSlots = 2
    IdSpace = 2
    MaxPackets = 2
    MaxRestarts = 1
    MaxOpens = 1
INVARIANT TypeOK
INVARIANT PacketIsWhole
INVARIANT OneSlotPerPacket
