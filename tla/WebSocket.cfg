SPECIFICATION FairSpec
CONSTANTS
    Frames <- SomeFrames
    MaxFrames = 3
    MaxWire = 2
    MaxSends = 1
    max_message_size = 2
INVARIANTS DeliveredWhole PeerAnswered
PROPERTY CallsReturn
