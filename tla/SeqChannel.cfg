\* 7 sequence numbers: 6 frames on a wire that reorders and repeats, below the
\* wrap-around, and 20 frames on the TCP stream, across two wrap-arounds.
SPECIFICATION ChannelFairSpec
CONSTANTS
  SeqMod = 7
  MaxSent = 20
INVARIANT ChannelTypeOK
INVARIANT ChannelInv
PROPERTY ImplementsOrderedDelivery
PROPERTY EverythingDelivered
CHECK_DEADLOCK FALSE
