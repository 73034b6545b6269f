SPECIFICATION FairSpec
CONSTANTS
  Peers <- BothPeers
  Setups <- AllSetups
  Tags = {t1}
  MaxFrames <- Frames
  MaxRecv <- Recvs
INVARIANTS InOrderOnce EveryPeerConnected DrainedBeforeLost
PROPERTIES RecvEnds DropEnds
CHECK_DEADLOCK FALSE
