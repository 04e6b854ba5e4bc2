CONSTANTS
  Candidates = 4
  IceUp = IceUp
  IceGone = IceGone
SPECIFICATION FairSpec
PROPERTY PeerGoneEnds
