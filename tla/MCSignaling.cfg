CONSTANTS
  People = {1, 2, 3}
  Size <- Sizes
  Rivals = 2
  MaxFrames = 2
SPECIFICATION FairSpec
INVARIANT TypeOK
INVARIANT FileConsistent
INVARIANT AnswersAgree
INVARIANT CandidateInTime
PROPERTY CallsConclude
PROPERTY PeerGoneTold
