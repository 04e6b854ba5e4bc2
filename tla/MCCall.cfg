CONSTANTS
  Candidates = 4
  IceUp = IceUp
  IceGone = IceGone
SPECIFICATION FairSpec
INVARIANT TypeOK
INVARIANT DescriptionFirst
INVARIANT EachCandidateOnce
INVARIANT OneStatsChain
PROPERTY OneRequestAtATime
PROPERTY EventuallySent
PROPERTY DisconnectionEnds
