CONSTANTS
  MaxId = 3
  MaxRetries = 1
  Faults = {"giveup", "resolve", "drop", "evict", "shutdown", "crash"}
  MaxCrashes = 1
  MaxBox = 1
SPECIFICATION FairSpec
INVARIANT TypeOK
INVARIANT PollsWhileConnected
INVARIANT FirstResponseSigningIn
INVARIANT PeersFollowMembers
INVARIANT ClosedMeansTold
PROPERTY SignInConcludes
PROPERTY SignOutConcludes
PROPERTY PeersConverge
