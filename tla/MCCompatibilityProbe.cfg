SPECIFICATION Spec
CONSTANTS
  Profiles <- MCProfiles
  Replies <- MCReplies
  MaxRepeats = 2
INVARIANTS
  ProbeInv
  PassedMeansUsable
