SPECIFICATION SplitSpec
CONSTANTS
  Texts <- MCTexts
  MaxLength = 6
  Spaces = {" ", "n"}
  LineEnds = {"n"}
  Stops = {"!"}
  Period = "."
INVARIANTS
  SpansInv
  NothingLost
  ResplitIsIdentity
