CONSTANTS
  MaxLineBytes = 9
  MaxEventBytes = 9
  MaxWireBytes = 9
  MaxContentBytes = 9
  MaxToolBytes = 9
  MaxBlocks = 2
  ParsesToObject <- MCParses
  Replies <- MCReplies
  MaxAttempts = 2
  RenderedLimit = 8
  MaxEvents = 2
  MaxBytes = 2
  MergeBytes = 2
  PieceBytes = 1
  Dynamic = FALSE
  Sessions = {"s1", "s2"}
  Existing <- MCExisting
  First <- MCFirst
  MaxRounds = 2
  MaxCommands = 1
  MaxTroubles = 1
SPECIFICATION Spec
CHECK_DEADLOCK FALSE
INVARIANT NothingIsLost
INVARIANT AnswerIsShown
INVARIANT CancelIsHeard
INVARIANT LeftIsCaughtUp
PROPERTY EveryTurnEnds
