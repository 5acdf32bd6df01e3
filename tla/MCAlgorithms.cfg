CONSTANTS
  Folded <- MCFolded
  Temps = {}
  Runtime = {}
  MaxFragmentBytes = 4
  MaxTextFileBytes = 8
  MaxTraversalEntries = 7
  MaxSearchFiles = 3
  MaxSearchBytes = 14
  MaxResultBytes = 4
  Enumerated <- MCEnumerated
  Position <- MCPosition
  MaxContent = 8
  RetainedPrefix = 1
  Open <- MCOpen
  Close <- MCClose
  Instructions <- MCInstructions
  NumberIn <- MCNumberIn
  Lowered <- MCLowered
  PathIn <- MCPathIn
  MaxUnsigned = 200000000
  MaxSigned = 100000000
  Trees <- MCTrees
  Calls <- MCCalls
  Files <- MCFiles
  Outputs <- MCOutputs
  Requests <- MCRequests
  Blocks <- MCBlocks
  Wires <- MCWires
  MaxLineBytes = 4
  MaxEventBytes = 4
  MaxWireBytes = 12
  MaxContentBytes = 9
  MaxToolBytes = 9
  MaxBlocks = 2
  ParsesToObject <- MCParses
  Hosts <- MCHosts
  PageLines = 2
  PageBytes = 4
SPECIFICATION Spec
CHECK_DEADLOCK FALSE
INVARIANT ToolAnswersAreWhole
INVARIANT ModelTalkIsFramed
INVARIANT StrongestLayerDecides
INVARIANT AcceptedStartIsSound
