\* One line in one read, or up to three lines in at most three reads.
CONSTANTS
  Inputs <- MCInputs
  Worlds <- MCWorlds
  BufferSize = 12
SPECIFICATION TextSpec
CHECK_DEADLOCK FALSE
INVARIANTS TornExactly CheckedIsParsed LinesKept
