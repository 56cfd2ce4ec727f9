SPECIFICATION Spec
CONSTANTS
  Inputs <- StringFiles
  Keywords <- If
  IntMax = 40
PROPERTY EscapeNewlineCounts
