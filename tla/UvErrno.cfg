SPECIFICATION ErrnoSpec
CONSTANTS
  Unit = {library, program}
  library = library
  program = program
  Doubtful = {"EADDRINUSE", "EHOSTDOWN", "EREMOTEIO"}
CHECK_DEADLOCK FALSE
INVARIANTS NeverMistaken CodesAgree
