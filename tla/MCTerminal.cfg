SPECIFICATION TerminalSpec
CONSTANTS
  Tabs = {t1, t2}
  MaxOut = 2
  MaxEvents = 3
SYMMETRY Symmetry
INVARIANT Untorn  QuietIsCurrent
CHECK_DEADLOCK FALSE
