CONSTANTS
  Top = 2
  Threshold = 3
  Cadence = 3
  NoCall = NoCall
SPECIFICATION EscalationSpec
INVARIANT EarnedLevel
PROPERTIES NoStackedRaise
