SPECIFICATION Spec
CONSTANTS
  s1 = s1
  p1 = p1
  Consumer = Consumer
  Sends = {s1}
  Pulls = {p1}
  Foreign = {1, 2}
  ReadCount = 2
  MaxStops = 1
  MaxErrors = 1
INVARIANTS HintAfterStored GroupBeforeHints WaitsForOneRead StrandedOnlyByStop
PROPERTIES RequestsAnswered HintsDelivered
