CONSTANTS
  Keys = {k1}
  Vals = {1}
  Consumer = consumer
  Polls = {p1, p2}
  Clients = {consumer, p1, p2, 1, 2}
  MaxAsks = 2
  MaxFaults = 1
  MaxStops = 1
SPECIFICATION DFairSpec
INVARIANT DTypeOK
INVARIANT ResponsesLookForward
INVARIANT AnswerIsForLastAsk
PROPERTY PageConverges
PROPERTY PanelRecovers
