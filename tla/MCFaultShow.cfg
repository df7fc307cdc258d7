CONSTANTS
  Handlers = {h1, h2}
  Latencies <- MCLatencies
  ErrorRates <- MCErrorRates
SPECIFICATION FaultSpec
INVARIANTS
  ShownWasInForce
