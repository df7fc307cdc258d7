CONSTANTS
  Handlers = {h1, h2, h3}
  Latencies <- MCLatencies
  ErrorRates <- MCErrorRates
SPECIFICATION FaultFairSpec
INVARIANTS
  FaultIndInv
  OneSettingPerRequest
PROPERTIES
  EveryHandlerAnswers
