CONSTANTS
  usd = usd
  myr = myr
  ManualRates = {1}
  MaxFallback = 2
  Scenarios <- All

SPECIFICATION Spec

INVARIANT LatestAnswerCurrent
INVARIANT NoTradingDaySkipped
INVARIANT OverridesSound
PROPERTY PublishedSetCurrent
PROPERTY RatesArrive

CHECK_DEADLOCK FALSE
