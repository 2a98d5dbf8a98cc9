SPECIFICATION Spec
CONSTANTS
  Refreshers = {"requests", "watch"}
  Chains <- TwoChains
  MaxRewrites = 1
INVARIANT RewriteIsReflected
