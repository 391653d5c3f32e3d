SPECIFICATION FairSpec
CONSTANTS
  g1 = g1
  g2 = g2
  g3 = g3
  Goroutines <- TwoGoroutines
  Threshold = 3
  NoOne = NoOne
INVARIANT OneProbe
