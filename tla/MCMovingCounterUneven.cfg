CONSTANTS
  Period = 10
  NumBuckets = 3
  Values = {1}
  MaxTime = 12
  MaxAdds = 4
SPECIFICATION CounterSpec
INVARIANTS NoPanic
