SPECIFICATION PoolSpec
CONSTANTS
  Handlers = {h1, h2, h3}
  Orders = {o1}
  Items = {i1}
  Sizes = {1, 2, 3, 4}
  NoOne = NoOne
INVARIANT ExhaustedOnlyWhenFull
PROPERTY EndsUnlessExhausted
