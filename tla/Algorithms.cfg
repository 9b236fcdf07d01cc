SPECIFICATION AlgorithmsSpec
CONSTANTS
  oax = oax
  weth = weth
  Scale = 10000
  PriceScale = 10
  MaxAmount = 4
  MaxMakers = 2
  Takers <- Orders
  Makers <- Orders
  MaxWidth = 7
  MaxSum = 1
INVARIANTS FillsProvable PricesInOrder TreeIsSound
CHECK_DEADLOCK FALSE
