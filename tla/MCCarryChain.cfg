SPECIFICATION Spec
CONSTANTS
    LastDay = 2
    MaxPosts = 1
    Forecasts <- SomeForecasts
    Limits <- SomeLimits
    Sales <- SomeSales
    Classes <- SomeClasses
    Ratios <- SomeRatios
    Bands <- SomeBands
    Horizons <- Yesterday
    None = None
INVARIANTS ChainTypeOK StockNeverPilesUp
