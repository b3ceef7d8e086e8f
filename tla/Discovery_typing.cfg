SPECIFICATION DiscoveryFairSpec
CONSTANTS
    rosary = rosary
    candle = candle
    icon = icon
    Terms = {rosary, candle, icon}
    oakhill = oakhill
    stjohn = stjohn
    Homes = {oakhill, stjohn}
    Fallback <- TheFallback
    Categories <- TheCategories
    RecentLimit = 2
    MaxPages = 2
    MaxActs = 4
    wax = wax
    Sellers = {wax}
    Prices <- ThePrices
    Totals = {1, 8}
    Links <- TheLinks
INVARIANTS
    DiscoveryInv
    ShownIsAsked
    ThanksWereEarned
    IslandIsShown
    PageWasOffered
PROPERTIES
    EverySearchSettles
CHECK_DEADLOCK FALSE
