SPECIFICATION FairSpec
CONSTANTS
    Requests = {r1}
    Quotes <- SomeQuotes
    Usages <- SomeUsages
    SpreadPP = 20
    Faults <- AnyFault
    None = None
INVARIANTS TypeOK NeverAboveReference MarginKept NoFalseAlarm PricesPosted
PROPERTIES PriceFollowsMarket
