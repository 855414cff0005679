SPECIFICATION FairSpec
CONSTANTS
    Channels = {orders, balances}
    Capacity = 3
    DropCount = 2
    MaxAttempts = 2
    MaxMessages = 5
INVARIANTS TypeOK SubscriptionsAreLive
PROPERTIES ImplementsFeed ConnectsOrGivesUp QueueIsServed CloseReturns
CHECK_DEADLOCK FALSE
