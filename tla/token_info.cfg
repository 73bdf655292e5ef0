SPECIFICATION Spec
CONSTANTS
    Null = null
    Accounts = {5, 6}
    NanosPerSecond = 1000
    Tokens <- SomeTokens
    LedgerId <- MirrorLedger
    NewTokens <- NewTokenSet
    Adapters = {"hardhat", "foundry"}
INVARIANTS InfoShown CreatedInfoShown KeysShown FeesShown NoSlotTakenTwice
CHECK_DEADLOCK FALSE
