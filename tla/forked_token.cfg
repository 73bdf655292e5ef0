SPECIFICATION Spec
CONSTANTS
    a1 = a1
    a2 = a2
    a3 = a3
    Zero = zero
    Addresses <- ThreeAddresses
    AccountId <- AliasIds
    AccountNum <- AliasIds
    Tokens = {1}
    FirstTokenId = 0
    Mirror <- FirstIsForked
    Int64Max = 3
    WordMax = 15
    Words = {1, 15}
    Int64s <- SignedAmounts
    Forked = 1
    Created = 1
    MaxTouched = 2
CONSTRAINT FewTouched
INVARIANTS TypeOK WrittenSlotsAreFetched Conservation
PROPERTIES NoUnauthorisedSpending AllowancesOnlySpent
