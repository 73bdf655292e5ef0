SPECIFICATION Spec
CONSTANTS
    a1 = a1
    a2 = a2
    a3 = a3
    Zero = zero
    Addresses <- ThreeAddresses
    AccountId <- ThreeIds
    AccountNum <- ThreeNums
    EvmAddress <- ThreeEvmAddresses
    SerialLimit = 4
    Serials <- WideSerials
    MirrorOwner <- TwoOwners
    MirrorSpender <- TwoSpenders
    MirrorOperators <- Operators
    MaxFetched = 3
CONSTRAINT FewFetched
INVARIANTS TypeOK WrittenSlotsAreFetched
PROPERTIES ApprovalsEndWithOwnership ForkedNftIsRegistry
