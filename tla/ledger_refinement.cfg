SPECIFICATION Spec
CONSTANTS
    a1 = a1
    a2 = a2
    a3 = a3
    Zero = zero
    Addresses <- TwoAddresses
    AccountId <- TwoIds
    AccountNum <- TwoIds
    Tokens = {1, 2}
    FirstTokenId = 0
    Mirror <- SecondIsForked
    Int64Max = 3
    WordMax = 15
    Words = {1}
    Int64s = {1}
    Forked = 2
    Created = 1
    MaxTouched = 2
CONSTRAINT FewTouched
INVARIANTS Conservation
PROPERTIES ForkedTokenIsLedger CreatedTokenIsLedger
