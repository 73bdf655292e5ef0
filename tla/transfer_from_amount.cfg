SPECIFICATION Spec
CONSTANTS
    a1 = a1
    a2 = a2
    a3 = a3
    Zero = zero
    Addresses <- TwoAddresses
    AccountId <- TwoIds
    AccountNum <- TwoIds
    Tokens = {1}
    FirstTokenId = 1
    Mirror <- FirstIsForked
    Int64Max = 3
    WordMax = 15
    Words = {1, 15}
    Int64s = {1}
    Forked = 1
    Created = 1
    MaxTouched = 3
CONSTRAINT FewTouched
PROPERTIES TransferFromMovesAmount
