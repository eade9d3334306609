SPECIFICATION Spec
CONSTANTS
    Addresses <- FourAddresses
    MaxPasses = 3
INVARIANTS
    LinksAgree
    PassKnowsItsNode
