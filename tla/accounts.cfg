SPECIFICATION FairSpec
CONSTANTS
    a1 = a1
    a2 = a2
    NoUser = NoUser
    None = None
    Addresses = {a1, a2}
    Home = a1
    Handlers = {h1, h2}
    Families <- AllFamilies
    Cooldown = 1
    CodeTTL = 1
    MaxTries = 2
INVARIANTS AddressesAreUnique ConfirmedAddress TriesAreBounded
PROPERTIES ImplementsAddressBook SignUpCompletes ResetCompletes
