\* Three intkey names, two of them at one address; two customers with balances
\* of two bits; a game with the whole board beside one that shares its address.
CONSTANTS
    n1 = n1  n2 = n2  n3 = n3  long = long
    a1 = a1  a2 = a2
    Names = {n1, n2, n3, long}
    LongNames = {long}
    Addresses = {a1, a2}
    AddressOf <- IntkeyAddress
    MAX_VALUE = 3
    PayloadValues <- Values
    c1 = c1  c2 = c2
    Customers = {c1, c2}
    Modulus = 4
    g1 = g1  g2 = g2  barred = barred
    GameNames = {g1, g2, barred}
    BarredNames = {barred}
    WideNames = {g2}
    GameAddresses = {a1}
    GameAddressOf <- XoAddress
    p1 = p1  p2 = p2
    Players = {p1, p2}
    Spaces <- XoSpaces
SPECIFICATION Spec
SYMMETRY Symmetry
INVARIANTS
    IntkeyTypeOK IntkeyLossesRetried GamesConsistent XoLossesRetried
PROPERTIES
    IntkeyIsKeyValue TransfersConserve WithdrawalsExact MovesLegal
CHECK_DEADLOCK FALSE
