SPECIFICATION RequestsSpec
CONSTANTS
    Headers <- MCHeaders
    CustomerIds <- MCCustomerIds
    Addresses <- MCAddresses
    ItemLists <- MCItemLists
    Customers = {1}
    Price <- MCPrice
    Geocodable = {"town"}
    Length <- MCLength
    MaxKeyLength = 3
    MinAddress = 3
    MaxAddress = 8
    MaxItems = 2
    MaxQuantity = 2
    Parts = 10
    Mantissa = 13
    MaxRequests = 2
INVARIANTS
    ProductsAreDistinct
    RepliesMatchMeaning
    MoneyIsRoundedOnce
CHECK_DEADLOCK FALSE
