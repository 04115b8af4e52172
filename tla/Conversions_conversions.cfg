SPECIFICATION ConvertSpec
CONSTANTS
    Values <- MCValues
    Names <- MCNames
    AddressTexts <- MCAddressTexts
    VendorTexts <- MCVendorTexts
    Edids <- MCEdids
    Connectors <- MCConnectors
    Claims <- MCClaims
    Addresses <- MCAddresses
    Vendors <- MCVendors
INVARIANTS
    NeverPanics
    ComposedArrives
    ForeignStable
    EdidExact
    NameTrimmed
    TextExact
    SettingsKept
