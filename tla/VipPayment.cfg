CONSTANTS
    Month = 2
    MaxDay = 4
    MaxFunds = 3
    MaxPays = 2
SPECIFICATION FairSpec
PROPERTIES KnownPaymentKept PaymentBecomesKnown
