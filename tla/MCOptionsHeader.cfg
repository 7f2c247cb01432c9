SPECIFICATION Spec
CONSTANTS
    Letters <- short_options
    WithArg <- required_argument
    LongNames <- long_options
    Begins <- MCBegins
    Number <- MCNumber
    Kinds <- MCKinds
    MulticastHosts <- MCMulticastHosts
    WordSize = 536870912
    Inputs <- MCInputs
    Servers <- MCServers
INVARIANTS
    HeaderInverse
    RateReturns
