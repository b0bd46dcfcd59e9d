\* One credential helper, asked for an address that an item of the vault has.
SPECIFICATION Spec
CONSTANTS
    clipper = clipper
    other = other
    Commands = {other}
    Clips = {other}
    Askers = {other}
    Nothing = Nothing
    Tokens <- Strings
    None = None
    Installed = {"native", "generic", "missing"}
    Names = {"A", "B"}
    Jobs <- GitOnly
    Vaults <- AllVaults
    lower <- LowerCase
    Hosts <- TheHosts
    Paths <- ThePaths
    Styles <- TheStyles
PROPERTY CredentialAnswered
CHECK_DEADLOCK FALSE
