\* A clip next to any other command, and the user's own copies.
SPECIFICATION Spec
CONSTANTS
    clipper = clipper
    other = other
    Commands = {clipper, other}
    Clips = {clipper, other}
    Askers = {clipper, other}
    Nothing = Nothing
    Tokens <- Strings
    None = None
    Installed = {"native", "generic", "missing"}
    Names = {"A", "B"}
    Jobs <- ClipAndAny
    Vaults <- AllVaults
    lower <- LowerCase
    Hosts <- TheHosts
    Paths <- ThePaths
    Styles <- TheStyles
INVARIANTS
    TypeOK
    SecretIsGuarded
    ConsentIsPersonal
    ChildGetsItsSecrets
    MatchesByAddress
PROPERTIES
    CommandsEnd
CHECK_DEADLOCK FALSE
