CONSTANTS
    c1 = c1
    c2 = c2
    url = url
    deltas = deltas
    seconds = seconds
    typo = typo
    appupdates = appupdates
    True = True
    False = False
    Unset = Unset
    None = None
    NoFile = NoFile
    BadFile = BadFile
    Commands = {c1, c2}
    Admins = {c1, c2}
    Keys = {url, deltas, seconds}
    NumberKeys = {seconds}
    BooleanKeys = {deltas}
    Timeout = seconds
    ServerUrl = url
    UnknownKeys = {typo}
    Numbers <- MCNumbers
    Words = {True, False, appupdates}
    Default <- MCDefault
    IntMax = 3
    MaxCommands = 2
SYMMETRY MCSymmetry
SPECIFICATION Spec
INVARIANTS TypeOK SelectedServed
PROPERTIES OnlyOverlapLoses QuitsAsConfigured
CHECK_DEADLOCK FALSE
