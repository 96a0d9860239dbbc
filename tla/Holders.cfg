SPECIFICATION Spec
CONSTANTS
    Holder = Holder
    Bound = Bound
    Alias = Alias
    v1 = v1
    v2 = v2
    Holders = {Holder, Bound, Alias}
    Values = {v1, v2}
    Other = Other
    Null = Null
    NONE = NONE
    Defaults <- HasDefaults
    NotNullable = {Holder}
    Statics = {Holder}
    SimpleBinds <- Binds
    FullBinds <- Aliases
    Refused <- Refusals
    MaxDepth = 1
CHECK_DEADLOCK FALSE
INVARIANTS
    HoldersSound
    Follows
PROPERTIES
    SoundUnless
    ChangesAreTold
