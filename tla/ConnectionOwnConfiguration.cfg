\* database_config of each connection after several constructions.
CONSTANTS
    Conns <- MCConns
    Configs <- MCConfigs
    Default = Default
    EmptyFields = EmptyFields
    NotBuilt = NotBuilt
SPECIFICATION Spec
INVARIANTS
    OwnConfiguration
