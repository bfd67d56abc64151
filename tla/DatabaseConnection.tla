-------------------------- MODULE DatabaseConnection --------------------------
(***************************************************************************)
(* Database persistence strategies                                         *)
(* (src/pyocean/persistence/database/connection.py): a program constructs *)
(* connection objects, each with a configuration or with the defaults,    *)
(* and reads back their database_config.                                   *)
(*                                                                         *)
(* A configuration is abstracted to one value standing for its user,       *)
(* password, host, port and database fields, all of which __init__ writes  *)
(* together.                                                               *)
(***************************************************************************)
EXTENDS Naturals

CONSTANTS
    Conns,          \* connection objects a program constructs
    Configs,        \* BaseDatabaseConfiguration objects it may pass
    Default,        \* the BaseConfigDefaultValue fields
    EmptyFields,    \* the "" fields of the class body
    NotBuilt        \* a connection object not constructed yet

ConfigValues == Configs \cup {Default}

VARIABLES
    databaseConfig, \* BaseConnection._Database_Config (a class attribute)
    given           \* given[c]: the configuration c was constructed with

vars == <<databaseConfig, given>>

-----------------------------------------------------------------------------

\* The class body: every field of _Database_Config is "".  No object yet.
Init ==
    /\ databaseConfig = EmptyFields
    /\ given = [c \in Conns |-> NotBuilt]

\* BaseConnection.__init__(configuration): the fields of the configuration,
\* or the defaults when it is None, are written into
\* self._Database_Config -- the dict of the class, shared by all objects.
Construct(c) ==
    /\ given[c] = NotBuilt
    /\ \E cfg \in ConfigValues :
         /\ given' = [given EXCEPT ![c] = cfg]
         /\ databaseConfig' = cfg

\* database_config: returns self._Database_Config.
DatabaseConfigOf(c) == databaseConfig

Next == \E c \in Conns : Construct(c)

Spec == Init /\ [][Next]_vars

-----------------------------------------------------------------------------
(* Properties                                                               *)

\* database_config documents "all database configuration content" of the
\* connection: every constructed connection reports the configuration it
\* was constructed with, whatever connections were constructed after it.
OwnConfiguration ==
    \A c \in Conns : given[c] # NotBuilt => DatabaseConfigOf(c) = given[c]

=============================================================================
