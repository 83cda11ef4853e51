----------------------- MODULE MCPropertyReplication -----------------------
EXTENDS PropertyReplication

\* One property for everybody, one for the owner, one for the open bunch.
MCCondition == [everybody |-> "None", owner |-> "OwnerOnly", initial |-> "InitialOnly"]
MCProp == DOMAIN MCCondition
=============================================================================
