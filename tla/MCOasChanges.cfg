CONSTANTS
    Path = {"p", "q"}
    Method = {"get", "post", "patch"}
    ParamList <- MCParamList
    Schema = {"User", "UserGroup"}
    SchemaBody <- MCSchemaBody
    Rest = {"tags", "servers"}
    RestList <- MCRestList
    Refers <- MCRefers
    Within <- MCWithin
    Previous <- MCPrevious
    MaxEdits = 3
CHECK_DEADLOCK FALSE
SPECIFICATION Spec
INVARIANTS TypeOK Reported Grounded 
