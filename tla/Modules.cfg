SPECIFICATION ObjectsSpec
CONSTANTS
    m1 = m1
    m2 = m2
    m3 = m3
    n1 = n1
    n2 = n2
    Modules = {m1, m2, m3}
    Names = {n1, n2}
    NameOf <- MCNameOf
    Null = Null
    Results = {"HANDLED", "NOT_YET_HANDLED"}
    ConstructorOf <- MCConstructorOf
    InterfaceNames = {"Buffer", "Shell"}
    MethodNames = {"Update", "Get", "Set"}
    Paths = {"/", "/e/Buffer", "/e/Shell"}
    NodeOf <- MCNodeOf
    MaxNodes = 1
INVARIANTS Consistent IntrospectAgrees
PROPERTIES ImplementsList NotFoundIsTrue
