SPECIFICATION Spec
CONSTANTS
  Primitive <- MCPrimitive
  Text <- MCText
  Struct <- MCStruct
  Interface <- MCInterface
  Placeholder <- MCPlaceholder
  Shared <- MCShared
  Implements <- MCImplements
  Callee <- MCCallee
  Decl <- MCDecl
  Calls <- MCCalls
INVARIANTS VerdictIsReference AcceptedArgsConvert
\* A call that is resolved stops.
CHECK_DEADLOCK FALSE
