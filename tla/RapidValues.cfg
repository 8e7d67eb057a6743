SPECIFICATION Spec
CONSTANTS
  Parts = {"value", "document", "pool", "compare", "tree", "pretty", "plain", "serializer", "schema"}
  v1 = v1
  v2 = v2
  doc1 = doc1
  doc2 = doc2
INVARIANTS BlocksOwnedOnce ValuesReadAsMeant SchemaJudgesRight
SYMMETRY Symmetry
CHECK_DEADLOCK FALSE
