SPECIFICATION Spec
CONSTANTS
  Parts = {"streams", "string", "reader", "number", "big", "pointer", "regex"}
  v1 = v1
  v2 = v2
  doc1 = doc1
  doc2 = doc2
INVARIANTS TextsReadAsWritten ReadersStayInside
CHECK_DEADLOCK FALSE
