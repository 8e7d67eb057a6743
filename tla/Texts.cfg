SPECIFICATION Spec
CONSTANT Parts = {"request_line", "headers", "files", "hosts", "records", "codec", "jsmn", "mapper"}
INVARIANTS ReadAsWritten StaysInside
CHECK_DEADLOCK FALSE
