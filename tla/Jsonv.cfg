SPECIFICATION Spec
CONSTANT Parts = {"tokenizer", "parse", "formats", "extract", "encode", "conversion"}
INVARIANTS JsonvReadsAsWritten JsonvErrorsInPlace FormatsStayKnown
CHECK_DEADLOCK FALSE
