CONSTANTS
  Kinds = {"storage", "spider", "tdbctl"}
  MaxAttempts = 3
SPECIFICATION Spec
PROPERTIES
  DDLStaysLocal
CHECK_DEADLOCK FALSE
