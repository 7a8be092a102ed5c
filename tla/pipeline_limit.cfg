CONSTANTS
  KeyChars <- MCKeyChars
  SensitiveKeys = {"token"}
  ValueKey = "_lenso_legacy_value"
  TextKey = "_lenso_legacy_portable_json"
  MaxBytes = 64
  MaxItems = 2
  MaxDepth = 3
  MaxKeyChars = 30
  MaxNodes = 5
  MaxStringChars = 36
  AppendRequests <- MCAppendRequests
  LegacyRows <- MCLegacyRows
CHECK_DEADLOCK FALSE
SPECIFICATION Spec
INVARIANTS
  StoredWithinLimit
