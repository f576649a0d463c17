SPECIFICATION Spec
CONSTANTS
  Keys = {"lshift", "rshift", "lalt", "altgr", "lgui", "lctrl", "rctrl", "letter", "space", "up"}
  Size = 3
  MaxKeys = 5
  MaxWire = 1
CHECK_DEADLOCK FALSE
INVARIANTS KeysTranslated BufferKeeps
PROPERTIES InOrder LastKeyIsRead
