CONSTANTS
  MAX_MSGS = 4
  MAX_MSG_PRIORITY = 2
  DISPLAY_TIME = 1
  FlashByte = 0
  Greetings = 0
  Uses = {{"new", "repeat", "delete", "priority"}}
  Asked = {0, 1}
  Repeats <- Forever
SPECIFICATION Spec
INVARIANTS TypeOK ListsHoldMessages CountIsUsed
