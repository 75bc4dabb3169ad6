CONSTANTS
  MAX_MSGS = 5
  MAX_MSG_PRIORITY = 3
  DISPLAY_TIME = 1
  FlashByte = 0
  Greetings = 2
  Uses = {{"new", "repeat", "print", "priority"}, {"new", "repeat"}}
  Asked = {2}
  Repeats <- Sometimes
\* Where print_message has spoiled the count the screen really stops.
CHECK_DEADLOCK FALSE
SPECIFICATION FairSpec
INVARIANTS ShownIsUsed FreedOnce IInv
 
