\* One client's descriptor below the bot's, one above.
CONSTANTS
  Clients = {4, 6}
  Bot = 5
  Nobody = 0
  MaxLines = 3
  BufferSize = 3
  Room = 2
  BotRoom = 4
SPECIFICATION Spec
CHECK_DEADLOCK FALSE
INVARIANTS StreamsOK
PROPERTIES OnlyTheBotHolds Welcomed
