SPECIFICATION ToolSpec
CONSTANTS
  Forms <- DistinctForms
  MaxCommands = 3
  MaxReplies = 2
  MaxFaults = 1
  Commands <- OneWorkload
  MaxHellos = 1
  MaxStream = 3
  MaxBreaks = 1
INVARIANTS ReplyIsMine TrafficAddsUp RecordIsTrue
