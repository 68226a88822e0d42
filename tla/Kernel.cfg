\* One terminal, two sessions, one of them a pane's; a full outbox and channel.
CONSTANTS
  Threads = {s, p}
  Existing = {}
  Selectable = {a}
  Models = {m, n}
  NoThread = NoThread
  MaxConsecutive = 1
  MaxRoutes = 2
  MaxActive = 2
  MaxQueued = 3
  ChannelLimit = 1
  MaxIntents = 2
CHECK_DEADLOCK FALSE
SPECIFICATION KernelSpec
INVARIANT DisplayTellsTruth
PROPERTY KernelRests
