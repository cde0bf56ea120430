SPECIFICATION MCDataSpec
CHECK_DEADLOCK FALSE
CONSTANTS
  Protocols = {"mac", "vlan", "eth2", "dot3", "arp", "ip4", "udp", "igmp", "text", "payload", "hexdump", "sign", "user"}
  Opened <- MCOpened
  Modes = {"sequential", "interleaved"}
  Tracked = FALSE
  Variable = {"ip4"}
  PacketsPerBurst = 2
  TypedLengths = {64, 128}
  TypedBits = {40}
  TypedRates = {20000}
  MaxActs = 4
  Second = 1000
  LineDelay = 1
  SequencePackets = 5
  minPacketSetSize = 4
  MinGaps = 5
  IntRange = 8
  CounterRange = 1000
  StartStreams <- MCStreams
  FieldEdits <- MCFieldEdits
  Insertions <- MCInsertions
  Variations <- MCVariations
  Lengths <- MCLengths
  Controls <- MCControls
  Replacements <- MCReplacements
  MaxEdits = 1
  GroupIds = {1, 2}
  Configs <- MCConfigs
  DefaultMac <- MCDefaultMac
  HostLinks <- MCHostLinks
  Frames <- MCFrames
  Packets <- MCPackets
  MaxOps = 3
  MaxRx = 1
  MaxResolves = 1
  Guids = {g1, g2}
  TagCount = 2
  GcAge = 0
  GcPeriod = 1
  MaxDelay = 1
  MaxTags = 3
  MaxTime = 4
  Interfaces <- MCInterfaces
  Begins <- MCBegins
  IncludeList <- MCIncludeList
  ExcludeList <- MCExcludeList
  Narrow = 4
  Wide = 8
  MaxBurst = 3
  MaxCount = 9
  MaxPayload = 3
  MaxFrameSize = 4
  Written <- MCWritten
  BadHeaders <- MCBadHeaders
  Drafts <- MCDrafts
  OlderFiles <- MCOlderFiles
  MetaBytes = 127
  MaxFileActs = 4
SYMMETRY Streams
ACTION_CONSTRAINT InScenario
INVARIANTS
  FieldsInPlace ReceiverAccepts SendsEveryFrame StatsExact
  EnumerationIsProduct TableIsHeard LatencyIsTrue CountersExact DeletedIsLeftAlone ViewsAgree FramesAsSent LoadsWhatWasSaved
PROPERTY OwnerAnswers
