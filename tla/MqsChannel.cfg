CONSTANTS
  server = server
  client = client
  rival = rival
  Owner = server
  Nobody = Nobody
  Process <- MCProcess
  Name <- MCName
  Roles <- MCRoles
  Modes <- MCModes
  MaxMade = 2
  Blob = "blob"
  Hndl = "hndl"
  Sep = "_"
  Alt = "/"
  Alnum = {"a", "b"}
  Bad = {"!"}
  MaxLength = 3
  MaxInput = 5
SPECIFICATION MqsSpec
INVARIANTS PeersShareQueue SentinelHasOwner LeakIsListable CombinedEndReported
CONSTRAINT ChannelFirst
CHECK_DEADLOCK FALSE
