CONSTANTS
  Commands <- MixedCommands
  ReplyLengths = {1, 200}
  MaxReplies = 1
  MaxTime = 2
  HEADER_LENGTH = 27
  PACKET_LENGTH = 256
  FirstPublic = 20
  ENCRYPTED_CMD = 8
  MAX_RESERVED = 15
  MaxCommand = 256
  BUFFER = 256
SPECIFICATION FairDownlinkSpec
INVARIANTS SentInOrder NoneMislaid
PROPERTY BridgeIsEmptied
