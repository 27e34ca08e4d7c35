SPECIFICATION Spec
CONSTANTS
  FirmwareConfigs <- Firmware
  DeviceReplies <- Replies
  MaxKeys = 1
  MaxOut = 2
INVARIANTS
  ConfiguredIfPrompt
PROPERTY InitReturns
