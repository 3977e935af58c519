SPECIFICATION Spec
CONSTANTS
  AddressSpace = 16
  FLASH_BASE_ADDRESS = 4
  FLASH_MAX_SIZE = 4
  MAXIMUM_FLASH_WRITE_BLOCK_SIZE = 2
  MAX_PAYLOAD_SIZE = 2
  WriteBlockSizes = {2, 4}
  Addresses <- FlashAddresses
  Sizes <- FlashSizes
  MaxLen = 3
  Byte = {0, 255}
  ERASED = 255
  NoByte = NoByte
  MaxOpenFiles = 2
  StatResults = {"error", "directory", "file"}
  FileCapacity = 4
  FileSizes = {0, 3, 4}
INVARIANTS
  OneTransferActive
  TransferInsideFlash
  AckedInFlash
PROPERTIES
  NoHandleLeak
  WritesStayInWindow
  CompleteWhenExited
