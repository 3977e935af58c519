----------------------------- MODULE UdsTransfer -----------------------------
(***************************************************************************)
(* The data transfer services of lib/uds: RequestDownload (0x34),          *)
(* RequestUpload (0x35), TransferData (0x36), RequestTransferExit (0x37)   *)
(* and RequestFileTransfer (0x38), i.e. upload_download.c and              *)
(* upload_download_file_transfer.c.  All five run in the UDS thread, one   *)
(* event at a time, on two static records, upload_download_state and       *)
(* file_transfer_state, whose fields are the first variables below.        *)
(*                                                                         *)
(* External: the flash driver (aligned writes to erased cells only, may    *)
(* fail half way), the file system (any call may fail, fs_close included;  *)
(* writes may be short) and the client, who may send any event at any      *)
(* time.                                                                   *)
(***************************************************************************)
EXTENDS Integers

CONSTANTS
  AddressSpace,        \* 2^w for the w bits of uintptr_t and size_t
  FLASH_BASE_ADDRESS,  \* where the flash is mapped for the CPU
  FLASH_MAX_SIZE,
  MAXIMUM_FLASH_WRITE_BLOCK_SIZE,
  MAX_PAYLOAD_SIZE,    \* CONFIG_UDS_UPLOAD_MAX_PAYLOAD_SIZE
  WriteBlockSizes,     \* what flash_get_write_block_size may return
  Addresses, Sizes,    \* requested addresses and sizes
  MaxLen,              \* longest TransferData payload (the ISO-TP MTU)
  Byte, ERASED,        \* a cell's values, and the value of an erased cell
  NoByte,              \* "nothing acknowledged for this cell"
  MaxOpenFiles,        \* how many files the file system can hold open
  StatResults,         \* what fs_stat may answer for a file just opened
  FileCapacity,        \* bytes the file system has room for in one file
  FileSizes            \* announced sizes of files written, sizes of files read

ASSUME ConstantsAssumption ==
  /\ AddressSpace \in Nat /\ FLASH_BASE_ADDRESS \in Nat
  /\ FLASH_MAX_SIZE \in Nat \ {0} /\ MaxLen \in Nat
  /\ MaxLen <= FLASH_BASE_ADDRESS
  /\ 2 * FLASH_BASE_ADDRESS < AddressSpace
  /\ FLASH_MAX_SIZE + MaxLen < AddressSpace
  /\ MAXIMUM_FLASH_WRITE_BLOCK_SIZE \in Nat
  /\ MAX_PAYLOAD_SIZE \in Nat \ {0}
  /\ WriteBlockSizes \subseteq Nat \ {0}
  /\ Addresses \subseteq 0 .. (AddressSpace - 1)
  /\ Sizes \subseteq 0 .. (AddressSpace - 1)
  /\ ERASED \in Byte /\ NoByte \notin Byte
  /\ MaxOpenFiles \in Nat
  /\ StatResults \subseteq {"error", "directory", "file"}
  /\ FileSizes \subseteq Nat /\ FileCapacity \in Nat

VARIABLES
  state, start_address, current_address, total_size, write_block_size,
  mode, file_open, expected_size, transferred,
  service, code,  \* the last request and the code it was answered with
  device,   \* the flash device found at boot: "ready" or "missing"
  geometry, \* its write block size
  flash,    \* the flash cells
  pos,      \* position of the file of the running file transfer
  handles,  \* files open in the file system
  image,    \* history: the byte acknowledged for each cell
  stray,    \* history: bytes of the file that belong to refused blocks
  unclosed  \* history: files that stayed open because fs_close failed

updown == <<state, start_address, current_address, total_size, write_block_size>>

ft == <<mode, file_open, expected_size, transferred>>

resp == <<service, code>>

dev == <<device, geometry>>

vars == <<updown, ft, resp, dev, flash, pos, handles, image, stray, unclosed>>
-----------------------------------------------------------------------------
UpdownStates == {"IDLE", "DOWNLOAD_IN_PROGRESS", "UPLOAD_IN_PROGRESS"}

FileModes == {"IDLE", "WRITE", "READ"}

Address == 0 .. (AddressSpace - 1)

Cells == 0 .. (FLASH_MAX_SIZE - 1)

StartServices == {"RequestDownload", "RequestUpload", "RequestFileTransfer"}

Services == StartServices \cup {"TransferData", "RequestTransferExit", "none"}

Codes == {"OK", "RequestSequenceError", "RequestOutOfRange",
          "GeneralProgrammingFailure", "UploadDownloadNotAccepted", "FsError",
          "ResponseTooLong"}

(* Addition of uintptr_t and size_t values.                                *)
Wrap(x) == x % AddressSpace

Min2(a, b) == IF a < b THEN a ELSE b

(* An address the CPU uses for the flash becomes an offset into it.  An    *)
(* address equal to the base is left as it is.                             *)
Normalize(addr) ==
  IF addr > FLASH_BASE_ADDRESS THEN addr - FLASH_BASE_ADDRESS ELSE addr

EndAddress == Wrap(start_address + total_size)

Reply(svc, nrc) == service' = svc /\ code' = nrc

Init ==
  /\ state = "IDLE" /\ write_block_size = 0
  /\ start_address = 0 /\ current_address = 0 /\ total_size = 0
  /\ mode = "IDLE" /\ file_open = FALSE
  /\ expected_size = 0 /\ transferred = 0
  /\ service = "none" /\ code = "OK"
  /\ device \in {"ready", "missing"}
  /\ geometry \in WriteBlockSizes
  /\ flash = [a \in Cells |-> ERASED]
  /\ pos = 0
  /\ handles = 0
  /\ image = [a \in Cells |-> NoByte]
  /\ stray = 0
  /\ unclosed = 0
-----------------------------------------------------------------------------
(* transfer_exit: both transfers are reset, and the answer is the one of   *)
(* the transfer that was running.                                          *)

(* uds_upload_download_reset leaves an idle record as it is, stale window  *)
(* included, and never clears write_block_size.                            *)
UpdownReset ==
  /\ state' = "IDLE"
  /\ start_address' = IF state = "IDLE" THEN start_address ELSE 0
  /\ current_address' = IF state = "IDLE" THEN current_address ELSE 0
  /\ total_size' = IF state = "IDLE" THEN total_size ELSE 0
  /\ UNCHANGED write_block_size

(* The fs_close of uds_file_transfer_reset: only if file_open is set, and  *)
(* its result is ignored.  The file stays open if it fails.                *)
FileClose(open) ==
  \/ ~file_open /\ open = handles /\ unclosed' = unclosed
  \/ file_open /\ open = handles - 1 /\ unclosed' = unclosed
  \/ file_open /\ open = handles /\ unclosed' = unclosed + 1

FileIdle ==
  /\ mode' = "IDLE" /\ file_open' = FALSE
  /\ expected_size' = 0 /\ transferred' = 0
  /\ pos' = 0 /\ stray' = 0

(* Mutant: the file is not closed.                                         *)
FileResetKeepsOpen == FileIdle /\ UNCHANGED <<handles, unclosed>>

FileReset == FileIdle /\ FileClose(handles')

FileIncomplete ==
  /\ mode = "WRITE"
  /\ expected_size > 0
  /\ transferred # expected_size

FileExitCode ==
  IF mode = "IDLE" THEN "RequestSequenceError"
  ELSE IF FileIncomplete THEN "GeneralProgrammingFailure" ELSE "OK"

TransferExitCode == IF state = "IDLE" THEN FileExitCode ELSE "OK"

RequestTransferExit ==
  /\ Reply("RequestTransferExit", TransferExitCode)
  /\ UpdownReset
  /\ FileReset
  /\ UNCHANGED <<dev, flash, image>>

(* A start request first resets whatever is running; only an expected      *)
(* answer of transfer_exit lets it go on.                                  *)
StartAllowed == TransferExitCode \in {"OK", "RequestSequenceError"}

RefuseStart(svc) ==
  /\ ~StartAllowed
  /\ Reply(svc, TransferExitCode)
  /\ UpdownReset
  /\ FileReset
  /\ UNCHANGED <<dev, flash, image>>
-----------------------------------------------------------------------------
(* start_download and start_upload, after the reset.                       *)

WindowValid(addr, size) ==
  /\ size # 0
  /\ Wrap(Normalize(addr) + size) <= FLASH_MAX_SIZE

SetWindow(addr, size) ==
  /\ start_address' = Normalize(addr)
  /\ current_address' = Normalize(addr)
  /\ total_size' = size

(* The window is stored before the write block size is checked.            *)
StartDownload(addr, size, format) ==
  LET valid == WindowValid(addr, size) /\ format = 0
      fits  == geometry <= MAXIMUM_FLASH_WRITE_BLOCK_SIZE
  IN  \/ /\ device = "missing"
         /\ Reply("RequestDownload", "UploadDownloadNotAccepted")
         /\ UpdownReset
         /\ UNCHANGED image
      \/ /\ device = "ready" /\ ~valid
         /\ Reply("RequestDownload", "RequestOutOfRange")
         /\ UpdownReset
         /\ UNCHANGED image
      \/ /\ device = "ready" /\ valid /\ ~fits
         /\ Reply("RequestDownload", "UploadDownloadNotAccepted")
         /\ SetWindow(addr, size)
         /\ write_block_size' = geometry
         /\ state' = "IDLE"
         /\ UNCHANGED image
      \/ /\ device = "ready" /\ valid /\ fits
         /\ Reply("RequestDownload", "OK")
         /\ SetWindow(addr, size)
         /\ write_block_size' = geometry
         /\ state' = "DOWNLOAD_IN_PROGRESS"
         /\ image' = [a \in Cells |-> NoByte]

StartUpload(addr, size) ==
  \/ /\ device = "missing"
     /\ Reply("RequestUpload", "UploadDownloadNotAccepted")
     /\ UpdownReset
  \/ /\ device = "ready" /\ ~WindowValid(addr, size)
     /\ Reply("RequestUpload", "RequestOutOfRange")
     /\ UpdownReset
  \/ /\ device = "ready" /\ WindowValid(addr, size)
     /\ Reply("RequestUpload", "OK")
     /\ SetWindow(addr, size)
     /\ state' = "UPLOAD_IN_PROGRESS"
     /\ UNCHANGED write_block_size

RequestDownload(addr, size, format) ==
  \/ RefuseStart("RequestDownload")
  \/ /\ StartAllowed
     /\ StartDownload(addr, size, format)
     /\ FileReset
     /\ UNCHANGED <<dev, flash>>

RequestUpload(addr, size) ==
  \/ RefuseStart("RequestUpload")
  \/ /\ StartAllowed
     /\ StartUpload(addr, size)
     /\ FileReset
     /\ UNCHANGED <<dev, flash, image>>
-----------------------------------------------------------------------------
(* External: the flash driver.  A write must start on a write block and    *)
(* lie inside the flash, and a programmed cell cannot be programmed again. *)
Writable(from, len) ==
  /\ from % geometry = 0
  /\ from + len <= FLASH_MAX_SIZE
  /\ \A a \in from .. (from + len - 1) : flash[a] = ERASED

Programmed(from, len, data) ==
  [a \in Cells |-> IF a \in from .. (from + len - 1)
                   THEN data[a - from] ELSE flash[a]]

(* External: the flash has to be erased "in another way" before a          *)
(* download.                                                               *)
EraseFlash ==
  /\ state # "DOWNLOAD_IN_PROGRESS"
  /\ flash' = [a \in Cells |-> ERASED]
  /\ image' = [a \in Cells |-> NoByte]
  /\ UNCHANGED <<updown, ft, resp, dev, pos, handles, stray, unclosed>>

(* Full blocks are written as they are, the rest of the payload in one     *)
(* block padded with 0xFF.                                                 *)
PaddedLen(len) ==
  LET overflow_size == len % write_block_size
  IN  len - overflow_size
        + (IF overflow_size # 0 THEN write_block_size ELSE 0)

(* Mutants: the bytes behind the last full block are dropped; the block is *)
(* padded with 0.                                                          *)
PaddedTailDropped(len, data) ==
  [i \in 0 .. (PaddedLen(len) - 1) |->
     IF i < len - (len % write_block_size) THEN data[i] ELSE ERASED]

PaddedWithZero(len, data) ==
  [i \in 0 .. (PaddedLen(len) - 1) |-> IF i < len THEN data[i] ELSE 0]

Padded(len, data) ==
  [i \in 0 .. (PaddedLen(len) - 1) |-> IF i < len THEN data[i] ELSE ERASED]

(* Mutant: one byte more than announced is accepted.                       *)
DownloadOutOfRangeByOne(len) ==
  len = 0 \/ Wrap(current_address + len) > EndAddress + 1

DownloadOutOfRange(len) ==
  len = 0 \/ Wrap(current_address + len) > EndAddress

ContinueDownload(len, data) ==
  LET current == current_address
  IN  \/ /\ DownloadOutOfRange(len)
         /\ Reply("TransferData", "RequestOutOfRange")
         /\ UNCHANGED <<updown, flash, image>>
      \/ /\ ~DownloadOutOfRange(len)
         /\ Writable(current, PaddedLen(len))
         /\ flash' = Programmed(current, PaddedLen(len), Padded(len, data))
         /\ image' = [a \in Cells |-> IF a \in current .. (current + len - 1)
                                      THEN data[a - current] ELSE image[a]]
         /\ current_address' = current + len
         /\ UNCHANGED <<state, start_address, total_size, write_block_size>>
         /\ Reply("TransferData", "OK")
      \* a flash_write failed after "done" bytes were programmed
      \/ /\ ~DownloadOutOfRange(len)
         /\ \E done \in 0 .. PaddedLen(len) :
              /\ done % write_block_size = 0
              /\ done = 0 \/ Writable(current, done)
              /\ flash' = Programmed(current, done, Padded(len, data))
         /\ Reply("TransferData", "GeneralProgrammingFailure")
         /\ UNCHANGED <<updown, image>>

ContinueUpload(maxRespLen) ==
  LET remaining == EndAddress - current_address
      len_to_copy == Min2(MAX_PAYLOAD_SIZE, Min2(maxRespLen, remaining))
  IN  \/ /\ remaining <= 0
         /\ Reply("TransferData", "RequestSequenceError")
         /\ UNCHANGED updown
      \/ /\ remaining > 0
         /\ Reply("TransferData", "OK")
         /\ current_address' = current_address + len_to_copy
         /\ UNCHANGED <<state, start_address, total_size, write_block_size>>
      \/ /\ remaining > 0
         /\ Reply("TransferData", "GeneralProgrammingFailure")
         /\ UNCHANGED updown
-----------------------------------------------------------------------------
(* uds_file_transfer_request, after the reset.  External: fs_open, fs_stat *)
(* and fs_unlink; fs_open fails at the latest when MaxOpenFiles are open.  *)

FileOpened(m, size) ==
  /\ mode' = m /\ file_open' = TRUE
  /\ expected_size' = size /\ transferred' = 0
  /\ pos' = 0
  /\ stray' = 0
  /\ Reply("RequestFileTransfer", "OK")

(* No transfer begins: a failed call, or an operation that opens no file.  *)
NoFileOpened(nrc) ==
  /\ FileIdle
  /\ Reply("RequestFileTransfer", nrc)

(* "open" are the files still open after the reset.                        *)
BeginWrite(size, open) ==
  \/ /\ open < MaxOpenFiles
     /\ handles' = open + 1
     /\ FileOpened("WRITE", size)
  \/ NoFileOpened("FsError") /\ handles' = open

(* uds_file_transfer_begin_read: file_open is still clear when a failed    *)
(* fs_stat resets the transfer, so the file just opened stays open.        *)
BeginRead(size, open) ==
  \/ /\ open < MaxOpenFiles
     /\ handles' = open + 1
     /\ \/ "file" \in StatResults /\ FileOpened("READ", size)
        \/ "error" \in StatResults /\ NoFileOpened("FsError")
        \/ "directory" \in StatResults /\ NoFileOpened("RequestOutOfRange")
  \/ NoFileOpened("FsError") /\ handles' = open

DeleteFile(open) ==
  /\ \E nrc \in {"OK", "FsError"} : NoFileOpened(nrc)
  /\ handles' = open

(* An unknown mode of operation, or a path that is empty or too long.      *)
InvalidFileRequest(open) ==
  /\ NoFileOpened("RequestOutOfRange")
  /\ handles' = open

(* Mutant: a download or upload is left running.                           *)
RequestFileTransferNoReset(operation, size) ==
  /\ operation \in {"ADDFILE", "REPLFILE"} /\ BeginWrite(size, handles)
  /\ UNCHANGED <<updown, dev, flash, image, unclosed>>

RequestFileTransfer(operation, size) ==
  \/ RefuseStart("RequestFileTransfer")
  \/ /\ StartAllowed
     /\ UpdownReset
     /\ \E open \in {handles - 1, handles} :
          /\ FileClose(open)
          /\ \/ operation \in {"ADDFILE", "REPLFILE"} /\ BeginWrite(size, open)
             \/ operation = "RDFILE" /\ BeginRead(size, open)
             \/ operation = "DELFILE" /\ DeleteFile(open)
             \/ operation = "invalid" /\ InvalidFileRequest(open)
     /\ UNCHANGED <<dev, flash, image>>
-----------------------------------------------------------------------------
(* uds_file_transfer_continue.  External: fs_write may fail or write only  *)
(* "rc" bytes, fs_read may fail or read less than asked.                   *)

FileWriteOutOfRange(len) ==
  \/ len = 0
  \/ expected_size > 0 /\ transferred + len > expected_size

(* Mutant: a block that fs_write cut short is taken for a written one.     *)
ContinueWriteShortCounts(len) ==
  \E rc \in 0 .. len :
    /\ ~FileWriteOutOfRange(len)
    /\ pos + rc <= FileCapacity
    /\ Reply("TransferData", "OK")
    /\ transferred' = transferred + len
    /\ pos' = pos + rc
    /\ UNCHANGED <<mode, file_open, expected_size, stray>>

ContinueWrite(len) ==
  \/ /\ FileWriteOutOfRange(len)
     /\ Reply("TransferData", "RequestOutOfRange")
     /\ UNCHANGED <<ft, pos, stray>>
  \/ /\ ~FileWriteOutOfRange(len)
     /\ pos + len <= FileCapacity
     /\ Reply("TransferData", "OK")
     /\ transferred' = transferred + len
     /\ pos' = pos + len
     /\ UNCHANGED <<mode, file_open, expected_size, stray>>
  \/ /\ ~FileWriteOutOfRange(len)
     /\ \E rc \in 0 .. (len - 1) :
          /\ pos + rc <= FileCapacity
          /\ pos' = pos + rc
          /\ stray' = stray + rc
     /\ Reply("TransferData", "UploadDownloadNotAccepted")
     /\ UNCHANGED ft
  \/ /\ ~FileWriteOutOfRange(len)
     /\ Reply("TransferData", "FsError")
     /\ UNCHANGED <<ft, pos, stray>>

(* External: the server's copy callback has room for maxRespLen bytes.     *)
CopyResponse(len, maxRespLen) ==
  IF len <= maxRespLen THEN "OK" ELSE "ResponseTooLong"

ReadLimit(maxRespLen) == Min2(maxRespLen, expected_size - transferred)

ContinueRead(maxRespLen) ==
  \/ /\ expected_size <= transferred
     /\ Reply("TransferData", "RequestSequenceError")
     /\ UNCHANGED <<ft, pos>>
  \/ /\ expected_size > transferred
     /\ \E rc \in 1 .. ReadLimit(maxRespLen) :
          /\ pos' = pos + rc
          /\ transferred' = transferred +
               (IF CopyResponse(rc, maxRespLen) = "OK" THEN rc ELSE 0)
          /\ Reply("TransferData", CopyResponse(rc, maxRespLen))
     /\ UNCHANGED <<mode, file_open, expected_size>>
  \/ /\ expected_size > transferred
     /\ \E nrc \in {"FsError", "RequestSequenceError"} :
          Reply("TransferData", nrc)
     /\ UNCHANGED <<ft, pos>>

(* A running file transfer takes the block before an upload or download    *)
(* does.                                                                   *)
TransferData(len, data, maxRespLen) ==
  \/ /\ mode = "WRITE"
     /\ ContinueWrite(len)
     /\ UNCHANGED <<updown, dev, flash, handles, image, unclosed>>
  \/ /\ mode = "READ"
     /\ ContinueRead(maxRespLen)
     /\ UNCHANGED <<updown, dev, flash, handles, image, stray, unclosed>>
  \/ /\ mode = "IDLE"
     /\ state = "DOWNLOAD_IN_PROGRESS"
     /\ ContinueDownload(len, data)
     /\ UNCHANGED <<ft, dev, pos, handles, stray, unclosed>>
  \/ /\ mode = "IDLE"
     /\ state = "UPLOAD_IN_PROGRESS"
     /\ ContinueUpload(maxRespLen)
     /\ UNCHANGED <<ft, dev, flash, pos, handles, image, stray, unclosed>>
  \/ /\ mode = "IDLE"
     /\ state = "IDLE"
     /\ Reply("TransferData", "RequestSequenceError")
     /\ UNCHANGED <<updown, ft, dev, flash, pos, handles, image, stray, unclosed>>

Operations == {"ADDFILE", "REPLFILE", "DELFILE", "RDFILE", "invalid"}

Next ==
  \/ \E addr \in Addresses, size \in Sizes, format \in {0, 1} :
       RequestDownload(addr, size, format)
  \/ \E addr \in Addresses, size \in Sizes : RequestUpload(addr, size)
  \/ \E operation \in Operations, size \in FileSizes :
       RequestFileTransfer(operation, size)
  \/ \E len \in 0 .. MaxLen, maxRespLen \in 1 .. MaxLen :
       \E data \in [0 .. (len - 1) -> Byte] :
         TransferData(len, data, maxRespLen)
  \/ RequestTransferExit
  \/ EraseFlash

Spec == Init /\ [][Next]_vars
-----------------------------------------------------------------------------
(* Types of the two static records, the devices and the history.           *)
TypeOK ==
  /\ state \in UpdownStates
  /\ start_address \in Address
  /\ current_address \in Address
  /\ total_size \in Address
  /\ write_block_size \in WriteBlockSizes \cup {0}
  /\ mode \in FileModes
  /\ file_open \in BOOLEAN
  /\ expected_size \in Nat
  /\ transferred \in Nat
  /\ service \in Services
  /\ code \in Codes
  /\ device \in {"ready", "missing"}
  /\ geometry \in WriteBlockSizes
  /\ flash \in [Cells -> Byte]
  /\ pos \in Nat
  /\ handles \in Int
  /\ image \in [Cells -> Byte \cup {NoByte}]
  /\ stray \in Nat
  /\ unclosed \in Nat

(* The assertion in transfer_exit: "not both can be running".  Every start *)
(* request has to end the other kind of transfer before it begins its own. *)
OneTransferActive == state = "IDLE" \/ mode = "IDLE"

(* A window accepted although start + size wraps around the address space  *)
(* is harmless: TransferData never gets past the wrapped end of the        *)
(* window, so the current address of a transfer that has moved lies inside *)
(* the flash, between the start and the end of its window.                 *)
TransferInsideFlash ==
  state # "IDLE" =>
    \/ current_address = start_address
    \/ /\ start_address < current_address
       /\ current_address <= start_address + total_size
       /\ start_address + total_size <= FLASH_MAX_SIZE

(* The inductive invariant behind the properties of the two transfers.     *)
WindowInv ==
  state # "IDLE" =>
    /\ EndAddress <= FLASH_MAX_SIZE
    /\ start_address + MaxLen < AddressSpace
    /\ state = "DOWNLOAD_IN_PROGRESS" =>
         write_block_size \in WriteBlockSizes

(* Every byte a download has acknowledged since it started is in the flash *)
(* at its address, whatever failed, was retried or was padded meanwhile.   *)
AckedInFlash == \A a \in Cells : image[a] # NoByte => flash[a] = image[a]

(* What was acknowledged is one run without a hole from the start of the   *)
(* window to the current address.                                          *)
AckedWithoutHole ==
  state = "DOWNLOAD_IN_PROGRESS" =>
    \A a \in Cells :
      image[a] # NoByte <=>
        a \in start_address .. (current_address - 1)

(* The conjunction that every step preserves.                              *)
TransferInv ==
  /\ TypeOK
  /\ OneTransferActive
  /\ WindowInv
  /\ TransferInsideFlash
  /\ AckedWithoutHole
  /\ AckedInFlash

(* The cells a step may change: an erase sets cells to ERASED, a download  *)
(* block changes cells of its window that are not acknowledged yet.        *)
WriteInWindow ==
  \A a \in Cells :
    flash'[a] # flash[a] =>
      \/ state # "DOWNLOAD_IN_PROGRESS" /\ flash'[a] = ERASED
      \/ /\ state = "DOWNLOAD_IN_PROGRESS"
         /\ current_address <= a
         /\ a < start_address + total_size

(* TransferData changes only cells of the requested window that are not    *)
(* acknowledged yet: the padding of the last block leaves the cells behind *)
(* the window as they were.                                                *)
WritesStayInWindow == [][WriteInWindow]_vars

(* What a positive answer to the exit of a write of announced size says of *)
(* the file, whatever failed and was sent again: it holds the announced    *)
(* bytes and, on top, the bytes of every block that fs_write cut short:    *)
(* uds_file_transfer_write refuses such a block but leaves the position    *)
(* where fs_write left it.                                                 *)
CompleteWhenExited ==
  [][/\ mode = "WRITE" /\ expected_size > 0
     /\ service' = "RequestTransferExit" /\ code' = "OK"
     /\ mode' = "IDLE"
     => pos = expected_size + stray]_vars

(* What the test of the service expects of the file after a positive exit: *)
(* as many bytes as were announced.                                        *)
FileAsAnnounced ==
  [][/\ mode = "WRITE" /\ expected_size > 0
     /\ service' = "RequestTransferExit" /\ code' = "OK"
     /\ mode' = "IDLE"
     => pos = expected_size]_vars

(* Files that are open and that no transfer knows of, those that fs_close  *)
(* could not close aside.                                                  *)
LostHandles == handles - unclosed - (IF file_open THEN 1 ELSE 0)

(* No request forgets an open file, whatever fails or is abandoned, except *)
(* a RequestFileTransfer that is refused: uds_file_transfer_begin_read     *)
(* does not close the file whose fs_stat fails.                            *)
NoHandleLeak ==
  [][LostHandles' > LostHandles =>
       service' = "RequestFileTransfer" /\ code' # "OK"]_vars

(* "reset state before start requests (as timeouts are not reported to     *)
(* us)": a start request is never refused on behalf of the transfer that   *)
(* the client abandoned.                                                   *)
StartNotRefusedForOldTransfer ==
  service \in StartServices => code # "GeneralProgrammingFailure"
=============================================================================
