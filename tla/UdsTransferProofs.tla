-------------------------- MODULE UdsTransferProofs --------------------------
(***************************************************************************)
(* TransferInv is inductive: at most one transfer runs, it stays inside    *)
(* its window although sizes wrap, and what it acknowledged is in flash.   *)
(* FileInv adds where a file transfer stands in its file.                  *)
(***************************************************************************)
EXTENDS UdsTransfer, TLAPS

(* Adding two in-range machine words wraps at most once.                   *)
LEMMA WrapOnce ==
  ASSUME NEW x \in Nat, x < 2 * AddressSpace
  PROVE  Wrap(x) = IF x < AddressSpace THEN x ELSE x - AddressSpace
  BY ConstantsAssumption, Z3 DEF Wrap

(* A padded payload is at least as long as the payload.                    *)
LEMMA PaddedLenBound ==
  ASSUME NEW len \in Nat, write_block_size \in Nat \ {0}
  PROVE  /\ PaddedLen(len) \in Nat
         /\ len <= PaddedLen(len)
  BY Z3 DEF PaddedLen

(* A normalized address leaves room for one payload before it wraps.       *)
LEMMA NormalizeBound ==
  ASSUME NEW addr \in Address
  PROVE  /\ Normalize(addr) \in Address
         /\ Normalize(addr) + MaxLen < AddressSpace
  BY ConstantsAssumption DEF Normalize, Address

(* The initial state satisfies the invariant.                              *)
LEMMA InitInv ==
  ASSUME Init PROVE TransferInv
  <1>1. /\ flash \in [Cells -> Byte]
        /\ image \in [Cells -> Byte \cup {NoByte}]
    BY ConstantsAssumption DEF Init
  <1>2. file_open \in BOOLEAN
    BY DEF Init
  <1>3. /\ 0 \in Address
    BY ConstantsAssumption DEF Address
  <1>4. TypeOK
    BY <1>1, <1>2, <1>3
    DEF Init, TypeOK, UpdownStates, FileModes, Services,
        StartServices, Codes
  <1>5. QED
    BY <1>4 DEF Init, TransferInv, OneTransferActive,
      WindowInv, TransferInsideFlash, AckedWithoutHole, AckedInFlash

(* uds_upload_download_reset ends in the idle state.                       *)
LEMMA ResetIsIdle ==
  ASSUME TypeOK, UpdownReset
  PROVE  /\ state' = "IDLE" /\ state' \in UpdownStates
         /\ start_address' \in Address
         /\ current_address' \in Address
         /\ total_size' \in Address
         /\ write_block_size' \in WriteBlockSizes \cup {0}
  BY ConstantsAssumption DEF TypeOK, UpdownReset, UpdownStates, Address

(* uds_file_transfer_reset closes the file and ends in the idle mode.      *)
LEMMA FileIdleType ==
  ASSUME TypeOK, FileIdle
  PROVE  /\ mode' = "IDLE" /\ mode' \in FileModes
         /\ file_open' \in BOOLEAN
         /\ expected_size' \in Nat
         /\ transferred' \in Nat
         /\ pos' \in Nat /\ stray' \in Nat
  BY DEF FileIdle, FileModes

(* The answer of transfer_exit is a response code.                         *)
LEMMA ExitCodeType ==
  ASSUME TypeOK
  PROVE  TransferExitCode \in Codes
  BY DEF TypeOK, TransferExitCode, FileExitCode, Codes

(* fs_close, failed or not, leaves a number of handles and of failures.    *)
LEMMA CloseType ==
  ASSUME TypeOK, NEW open, FileClose(open)
  PROVE  open \in Int /\ unclosed' \in Nat
  BY DEF TypeOK, FileClose

(* An idle upload_download_state makes every conjunct about the window     *)
(* true.                                                                   *)
LEMMA IdleInv ==
  ASSUME TransferInv, TypeOK', state' = "IDLE",
         UNCHANGED flash, UNCHANGED image
  PROVE  TransferInv'
  BY DEF TransferInv, OneTransferActive, WindowInv, TransferInsideFlash,
    AckedWithoutHole, AckedInFlash

(* RequestTransferExit and a refused start request end both transfers.     *)
LEMMA ExitStep ==
  ASSUME TransferInv, UpdownReset, FileReset, service' \in Services,
         code' = TransferExitCode, UNCHANGED <<dev, flash, image>>
  PROVE  TransferInv'
  <1>1. TypeOK
    BY DEF TransferInv
  <1>2. TypeOK'
    BY <1>1, ResetIsIdle, FileIdleType, ExitCodeType, CloseType
    DEF TypeOK, FileReset, dev
  <1>3. QED
    BY <1>1, <1>2, ResetIsIdle, IdleInv

(* A start request that is refused leaves the invariant in place.          *)
LEMMA RefuseStep ==
  ASSUME TransferInv, NEW svc \in Services, RefuseStart(svc)
  PROVE  TransferInv'
  BY ExitStep DEF RefuseStart, Reply

(* An accepted window satisfies the window conjuncts at its start.         *)
LEMMA SetWindowStep ==
  ASSUME TransferInv, NEW addr \in Address, NEW size \in Address,
         WindowValid(addr, size), SetWindow(addr, size)
  PROVE  /\ start_address' \in Address /\ current_address' \in Address
         /\ total_size' \in Address
         /\ current_address' = start_address'
         /\ EndAddress' <= FLASH_MAX_SIZE
         /\ start_address' + MaxLen < AddressSpace
  BY NormalizeBound DEF WindowValid, SetWindow, EndAddress, Wrap

(* RequestDownload preserves the invariant; a new download starts with     *)
(* nothing acknowledged.                                                   *)
LEMMA DownloadStep ==
  ASSUME TransferInv, NEW addr \in Address, NEW size \in Address,
         NEW format \in {0, 1}, RequestDownload(addr, size, format)
  PROVE  TransferInv'
  <1>1. TypeOK
    BY DEF TransferInv
  <1>2. CASE RefuseStart("RequestDownload")
    BY <1>2, RefuseStep DEF Services, StartServices
  <1>3. CASE /\ StartAllowed
             /\ StartDownload(addr, size, format)
             /\ FileReset
             /\ UNCHANGED <<dev, flash>>
    <2>1. /\ mode' = "IDLE" /\ mode' \in FileModes /\ file_open' \in BOOLEAN
          /\ expected_size' \in Nat /\ transferred' \in Nat
          /\ handles' \in Int /\ unclosed' \in Nat
          /\ device' = device /\ geometry' = geometry
          /\ flash' = flash /\ pos' \in Nat /\ stray' \in Nat
      BY <1>1, <1>3, FileIdleType, CloseType DEF FileReset, dev
    <2>2. /\ service' \in Services /\ code' \in Codes
      BY <1>3 DEF StartDownload, Reply, Services, StartServices, Codes
    <2>3. CASE UpdownReset /\ UNCHANGED image
      <3>1. TypeOK'
        BY <1>1, <2>1, <2>2, <2>3, ResetIsIdle DEF TypeOK
      <3>2. QED
        BY <1>1, <2>1, <2>3, <3>1, ResetIsIdle, IdleInv
    <2>4. CASE /\ WindowValid(addr, size) /\ SetWindow(addr, size)
               /\ write_block_size' = geometry
               /\ state' = "IDLE"
               /\ UNCHANGED image
      <3>1. TypeOK'
        BY <1>1, <2>1, <2>2, <2>4, SetWindowStep DEF TypeOK, UpdownStates
      <3>2. QED
        BY <2>1, <2>4, <3>1, IdleInv
    <2>5. CASE /\ WindowValid(addr, size) /\ SetWindow(addr, size)
               /\ write_block_size' = geometry
               /\ state' = "DOWNLOAD_IN_PROGRESS"
               /\ image' = [a \in Cells |-> NoByte]
      <3>1. image' \in [Cells -> Byte \cup {NoByte}]
        BY <2>5
      <3>2. TypeOK'
        BY <1>1, <2>1, <2>2, <2>5, <3>1, SetWindowStep DEF TypeOK, UpdownStates
      <3>3. OneTransferActive' /\ WindowInv' /\ TransferInsideFlash'
        BY <1>1, <2>1, <2>5, SetWindowStep
        DEF TypeOK, OneTransferActive, WindowInv, TransferInsideFlash
      <3>4. AckedWithoutHole' /\ AckedInFlash'
        BY <2>5, SetWindowStep
        DEF AckedWithoutHole, AckedInFlash, Address
      <3>5. QED
        BY <3>2, <3>3, <3>4 DEF TransferInv
    <2>6. QED
      BY <1>3, <2>3, <2>4, <2>5 DEF StartDownload
  <1>4. QED
    BY <1>2, <1>3 DEF RequestDownload

(* RequestUpload preserves the invariant.                                  *)
LEMMA UploadStep ==
  ASSUME TransferInv, NEW addr \in Address, NEW size \in Address,
         RequestUpload(addr, size)
  PROVE  TransferInv'
  <1>1. TypeOK
    BY DEF TransferInv
  <1>2. CASE RefuseStart("RequestUpload")
    BY <1>2, RefuseStep DEF Services, StartServices
  <1>3. CASE /\ StartAllowed
             /\ StartUpload(addr, size)
             /\ FileReset
             /\ UNCHANGED <<dev, flash, image>>
    <2>1. /\ mode' = "IDLE" /\ mode' \in FileModes /\ file_open' \in BOOLEAN
          /\ expected_size' \in Nat /\ transferred' \in Nat
          /\ handles' \in Int /\ unclosed' \in Nat
          /\ device' = device /\ geometry' = geometry
          /\ flash' = flash /\ image' = image
          /\ pos' \in Nat /\ stray' \in Nat
      BY <1>1, <1>3, FileIdleType, CloseType DEF FileReset, dev
    <2>2. /\ service' \in Services /\ code' \in Codes
      BY <1>3 DEF StartUpload, Reply, Services, StartServices, Codes
    <2>3. CASE UpdownReset
      <3>1. TypeOK'
        BY <1>1, <2>1, <2>2, <2>3, ResetIsIdle DEF TypeOK
      <3>2. QED
        BY <1>1, <2>1, <2>3, <3>1, ResetIsIdle, IdleInv
    <2>4. CASE /\ WindowValid(addr, size) /\ SetWindow(addr, size)
               /\ state' = "UPLOAD_IN_PROGRESS"
               /\ UNCHANGED write_block_size
      <3>1. TypeOK'
        BY <1>1, <2>1, <2>2, <2>4, SetWindowStep DEF TypeOK, UpdownStates
      <3>2. OneTransferActive' /\ WindowInv' /\ TransferInsideFlash'
        BY <2>1, <2>4, SetWindowStep
        DEF OneTransferActive, WindowInv, TransferInsideFlash
      <3>3. AckedWithoutHole' /\ AckedInFlash'
        BY <2>1, <2>4 DEF TransferInv, AckedWithoutHole, AckedInFlash
      <3>4. QED
        BY <3>1, <3>2, <3>3 DEF TransferInv
    <2>5. QED
      BY <1>3, <2>3, <2>4 DEF StartUpload
  <1>4. QED
    BY <1>2, <1>3 DEF RequestUpload

(* What RequestFileTransfer does after the reset.                          *)
FileBegins(size, open) ==
  \/ BeginWrite(size, open) \/ BeginRead(size, open)
  \/ DeleteFile(open) \/ InvalidFileRequest(open)

(* RequestFileTransfer ends a flash transfer before it opens a file.       *)
LEMMA FileRequestStep ==
  ASSUME TransferInv, NEW operation, NEW size \in Nat,
         RequestFileTransfer(operation, size)
  PROVE  TransferInv'
  <1>1. TypeOK
    BY DEF TransferInv
  <1>2. CASE RefuseStart("RequestFileTransfer")
    BY <1>2, RefuseStep DEF Services, StartServices
  <1>3. CASE /\ UpdownReset
             /\ \E open : FileClose(open) /\ FileBegins(size, open)
             /\ UNCHANGED <<dev, flash, image>>
    <2>0. PICK open : FileClose(open) /\ FileBegins(size, open)
      BY <1>3
    <2>1. handles' \in Int /\ unclosed' \in Nat
      <3>1. open \in Int /\ unclosed' \in Nat
        BY <1>1, <2>0, CloseType
      <3>2. QED
        BY <2>0, <3>1
        DEF FileBegins, BeginWrite, BeginRead, DeleteFile, InvalidFileRequest
    <2>2. \/ \E m \in {"WRITE", "READ"} : FileOpened(m, size)
          \/ \E nrc \in Codes : NoFileOpened(nrc)
      BY <2>0
      DEF FileBegins, BeginWrite, BeginRead, DeleteFile, InvalidFileRequest,
          Codes
    <2>3. /\ mode' \in FileModes /\ file_open' \in BOOLEAN
          /\ expected_size' \in Nat /\ transferred' \in Nat
          /\ pos' \in Nat /\ stray' \in Nat
          /\ service' \in Services /\ code' \in Codes
      <3>1. ASSUME NEW m \in {"WRITE", "READ"}, FileOpened(m, size)
            PROVE  <2>3!:
        BY <3>1 DEF FileOpened, Reply, FileModes, Services, StartServices, Codes
      <3>2. ASSUME NEW nrc \in Codes, NoFileOpened(nrc)
            PROVE  <2>3!:
        BY <1>1, <3>2, FileIdleType
        DEF NoFileOpened, Reply, Services, StartServices, TypeOK
      <3>3. QED
        BY <2>2, <3>1, <3>2
    <2>4. TypeOK'
      BY <1>1, <1>3, <2>1, <2>3, ResetIsIdle DEF TypeOK, dev
    <2>5. QED
      BY <1>1, <1>3, <2>4, ResetIsIdle, IdleInv
  <1>4. QED
    BY <1>2, <1>3 DEF RequestFileTransfer, FileBegins

(* Blocks of a file leave the flash and the window alone.                  *)
LEMMA FileBlockStep ==
  ASSUME TransferInv, mode # "IDLE", mode' = mode, TypeOK',
         UNCHANGED <<updown, dev, flash, image>>
  PROVE  TransferInv'
  BY DEF TransferInv, OneTransferActive, WindowInv, TransferInsideFlash,
     AckedWithoutHole, AckedInFlash, EndAddress, updown

(* A block of a file that is written.                                      *)
LEMMA ContinueWriteStep ==
  ASSUME TransferInv, NEW len \in Nat, mode = "WRITE", ContinueWrite(len),
         UNCHANGED <<updown, dev, flash, handles, image, unclosed>>
  PROVE  TransferInv'
  <1>1. TypeOK
    BY DEF TransferInv
  <1>2. /\ mode' = mode /\ file_open' = file_open
        /\ expected_size' = expected_size /\ transferred' \in Nat
    BY <1>1 DEF ContinueWrite, ft, TypeOK
  <1>3. service' \in Services /\ code' \in Codes
    BY DEF ContinueWrite, Reply, Services, StartServices, Codes
  <1>4. pos' \in Nat
    BY <1>1 DEF ContinueWrite, TypeOK
  <1>5. stray' \in Nat
    BY <1>1 DEF ContinueWrite, TypeOK
  <1>6. TypeOK'
    BY <1>1, <1>2, <1>3, <1>4, <1>5 DEF TypeOK, updown, dev
  <1>7. QED
    BY <1>2, <1>6, FileBlockStep

(* A block of a file that is read.                                         *)
LEMMA ContinueReadStep ==
  ASSUME TransferInv, NEW maxRespLen \in Nat, mode = "READ",
         ContinueRead(maxRespLen),
         UNCHANGED <<updown, dev, flash, handles, image, stray, unclosed>>
  PROVE  TransferInv'
  <1>1. TypeOK
    BY DEF TransferInv
  <1>2. /\ mode' = mode /\ file_open' = file_open
        /\ expected_size' = expected_size
    BY DEF ContinueRead, ft
  <1>3. \A rc \in 1 .. ReadLimit(maxRespLen) : rc \in Nat
    BY <1>1 DEF ReadLimit, Min2, TypeOK
  <1>4. transferred' \in Nat /\ pos' \in Nat
    BY <1>1, <1>3 DEF ContinueRead, ft, TypeOK
  <1>5. service' \in Services /\ code' \in Codes
    BY DEF ContinueRead, Reply, Services, StartServices, Codes, CopyResponse
  <1>6. TypeOK'
    BY <1>1, <1>2, <1>4, <1>5 DEF TypeOK, updown, dev
  <1>7. QED
    BY <1>2, <1>6, FileBlockStep

(* An upload block moves the current address by what was copied, never     *)
(* past the end of the window.                                             *)
LEMMA ContinueUploadStep ==
  ASSUME TransferInv, NEW maxRespLen \in Nat \ {0}, mode = "IDLE",
         state = "UPLOAD_IN_PROGRESS", ContinueUpload(maxRespLen),
         UNCHANGED <<ft, dev, flash, pos, handles, image, stray, unclosed>>
  PROVE  TransferInv'
  <1>1. TypeOK
    BY DEF TransferInv
  <1>2. /\ EndAddress \in Nat
        /\ EndAddress <= FLASH_MAX_SIZE
        /\ EndAddress <= start_address + total_size
        /\ start_address < EndAddress => EndAddress = start_address + total_size
    BY <1>1, ConstantsAssumption, WrapOnce
    DEF TransferInv, WindowInv, EndAddress, TypeOK, Address
  <1>3. /\ state' = state /\ start_address' = start_address
        /\ total_size' = total_size /\ write_block_size' = write_block_size
    BY DEF ContinueUpload, updown
  <1>4. \/ current_address' = current_address
        \/ /\ current_address' \in Nat
           /\ current_address < current_address'
           /\ current_address' <= EndAddress
    BY <1>1, <1>2, ConstantsAssumption
    DEF ContinueUpload, Min2, updown, TypeOK, Address
  <1>5. service' \in Services /\ code' \in Codes
    BY DEF ContinueUpload, Reply, Services, StartServices, Codes
  <1>6. current_address' \in Address
    BY <1>1, <1>2, <1>4, ConstantsAssumption DEF TypeOK, Address
  <1>7. TypeOK'
    BY <1>1, <1>3, <1>5, <1>6 DEF TypeOK, ft, dev
  <1>8. TransferInsideFlash'
    BY <1>1, <1>2, <1>3, <1>4
    DEF TransferInv, TransferInsideFlash, TypeOK, Address
  <1>9. OneTransferActive' /\ WindowInv'
    BY <1>3 DEF TransferInv, OneTransferActive, WindowInv, EndAddress, ft
  <1>10. AckedWithoutHole' /\ AckedInFlash'
    BY <1>3 DEF TransferInv, AckedWithoutHole, AckedInFlash
  <1>11. QED
    BY <1>7, <1>8, <1>9, <1>10 DEF TransferInv

(* Where a download block that passes the range check lies.                *)
LEMMA DownloadRange ==
  ASSUME TransferInv, state = "DOWNLOAD_IN_PROGRESS",
         NEW len \in 0 .. MaxLen, ~DownloadOutOfRange(len)
  PROVE  /\ len > 0
         /\ start_address <= current_address
         /\ current_address + len <= start_address + total_size
         /\ start_address + total_size <= FLASH_MAX_SIZE
         /\ write_block_size \in Nat \ {0}
  <1>1. TypeOK
    BY DEF TransferInv
  <1>2. /\ current_address + len < AddressSpace
        /\ start_address <= current_address
    BY <1>1, ConstantsAssumption
    DEF TransferInv, WindowInv, TransferInsideFlash, TypeOK, Address
  <1>3. Wrap(current_address + len) = current_address + len
    BY <1>1, <1>2, ConstantsAssumption, WrapOnce DEF TypeOK, Address
  <1>4. len > 0 /\ current_address + len <= EndAddress
    BY <1>1, <1>3, ConstantsAssumption, WrapOnce
    DEF DownloadOutOfRange, EndAddress, TypeOK, Address
  <1>5. EndAddress = start_address + total_size
    BY <1>1, <1>2, <1>4, ConstantsAssumption, WrapOnce
    DEF EndAddress, TypeOK, Address
  <1>6. EndAddress <= FLASH_MAX_SIZE /\ write_block_size \in Nat \ {0}
    BY ConstantsAssumption DEF TransferInv, WindowInv
  <1>7. QED
    BY <1>2, <1>4, <1>5, <1>6

(* Programming a run of erased cells inside the window leaves every cell   *)
(* that is acknowledged, and every cell behind the window, as it was.      *)
LEMMA ProgrammedCells ==
  ASSUME TransferInv, state = "DOWNLOAD_IN_PROGRESS",
         NEW len \in 0 .. MaxLen, NEW data \in [0 .. (len - 1) -> Byte],
         ~DownloadOutOfRange(len),
         NEW done \in 0 .. PaddedLen(len),
         done = 0 \/ Writable(current_address, done),
         flash' = Programmed(current_address, done, Padded(len, data))
  PROVE  /\ flash' \in [Cells -> Byte]
         /\ \A a \in Cells : a < current_address => flash'[a] = flash[a]
         /\ \A a \in Cells : current_address + len <= a => flash'[a] = flash[a]
         /\ \A a \in Cells : /\ a \in current_address .. (current_address + len - 1)
                             /\ a < current_address + done
                             => flash'[a] = data[a - current_address]
  <1>1. TypeOK
    BY DEF TransferInv
  <1>2. PaddedLen(len) \in Nat /\ len <= PaddedLen(len)
    BY DownloadRange, PaddedLenBound, ConstantsAssumption
  <1>3. \A i \in 0 .. (PaddedLen(len) - 1) :
          /\ Padded(len, data)[i] \in Byte
          /\ i < len => Padded(len, data)[i] = data[i]
          /\ ~(i < len) => Padded(len, data)[i] = ERASED
    BY <1>2, ConstantsAssumption DEF Padded
  <1>4. \A a \in Cells :
          flash'[a] = IF a \in current_address .. (current_address + done - 1)
                      THEN Padded(len, data)[a - current_address]
                      ELSE flash[a]
    BY DEF Programmed
  <1>5. \A a \in current_address .. (current_address + done - 1) :
          flash[a] = ERASED
    BY <1>1 DEF Writable, TypeOK, Address
  <1>6. ASSUME NEW a \in Cells PROVE flash'[a] \in Byte
    <2>1. CASE a \in current_address .. (current_address + done - 1)
      <3>1. a - current_address \in 0 .. (PaddedLen(len) - 1)
        BY <1>1, <1>2, <2>1 DEF TypeOK, Address, Cells
      <3> QED BY <1>3, <1>4, <2>1, <3>1
    <2>2. CASE a \notin current_address .. (current_address + done - 1)
      BY <1>1, <1>4, <2>2 DEF TypeOK
    <2> QED BY <2>1, <2>2
  <1>7. flash' \in [Cells -> Byte]
    BY <1>6 DEF Programmed
  <1>8. \A a \in Cells : a < current_address => flash'[a] = flash[a]
    BY <1>1, <1>2, <1>4 DEF TypeOK, Address, Cells
  <1>9. ASSUME NEW a \in Cells, current_address + len <= a
        PROVE  flash'[a] = flash[a]
    <2>1. CASE a \in current_address .. (current_address + done - 1)
      <3>1. /\ a - current_address \in 0 .. (PaddedLen(len) - 1)
            /\ ~(a - current_address < len)
        BY <1>1, <1>2, <1>9, <2>1, ConstantsAssumption DEF TypeOK, Address, Cells
      <3>2. Padded(len, data)[a - current_address] = ERASED
        BY <1>3, <3>1
      <3>3. QED
        BY <1>4, <1>5, <2>1, <3>2
    <2>2. QED
      BY <1>4, <2>1
  <1>10. ASSUME NEW a \in Cells,
                a \in current_address .. (current_address + len - 1),
                a < current_address + done
         PROVE  flash'[a] = data[a - current_address]
    <2>1. /\ a - current_address \in 0 .. (PaddedLen(len) - 1)
          /\ a - current_address < len
          /\ a \in current_address .. (current_address + done - 1)
      BY <1>1, <1>2, <1>10, ConstantsAssumption DEF TypeOK, Address, Cells
    <2>2. QED
      BY <1>3, <1>4, <2>1
  <1>11. QED
    BY <1>7, <1>8, <1>9, <1>10

(* A download block: refused, written and acknowledged, or failed half     *)
(* way.                                                                    *)
LEMMA ContinueDownloadStep ==
  ASSUME TransferInv, NEW len \in 0 .. MaxLen,
         NEW data \in [0 .. (len - 1) -> Byte], mode = "IDLE",
         state = "DOWNLOAD_IN_PROGRESS", ContinueDownload(len, data),
         UNCHANGED <<ft, dev, pos, handles, stray, unclosed>>
  PROVE  TransferInv'
  <1>1. TypeOK
    BY DEF TransferInv
  <1>2. service' \in Services /\ code' \in Codes
    BY DEF ContinueDownload, Reply, Services, StartServices, Codes
  <1>3. /\ state' = state /\ start_address' = start_address
        /\ total_size' = total_size /\ write_block_size' = write_block_size
    BY DEF ContinueDownload, updown
  <1>4. OneTransferActive' /\ WindowInv'
    BY <1>3 DEF TransferInv, OneTransferActive, WindowInv, EndAddress, ft
  <1>5. CASE UNCHANGED <<updown, flash, image>>
    <2>1. TypeOK'
      BY <1>1, <1>2, <1>5 DEF TypeOK, updown, ft, dev
    <2>2. QED
      BY <1>4, <1>5, <2>1
      DEF TransferInv, TransferInsideFlash, AckedWithoutHole, AckedInFlash,
          updown
  <1>6. CASE /\ ~DownloadOutOfRange(len)
             /\ Writable(current_address, PaddedLen(len))
             /\ flash' = Programmed(current_address, PaddedLen(len),
                                    Padded(len, data))
             /\ image' = [a \in Cells |->
                            IF a \in current_address .. (current_address + len - 1)
                            THEN data[a - current_address] ELSE image[a]]
             /\ current_address' = current_address + len
    <2>1. PaddedLen(len) \in Nat /\ len <= PaddedLen(len)
      BY <1>6, DownloadRange, PaddedLenBound, ConstantsAssumption
    <2>2. /\ flash' \in [Cells -> Byte]
          /\ \A a \in Cells : a < current_address => flash'[a] = flash[a]
          /\ \A a \in Cells : a \in current_address .. (current_address + len - 1)
                              => flash'[a] = data[a - current_address]
      <3>1. PaddedLen(len) \in 0 .. PaddedLen(len)
        BY <2>1
      <3>2. /\ flash' \in [Cells -> Byte]
            /\ \A a \in Cells : a < current_address => flash'[a] = flash[a]
            /\ \A a \in Cells :
                 /\ a \in current_address .. (current_address + len - 1)
                 /\ a < current_address + PaddedLen(len)
                 => flash'[a] = data[a - current_address]
        BY <1>6, <3>1, ProgrammedCells
      <3>3. \A a \in current_address .. (current_address + len - 1) :
              a < current_address + PaddedLen(len)
        BY <1>1, <2>1, ConstantsAssumption DEF TypeOK, Address
      <3>4. QED
        BY <3>2, <3>3
    <2>3. \A a \in Cells :
            image'[a] = IF a \in current_address .. (current_address + len - 1)
                        THEN data[a - current_address] ELSE image[a]
      BY <1>6
    <2>4. \A a \in Cells : a \in current_address .. (current_address + len - 1)
                           => data[a - current_address] \in Byte
      BY <1>1, ConstantsAssumption DEF TypeOK, Address, Cells
    <2>5. image' \in [Cells -> Byte \cup {NoByte}]
      BY <1>1, <1>6, <2>4 DEF TypeOK
    <2>6. current_address' \in Address /\ TransferInsideFlash'
      BY <1>1, <1>3, <1>6, DownloadRange, ConstantsAssumption
      DEF TypeOK, Address, TransferInsideFlash
    <2>7. TypeOK'
      BY <1>1, <1>2, <1>3, <2>2, <2>5, <2>6 DEF TypeOK, ft, dev
    <2>8. /\ \A a \in Cells : image[a] # NoByte <=>
                 a \in start_address .. (current_address - 1)
      BY DEF TransferInv, AckedWithoutHole
    <2>9. AckedWithoutHole'
      BY <1>1, <1>3, <1>6, <2>3, <2>4, <2>8, DownloadRange, ConstantsAssumption
      DEF TypeOK, Address, Cells, AckedWithoutHole
    <2>10. ASSUME NEW a \in Cells, image'[a] # NoByte
           PROVE  flash'[a] = image'[a]
      <3>1. CASE a \in current_address .. (current_address + len - 1)
        BY <2>2, <2>3, <3>1
      <3>2. CASE a \notin current_address .. (current_address + len - 1)
        <4>1. image'[a] = image[a] /\ image[a] # NoByte
          BY <2>3, <2>10, <3>2
        <4>2. a < current_address
          BY <1>1, <2>8, <4>1 DEF TypeOK, Address
        <4>3. QED
          BY <2>2, <4>1, <4>2 DEF TransferInv, AckedInFlash
      <3>3. QED
        BY <3>1, <3>2
    <2>11. QED
      BY <1>4, <2>6, <2>7, <2>9, <2>10 DEF TransferInv, AckedInFlash
  <1>7. CASE /\ ~DownloadOutOfRange(len)
             /\ \E done \in 0 .. PaddedLen(len) :
                  /\ done % write_block_size = 0
                  /\ done = 0 \/ Writable(current_address, done)
                  /\ flash' = Programmed(current_address, done,
                                         Padded(len, data))
             /\ UNCHANGED <<updown, image>>
    <2>1. /\ flash' \in [Cells -> Byte]
          /\ \A a \in Cells : a < current_address => flash'[a] = flash[a]
      BY <1>7, ProgrammedCells
    <2>2. TypeOK'
      BY <1>1, <1>2, <1>7, <2>1 DEF TypeOK, updown, ft, dev
    <2>3. AckedInFlash'
      BY <1>1, <1>7, <2>1
      DEF TransferInv, AckedInFlash, AckedWithoutHole, TypeOK, Address, Cells
    <2>4. QED
      BY <1>4, <1>7, <2>2, <2>3
      DEF TransferInv, TransferInsideFlash, AckedWithoutHole, updown
  <1>8. QED
    BY <1>5, <1>6, <1>7 DEF ContinueDownload

(* Erasing forgets what was acknowledged.                                  *)
LEMMA EraseStep ==
  ASSUME TransferInv, EraseFlash
  PROVE  TransferInv'
  <1>1. TypeOK
    BY DEF TransferInv
  <1>2. /\ flash' \in [Cells -> Byte]
        /\ image' \in [Cells -> Byte \cup {NoByte}]
        /\ \A a \in Cells : image'[a] = NoByte
    BY ConstantsAssumption DEF EraseFlash
  <1>3. /\ UNCHANGED <<updown, ft, resp, dev, pos, handles, stray, unclosed>>
        /\ state # "DOWNLOAD_IN_PROGRESS"
    BY DEF EraseFlash
  <1>4. TypeOK'
    BY <1>1, <1>2, <1>3 DEF TypeOK, updown, ft, resp, dev
  <1>5. OneTransferActive' /\ WindowInv' /\ TransferInsideFlash'
    BY <1>3 DEF TransferInv, OneTransferActive, WindowInv, TransferInsideFlash,
      EndAddress, updown, ft
  <1>6. AckedWithoutHole' /\ AckedInFlash'
    BY <1>2, <1>3 DEF AckedWithoutHole, AckedInFlash, updown
  <1>7. QED
    BY <1>4, <1>5, <1>6 DEF TransferInv

(* A block with no transfer running is only answered.                      *)
LEMMA IdleBlockStep ==
  ASSUME TransferInv, state = "IDLE",
         Reply("TransferData", "RequestSequenceError"),
         UNCHANGED <<updown, ft, dev, flash, pos, handles, image, stray, unclosed>>
  PROVE  TransferInv'
  <1>1. TypeOK'
    BY DEF TransferInv, TypeOK, Reply, Services, StartServices, Codes, updown,
      ft, dev
  <1>2. QED
    BY <1>1, IdleInv DEF updown

(* Every step preserves the invariant.                                     *)
LEMMA NextInv ==
  ASSUME TransferInv, [Next]_vars
  PROVE  TransferInv'
  <1>1. CASE \E addr \in Addresses, size \in Sizes, format \in {0, 1} :
               RequestDownload(addr, size, format)
    BY <1>1, DownloadStep, ConstantsAssumption DEF Address
  <1>2. CASE \E addr \in Addresses, size \in Sizes : RequestUpload(addr, size)
    BY <1>2, UploadStep, ConstantsAssumption DEF Address
  <1>3. CASE \E operation \in Operations, size \in FileSizes :
               RequestFileTransfer(operation, size)
    BY <1>3, FileRequestStep, ConstantsAssumption
  <1>4. CASE \E len \in 0 .. MaxLen, maxRespLen \in 1 .. MaxLen :
               \E data \in [0 .. (len - 1) -> Byte] :
                 TransferData(len, data, maxRespLen)
    <2>0. PICK len \in 0 .. MaxLen, maxRespLen \in 1 .. MaxLen :
            \E data \in [0 .. (len - 1) -> Byte] :
              TransferData(len, data, maxRespLen)
      BY <1>4
    <2>1. PICK data \in [0 .. (len - 1) -> Byte] :
            TransferData(len, data, maxRespLen)
      BY <2>0
    <2>2. len \in Nat /\ maxRespLen \in Nat \ {0}
      BY ConstantsAssumption
    <2>3. CASE mode = "WRITE"
      BY <2>1, <2>2, <2>3, ContinueWriteStep DEF TransferData
    <2>4. CASE mode = "READ"
      BY <2>1, <2>2, <2>4, ContinueReadStep DEF TransferData
    <2>5. CASE mode = "IDLE" /\ state = "DOWNLOAD_IN_PROGRESS"
      BY <2>1, <2>5, ContinueDownloadStep DEF TransferData
    <2>6. CASE mode = "IDLE" /\ state = "UPLOAD_IN_PROGRESS"
      BY <2>1, <2>2, <2>6, ContinueUploadStep DEF TransferData
    <2>7. CASE mode = "IDLE" /\ state = "IDLE"
      BY <2>1, <2>7, IdleBlockStep DEF TransferData
    <2>8. QED
      BY <2>1, <2>3, <2>4, <2>5, <2>6, <2>7 DEF TransferData
  <1>5. CASE RequestTransferExit
    BY <1>5, ExitStep DEF RequestTransferExit, Reply, Services
  <1>6. CASE EraseFlash
    BY <1>6, EraseStep
  <1>7. CASE UNCHANGED vars
    BY <1>7 DEF vars, updown, ft, resp, dev, TransferInv, TypeOK,
      OneTransferActive, WindowInv, TransferInsideFlash, AckedWithoutHole,
      AckedInFlash, EndAddress
  <1>8. QED
    BY <1>1, <1>2, <1>3, <1>4, <1>5, <1>6, <1>7 DEF Next

(* TransferInv holds in every reachable state, for every flash, window,    *)
(* payload and outcome of the drivers.                                     *)
THEOREM TransferInvariant == Spec => []TransferInv
  <1>1. Init => TransferInv
    BY InitInv
  <1>2. TransferInv /\ [Next]_vars => TransferInv'
    BY NextInv
  <1>3. QED
    BY <1>1, <1>2, PTL DEF Spec

(* The two static records always hold values of their types.               *)
THEOREM TypeCorrect == Spec => []TypeOK
  <1>1. TransferInv => TypeOK
    BY DEF TransferInv
  <1>2. QED
    BY <1>1, TransferInvariant, PTL

(* The assertion in transfer_exit never fails: no two transfers run.       *)
THEOREM TransfersExclusive == Spec => []OneTransferActive
  <1>1. TransferInv => OneTransferActive
    BY DEF TransferInv
  <1>2. QED
    BY <1>1, TransferInvariant, PTL

(* Size arithmetic that wraps never moves a transfer outside the flash.    *)
THEOREM TransferBounded == Spec => []TransferInsideFlash
  <1>1. TransferInv => TransferInsideFlash
    BY DEF TransferInv
  <1>2. QED
    BY <1>1, TransferInvariant, PTL

(* What a download acknowledged is in the flash.                           *)
THEOREM AckedIsDurable == Spec => []AckedInFlash
  <1>1. TransferInv => AckedInFlash
    BY DEF TransferInv
  <1>2. QED
    BY <1>1, TransferInvariant, PTL

(* A step changes flash only by erasing or inside the open window.         *)
LEMMA WindowStep ==
  ASSUME TransferInv, [Next]_vars
  PROVE  [WriteInWindow]_vars
  <1>1. CASE UNCHANGED flash
    BY <1>1 DEF WriteInWindow
  <1>2. CASE EraseFlash
    BY <1>2 DEF EraseFlash, WriteInWindow
  <1>3. ASSUME NEW len \in 0 .. MaxLen, NEW data \in [0 .. (len - 1) -> Byte],
               state = "DOWNLOAD_IN_PROGRESS", ContinueDownload(len, data),
               ~ UNCHANGED flash
        PROVE  WriteInWindow
    <2>1. TypeOK
      BY DEF TransferInv
    <2>2. ~DownloadOutOfRange(len)
      BY <1>3 DEF ContinueDownload
    <2>3. PaddedLen(len) \in Nat
      BY <1>3, <2>2, DownloadRange, PaddedLenBound, ConstantsAssumption
    <2>4. \E done \in 0 .. PaddedLen(len) :
            /\ done = 0 \/ Writable(current_address, done)
            /\ flash' = Programmed(current_address, done, Padded(len, data))
      BY <1>3, <2>3 DEF ContinueDownload
    <2>5. /\ \A a \in Cells : a < current_address => flash'[a] = flash[a]
          /\ \A a \in Cells : current_address + len <= a => flash'[a] = flash[a]
      BY <1>3, <2>2, <2>4, ProgrammedCells
    <2>6. current_address + len <= start_address + total_size
      BY <1>3, <2>2, DownloadRange
    <2>7. QED
      BY <1>3, <2>1, <2>5, <2>6, ConstantsAssumption
      DEF WriteInWindow, TypeOK, Address, Cells
  <1>4. CASE ~ UNCHANGED flash /\ ~ EraseFlash
    <2>1. \E len \in 0 .. MaxLen, maxRespLen \in 1 .. MaxLen :
            \E data \in [0 .. (len - 1) -> Byte] :
              TransferData(len, data, maxRespLen)
      BY <1>4 DEF Next, vars, RequestDownload, RequestUpload, RefuseStart,
        RequestFileTransfer, RequestTransferExit
    <2>2. QED
      BY <1>3, <1>4, <2>1 DEF TransferData
  <1>5. QED
    BY <1>1, <1>2, <1>4

(* Padding and half-written blocks never change a cell outside the window  *)
(* the client asked for.                                                   *)
THEOREM WritesConfined == Spec => WritesStayInWindow
  <1>1. TransferInv /\ [Next]_vars => [WriteInWindow]_vars
    BY WindowStep
  <1>2. QED
    BY <1>1, TransferInvariant, PTL DEF Spec, WritesStayInWindow

-----------------------------------------------------------------------------
(* The file of a write transfer holds what the record has counted and, on  *)
(* top, what fs_write took of the blocks that were refused.                *)
FileInv == TransferInv /\ (mode = "WRITE" => pos = transferred + stray)

(* FileInv holds after every step: what is counted is written, and a block *)
(* that is not counted moves the position by its stray bytes.              *)
LEMMA FileStep ==
  ASSUME FileInv, [Next]_vars
  PROVE  FileInv'
  <1>1. TransferInv /\ TypeOK
    BY DEF FileInv, TransferInv
  <1>2. TransferInv'
    BY <1>1, NextInv
  <1>3. ASSUME NEW svc, RefuseStart(svc)
        PROVE  mode' = "IDLE"
    BY <1>3 DEF RefuseStart, FileReset, FileIdle
  <1>4. CASE FileReset
    BY <1>2, <1>4 DEF FileInv, FileReset, FileIdle
  <1>5. CASE \E operation \in Operations, size \in FileSizes :
               RequestFileTransfer(operation, size)
    <2>1. PICK operation \in Operations, size \in FileSizes :
            RequestFileTransfer(operation, size)
      BY <1>5
    <2>2. \/ mode' = "IDLE"
          \/ pos' = 0 /\ transferred' = 0 /\ stray' = 0
      BY <1>3, <2>1
      DEF RequestFileTransfer, BeginWrite, BeginRead, DeleteFile,
          InvalidFileRequest, FileOpened, NoFileOpened, FileIdle
    <2>3. QED
      BY <1>2, <2>2 DEF FileInv
  <1>6. CASE \E len \in 0 .. MaxLen, maxRespLen \in 1 .. MaxLen :
               \E data \in [0 .. (len - 1) -> Byte] :
                 TransferData(len, data, maxRespLen)
    <2>0. PICK len \in 0 .. MaxLen, maxRespLen \in 1 .. MaxLen :
            \E data \in [0 .. (len - 1) -> Byte] :
              TransferData(len, data, maxRespLen)
      BY <1>6
    <2>1. PICK data \in [0 .. (len - 1) -> Byte] :
            TransferData(len, data, maxRespLen)
      BY <2>0
    <2>2. CASE mode # "WRITE"
      <3>1. mode' = mode
        BY <2>1, <2>2 DEF TransferData, ContinueRead, ft
      <3>2. QED
        BY <1>2, <2>2, <3>1 DEF FileInv
    <2>3. CASE mode = "WRITE"
      <3>1. ContinueWrite(len)
        BY <2>1, <2>3 DEF TransferData
      <3>2. CASE UNCHANGED <<ft, pos, stray>>
        BY <1>2, <3>2 DEF FileInv, ft
      <3>3. CASE /\ transferred' = transferred + len
                 /\ pos' = pos + len
                 /\ UNCHANGED <<mode, file_open, expected_size, stray>>
        BY <1>1, <1>2, <3>3 DEF FileInv, TypeOK
      <3>4. CASE /\ \E rc \in 0 .. (len - 1) :
                      /\ pos + rc <= FileCapacity
                      /\ pos' = pos + rc
                      /\ stray' = stray + rc
                 /\ UNCHANGED ft
        <4>1. PICK rc \in 0 .. (len - 1) :
                pos' = pos + rc /\ stray' = stray + rc
          BY <3>4
        <4>2. mode' = mode /\ transferred' = transferred
          BY <3>4 DEF ft
        <4>3. QED
          BY <1>1, <1>2, <4>1, <4>2 DEF FileInv, TypeOK
      <3>5. QED
        BY <3>1, <3>2, <3>3, <3>4 DEF ContinueWrite
    <2>4. QED
      BY <2>2, <2>3
  <1>7. CASE UNCHANGED <<ft, pos, stray>>
    BY <1>2, <1>7 DEF FileInv, ft
  <1>8. QED
    BY <1>4, <1>5, <1>6, <1>7
    DEF Next, vars, RequestDownload, RequestUpload, RefuseStart,
        RequestTransferExit, EraseFlash

LEMMA FileInvariant == Spec => []FileInv
  <1>1. Init => FileInv
    BY InitInv DEF Init, FileInv
  <1>2. FileInv /\ [Next]_vars => FileInv'
    BY FileStep
  <1>3. QED
    BY <1>1, <1>2, PTL DEF Spec

(* A write of announced size that is exited with a positive answer has put *)
(* that many bytes and those of the refused blocks into the file: what     *)
(* uds_file_transfer_exit compares agrees with the file exactly when no    *)
(* fs_write was cut short.                                                 *)
THEOREM ExitedIsComplete == Spec => CompleteWhenExited
  <1>1. ASSUME FileInv, Next, mode = "WRITE", expected_size > 0,
               service' = "RequestTransferExit", code' = "OK", mode' = "IDLE"
        PROVE  pos = expected_size + stray
    <2>1. state = "IDLE"
      BY <1>1 DEF FileInv, TransferInv, OneTransferActive
    <2>2. CASE RequestTransferExit
      <3>1. TransferExitCode = "OK"
        BY <1>1, <2>2 DEF RequestTransferExit, Reply
      <3>2. transferred = expected_size
        BY <1>1, <2>1, <3>1
        DEF TransferExitCode, FileExitCode, FileIncomplete
      <3>3. QED
        BY <1>1, <3>2 DEF FileInv
    <2>3. CASE EraseFlash
      BY <1>1, <2>3 DEF EraseFlash, ft
    <2>4. ASSUME NEW len, NEW data, NEW maxRespLen,
                 TransferData(len, data, maxRespLen)
          PROVE  FALSE
      BY <1>1, <2>4 DEF TransferData, ContinueWrite, Reply
    <2>5. ASSUME NEW addr, NEW size, NEW format, RequestDownload(addr, size, format)
          PROVE  FALSE
      BY <1>1, <2>5 DEF RequestDownload, RefuseStart, StartDownload, Reply
    <2>6. ASSUME NEW addr, NEW size, RequestUpload(addr, size)
          PROVE  FALSE
      BY <1>1, <2>6 DEF RequestUpload, RefuseStart, StartUpload, Reply
    <2>7. ASSUME NEW operation, NEW size, RequestFileTransfer(operation, size)
          PROVE  FALSE
      BY <1>1, <2>7
      DEF RequestFileTransfer, RefuseStart, BeginWrite, BeginRead, DeleteFile,
          InvalidFileRequest, FileOpened, NoFileOpened, Reply
    <2>8. QED
      BY <1>1, <2>2, <2>3, <2>4, <2>5, <2>6, <2>7 DEF Next
  <1>2. FileInv /\ [Next]_vars =>
          [/\ mode = "WRITE" /\ expected_size > 0
           /\ service' = "RequestTransferExit" /\ code' = "OK"
           /\ mode' = "IDLE"
           => pos = expected_size + stray]_vars
    BY <1>1
  <1>3. QED
    BY <1>2, FileInvariant, PTL DEF Spec, CompleteWhenExited

(* No request but a refused RequestFileTransfer loses an open file,        *)
(* whatever the file system answers and however transfers are abandoned.   *)
THEOREM HandlesAreKept == Spec => NoHandleLeak
  <1>1. ASSUME TransferInv, [Next]_vars
        PROVE  [LostHandles' > LostHandles =>
                  service' = "RequestFileTransfer" /\ code' # "OK"]_vars
    <2>1. handles \in Int /\ unclosed \in Nat /\ file_open \in BOOLEAN
      BY <1>1 DEF TransferInv, TypeOK
    <2>2. LostHandles \in Int
      BY <2>1 DEF LostHandles
    <2>3. ASSUME NEW open, FileClose(open)
          PROVE  open - unclosed' = LostHandles /\ open \in Int
                   /\ unclosed' \in Nat
      BY <2>1, <2>3 DEF FileClose, LostHandles
    <2>4. CASE FileReset
      <3>1. LostHandles' = LostHandles
        BY <2>2, <2>3, <2>4 DEF FileReset, FileIdle, LostHandles
      <3>2. QED
        BY <2>2, <3>1
    <2>5. CASE UNCHANGED <<handles, unclosed, file_open>>
      <3>1. LostHandles' = LostHandles
        BY <2>5 DEF LostHandles
      <3>2. QED
        BY <2>2, <3>1
    <2>6. ASSUME NEW operation, NEW size, RequestFileTransfer(operation, size)
          PROVE  LostHandles' > LostHandles =>
                   service' = "RequestFileTransfer" /\ code' # "OK"
      <3>1. CASE RefuseStart("RequestFileTransfer")
        <4>1. LostHandles' = LostHandles
          BY <2>2, <2>3, <3>1 DEF RefuseStart, FileReset, FileIdle, LostHandles
        <4>2. QED
          BY <2>2, <4>1
      <3>2. ASSUME NEW open, FileClose(open), NEW m, FileOpened(m, size),
                   handles' = open + 1
            PROVE  LostHandles' = LostHandles
        BY <2>2, <2>3, <3>2 DEF FileOpened, LostHandles
      <3>3. ASSUME NEW open, FileClose(open), NEW nrc, NoFileOpened(nrc),
                   handles' = open
            PROVE  LostHandles' = LostHandles
        BY <2>2, <2>3, <3>3 DEF NoFileOpened, FileIdle, LostHandles
      <3>4. CASE \E nrc \in {"FsError", "RequestOutOfRange"} : NoFileOpened(nrc)
        BY <3>4 DEF NoFileOpened, Reply
      <3>5. CASE \E open : FileClose(open) /\ FileBegins(size, open)
        <4>1. PICK open : FileClose(open) /\ FileBegins(size, open)
          BY <3>5
        <4>2. \/ \E m : FileOpened(m, size) /\ handles' = open + 1
              \/ \E nrc : NoFileOpened(nrc) /\ handles' = open
              \/ \E nrc \in {"FsError", "RequestOutOfRange"} : NoFileOpened(nrc)
          BY <4>1
          DEF FileBegins, BeginWrite, BeginRead, DeleteFile, InvalidFileRequest
        <4>3. QED
          BY <2>2, <3>2, <3>3, <3>4, <4>1, <4>2
      <3>6. QED
        BY <2>6, <3>1, <3>5 DEF RequestFileTransfer, FileBegins
    <2>7. CASE \E len \in 0 .. MaxLen, maxRespLen \in 1 .. MaxLen :
                 \E data \in [0 .. (len - 1) -> Byte] :
                   TransferData(len, data, maxRespLen)
      <3>1. UNCHANGED <<handles, unclosed, file_open>>
        BY <2>7 DEF TransferData, ContinueWrite, ContinueRead, ft
      <3>2. QED
        BY <2>5, <3>1
    <2>8. QED
      BY <1>1, <2>4, <2>5, <2>6, <2>7
      DEF Next, vars, ft, RequestDownload, RequestUpload, RefuseStart,
          RequestTransferExit, EraseFlash
  <1>2. QED
    BY <1>1, TransferInvariant, PTL DEF Spec, NoHandleLeak
=============================================================================
