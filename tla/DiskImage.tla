------------------------------ MODULE DiskImage ------------------------------
(***************************************************************************)
(* The disk image tool, src/tools/dos25-disk.c: create, verify and extract *)
(* as steps on a DSF file, between which the user may interrupt the tool   *)
(* and the medium may lose or change what the file holds.                  *)
(*                                                                         *)
(* A byte is the set of its bits, and so is the 32-bit sum, which makes    *)
(* the C operators << and ^ an image and a symmetric difference.  A file   *)
(* is NoDsf (missing, or without a whole DSF header) or its header and the *)
(* bytes after it.  A byte of memory that nobody has written is Heap.      *)
(***************************************************************************)
EXTENDS Naturals, Sequences, SequencesExt

CONSTANTS
  HeaderSize,   \* sizeof(struct dsf_header): 32
  SectorSize,   \* the room for the boot sector in the layout: 512
  ByteBits,     \* 8
  Shift,        \* the checksum's shift for each byte: 3
  Width,        \* bits of the checksum: 32
  BootFiles,    \* the boot files ...
  KernelFiles,  \* ... and the kernels an image is made of
  MaxCommands,  \* bound of the model: commands of the user
  MaxFaults     \* bound of the model: changes of the medium

\* Bytes of an image that reach its checksum, counted from the end.
Window == (Width - 1) \div Shift + 1

ASSUME SizeAssumption  == HeaderSize \in Nat /\ SectorSize \in Nat
ASSUME WordAssumption  == Width \in Nat /\ Shift \in Nat \ {0} /\ ByteBits \in 1 .. Width
ASSUME BoundAssumption == MaxCommands \in Nat /\ MaxFaults \in Nat
\* The bytes of the header itself are shifted out of the sum: no image is so
\* short that they would stay.
ASSUME FilesAssumption ==
  \A boot \in BootFiles, kernel \in KernelFiles :
     /\ boot \in Seq(SUBSET (0 .. ByteBits - 1)) /\ kernel \in Seq(SUBSET (0 .. ByteBits - 1))
     /\ Len(boot) + Len(kernel) >= Window

VARIABLES
  diskPc,     \* the step of the tool that comes next; "shell": none is running
  image,      \* the DSF file
  sources,    \* the files the last create was given
  outputs,    \* what the last command, if extract, has written
  status,     \* the last command and how it ended: 0 is "ok", all else -1
  accepted,   \* history: the image verify has last accepted
  writesCut,  \* history: some write was cut short by a full disk
  commands, faults

diskVars == <<diskPc, image, sources, outputs, status, accepted, writesCut, commands, faults>>

Byte  == SUBSET (0 .. ByteBits - 1)
Word  == SUBSET (0 .. Width - 1)
Heap  == {ByteBits}
NoDsf == [header |-> <<>>, body |-> <<>>]
NoFile == [written |-> FALSE, bytes |-> <<>>]

DiskInit ==
  /\ diskPc = "shell" /\ image = NoDsf
  /\ sources = [boot |-> <<>>, kernel |-> <<>>]
  /\ outputs = [boot |-> NoFile, kernel |-> NoFile]
  /\ status = [command |-> "none", result |-> "none"]
  /\ accepted = NoDsf /\ writesCut = FALSE
  /\ commands = 0 /\ faults = 0

-----------------------------------------------------------------------------
(* Helpers.                                                                *)

\* sum = (sum << 3) ^ data[i]
AddByte(sum, byte) ==
  LET shifted == {bit + Shift : bit \in sum} \cap (0 .. Width - 1)
  IN  (shifted \ byte) \cup (byte \ shifted)

\* The sum after each turn of the loop.
Sums(data) ==
  LET sum[i \in 0 .. Len(data)] == IF i = 0 THEN {} ELSE AddByte(sum[i - 1], data[i])
  IN  sum

\* A mutant: the last byte is left out.
SkipsLastByte(data) == Sums(data)[Len(data) - 1]

calculate_checksum(data) == Sums(data)[Len(data)]

\* A mutant: the kernel is not counted.
ForgetsKernel(boot, kernel) == HeaderSize + Len(boot)

TotalSize(boot, kernel) == HeaderSize + Len(boot) + Len(kernel)

\* A mutant: the boot sector is looked for where the kernel is.
BehindSector == HeaderSize + SectorSize

BootOffset == HeaderSize

\* The header as create fills it; kernel_offset does not depend on boot_size.
Header(boot, kernel) ==
  [ total_size    |-> TotalSize(boot, kernel),
    boot_offset   |-> BootOffset,
    boot_size     |-> Len(boot),
    kernel_offset |-> HeaderSize + SectorSize,
    kernel_size   |-> Len(kernel),
    checksum      |-> {} ]

IsDsf(file)   == file.header # <<>>
Cuts(bytes)   == {SubSeq(bytes, 1, n) : n \in 0 .. Len(bytes)}
Content(from) == from.boot \o from.kernel

\* What may be on the disk of an image being written: every beginning of it.
Begun == {NoDsf} \cup
         {[header |-> Header(sources.boot, sources.kernel), body |-> bytes] :
            bytes \in Cuts(Content(sources))}

\* fseek and an unchecked fread into memory from malloc.
ReadAt(offset, size) ==
  LET at == offset - HeaderSize
  IN  [i \in 1 .. size |-> IF at + i <= Len(image.body) THEN image.body[at + i] ELSE Heap]

Command(name) ==
  /\ diskPc = "shell" /\ commands < MaxCommands
  /\ commands' = commands + 1
  /\ outputs' = [boot |-> NoFile, kernel |-> NoFile]

Running(name) == [command |-> name, result |-> "none"]
Returns(name, result) == diskPc' = "shell" /\ status' = [command |-> name, result |-> result]

-----------------------------------------------------------------------------
(* create_dsf_image.                                                       *)

\* One of the three files cannot be opened; the output is opened last.
CreateCannotOpen ==
  /\ Command("create") /\ Returns("create", "cannotOpen")
  /\ UNCHANGED <<image, sources, accepted, writesCut, faults>>

\* fopen "wb" empties the output.
CreateOpens(boot, kernel) ==
  /\ Command("create")
  /\ sources' = [boot |-> boot, kernel |-> kernel]
  /\ image' = NoDsf
  /\ diskPc' = "write" /\ status' = Running("create")
  /\ UNCHANGED <<accepted, writesCut, faults>>

\* Header, boot and kernel reach the disk at the latest by the fseek.  No
\* fwrite is checked: a full disk keeps a beginning of them.
WriteImage ==
  /\ diskPc = "write"
  /\ image' \in Begun
  /\ writesCut' = (writesCut \/ image'.body # Content(sources))
  /\ diskPc' = "checksum"
  /\ UNCHANGED <<sources, outputs, status, accepted, commands, faults>>

ChecksumNoMemory ==
  /\ diskPc = "checksum" /\ Returns("create", "noMemory")
  /\ UNCHANGED <<image, sources, outputs, accepted, writesCut, commands, faults>>

\* The stream was opened for writing only, so fread reads nothing and the sum
\* is that of uninitialized memory: any.  The header is written over the first.
UpdateChecksum ==
  /\ diskPc = "checksum"
  /\ \E sum \in Word :
       image' = IF IsDsf(image) THEN [image EXCEPT !.header.checksum = sum] ELSE image
  /\ Returns("create", "ok")
  /\ UNCHANGED <<sources, outputs, accepted, writesCut, commands, faults>>

-----------------------------------------------------------------------------
(* verify_dsf_image.                                                       *)

\* A mutant: only a file that is too long is refused.
AllowsShorter(file) == HeaderSize + Len(file.body) <= file.header.total_size

SizeMatches(file) == HeaderSize + Len(file.body) = file.header.total_size

HasChecksum(file) == calculate_checksum(file.body) = file.header.checksum

VerifyAccepts ==
  /\ Command("verify") /\ IsDsf(image) /\ SizeMatches(image) /\ HasChecksum(image)
  /\ accepted' = image
  /\ Returns("verify", "ok")
  /\ UNCHANGED <<image, sources, writesCut, faults>>

VerifyRejects ==
  /\ Command("verify")
  /\ \/ ~IsDsf(image)                         /\ Returns("verify", "noHeader")
     \/ IsDsf(image) /\ ~SizeMatches(image)    /\ Returns("verify", "size")
     \/ IsDsf(image) /\ SizeMatches(image)     /\ Returns("verify", "noMemory")
     \/ IsDsf(image) /\ SizeMatches(image) /\ ~HasChecksum(image)
                                              /\ Returns("verify", "checksum")
  /\ UNCHANGED <<image, sources, accepted, writesCut, faults>>

-----------------------------------------------------------------------------
(* extract_dsf_image: nothing of the header is checked.                    *)

\* The image cannot be opened or holds no header.
ExtractCannotOpen ==
  /\ Command("extract") /\ Returns("extract", "cannotOpen")
  /\ UNCHANGED <<image, sources, accepted, writesCut, faults>>

ExtractOpens ==
  /\ Command("extract") /\ IsDsf(image)
  /\ diskPc' = "boot" /\ status' = Running("extract")
  /\ UNCHANGED <<image, sources, accepted, writesCut, faults>>

\* One part is written to the output named for it; a full disk cuts it short.
Writes(part, bytes) ==
  \E cut \in Cuts(bytes) :
     /\ outputs' = [outputs EXCEPT ![part] = [written |-> TRUE, bytes |-> cut]]
     /\ writesCut' = (writesCut \/ cut # bytes)

ExtractBoot ==
  /\ diskPc = "boot"
  /\ Writes("boot", ReadAt(image.header.boot_offset, image.header.boot_size))
  /\ diskPc' = "kernel"
  /\ UNCHANGED <<image, sources, status, accepted, commands, faults>>

ExtractKernel ==
  /\ diskPc = "kernel"
  /\ Writes("kernel", ReadAt(image.header.kernel_offset, image.header.kernel_size))
  /\ Returns("extract", "ok")
  /\ UNCHANGED <<image, sources, accepted, commands, faults>>

\* No output was named for this part.
ExtractSkips ==
  /\ \/ diskPc = "boot" /\ diskPc' = "kernel" /\ UNCHANGED status
     \/ diskPc = "kernel" /\ Returns("extract", "ok")
  /\ UNCHANGED <<image, sources, outputs, accepted, writesCut, commands, faults>>

\* The output cannot be opened, or it has been, and there is no memory.
ExtractFails ==
  /\ diskPc \in {"boot", "kernel"}
  /\ outputs' \in {outputs, [outputs EXCEPT ![diskPc] = [written |-> TRUE, bytes |-> <<>>]]}
  /\ Returns("extract", "noOutput")
  /\ UNCHANGED <<image, sources, accepted, writesCut, commands, faults>>

-----------------------------------------------------------------------------
(* The user and the medium.                                                *)

\* The user interrupts the tool; what create had not yet flushed is lost.
Interrupt ==
  /\ diskPc # "shell" /\ Returns("interrupt", "killed")
  /\ image' \in IF diskPc = "write" THEN Begun ELSE {image}
  /\ UNCHANGED <<sources, outputs, accepted, writesCut, commands, faults>>

\* One byte behind the header changes.
ByteChanges ==
  /\ diskPc = "shell" /\ faults < MaxFaults
  /\ \E i \in DOMAIN image.body, byte \in Byte : image' = [image EXCEPT !.body[i] = byte]
  /\ faults' = faults + 1
  /\ UNCHANGED <<diskPc, sources, outputs, status, accepted, writesCut, commands>>

\* A copy of the file ends early.
TailIsLost ==
  /\ diskPc = "shell" /\ faults < MaxFaults /\ IsDsf(image)
  /\ \E bytes \in Cuts(image.body) : image' = [image EXCEPT !.body = bytes]
  /\ faults' = faults + 1
  /\ UNCHANGED <<diskPc, sources, outputs, status, accepted, writesCut, commands>>

DiskNext ==
  \/ CreateCannotOpen
  \/ \E boot \in BootFiles, kernel \in KernelFiles : CreateOpens(boot, kernel)
  \/ WriteImage \/ ChecksumNoMemory \/ UpdateChecksum
  \/ VerifyAccepts \/ VerifyRejects
  \/ ExtractCannotOpen \/ ExtractOpens \/ ExtractBoot \/ ExtractKernel
  \/ ExtractSkips \/ ExtractFails
  \/ Interrupt \/ ByteChanges \/ TailIsLost

-----------------------------------------------------------------------------
(***************************************************************************)
(* Properties.                                                             *)
(***************************************************************************)

Intact     == IsDsf(image) /\ image.body = Content(sources)
Ended(name) == diskPc = "shell" /\ status = [command |-> name, result |-> "ok"]

\* The types of all variables; what follows a header is never more than the
\* header says, whatever create has come to.
DiskTypeOK ==
  /\ diskPc \in {"shell", "write", "checksum", "boot", "kernel"}
  /\ \A file \in {image, accepted} :
        /\ file.body \in Seq(Byte)
        /\ IsDsf(file) => /\ file.header.checksum \in Word
                          /\ HeaderSize + Len(file.body) <= file.header.total_size
  /\ \A part \in {"boot", "kernel"} :
        /\ sources[part] \in Seq(Byte)
        /\ outputs[part].written \in BOOLEAN /\ outputs[part].bytes \in Seq(Byte \cup {Heap})
  /\ status.command \in {"none", "create", "verify", "extract", "interrupt"}
  /\ writesCut \in BOOLEAN
  /\ commands \in 0 .. MaxCommands /\ faults \in 0 .. MaxFaults

\* Verify never accepts an image that is not all there: one that a full disk, an
\* interrupted create or a bad copy has cut short, whatever its checksum says.
VerifiedIsComplete ==
  accepted # NoDsf =>
    Len(accepted.body) = accepted.header.boot_size + accepted.header.kernel_size

\* a and b differ in one byte, among the last whose bits all stay in the sum.
OneByteApart(a, b) ==
  LET n == Len(a.body)
  IN  /\ a.header = b.header /\ Len(b.body) = n
      /\ \E i \in 1 .. n :
            /\ Shift * (n - i) + ByteBits <= Width
            /\ a.body[i] # b.body[i]
            /\ \A j \in 1 .. n \ {i} : a.body[j] = b.body[j]

\* Verify notices when one of an accepted image's last bytes (nine in the code)
\* has changed: it never accepts the two images one after the other.
DamageIsDetected ==
  [][accepted' # accepted => ~OneByteApart(accepted, accepted')]_diskVars

\* Extract gives back the boot file create was given, and the kernel if that boot
\* file fills its sector: no byte that was not written, and none of the other part,
\* as long as the disk had room for every write and the medium has not failed.
ExtractGivesBack ==
  (Ended("extract") /\ Intact /\ ~writesCut /\ faults = 0) =>
    /\ outputs.boot.written => outputs.boot.bytes = sources.boot
    /\ (outputs.kernel.written /\ Len(sources.boot) = SectorSize) =>
          outputs.kernel.bytes = sources.kernel

\* dos25-disk.c:112 and dos25-disk.c:138: a create that reports success has put
\* the checksum of the image into it, the one verify compares.
CreatedImageVerifies ==
  (Ended("create") /\ Intact) => SizeMatches(image) /\ HasChecksum(image)

=============================================================================
