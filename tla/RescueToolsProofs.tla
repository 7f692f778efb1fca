--------------------------- MODULE RescueToolsProofs ---------------------------
(***************************************************************************)
(* What the two host tools guarantee for files, checksums, buffers and     *)
(* lines of any size, any number of commands, of changes of the medium and *)
(* of lines typed.                                                         *)
(*                                                                         *)
(* The disk image tool: a header always describes the files of the last    *)
(* create (ImageInv), whatever has become of the bytes after it; verify    *)
(* compares the length with it.  Two images that differ in one byte near   *)
(* the end have different sums: the difference is shifted from turn to     *)
(* turn, but never out of the word.                                        *)
(*                                                                         *)
(* The Help Me Screen: what is unread is the end of one line (LineEnd), so *)
(* a line that fits its prompt is read whole, and the next read gets       *)
(* nothing of it (ConfirmInv).                                             *)
(***************************************************************************)
EXTENDS RescueTools, SequenceTheorems, FiniteSetTheorems, TLAPS

USE SizeAssumption

Headers ==
  [total_size : Nat, boot_offset : Nat, boot_size : Nat,
   kernel_offset : Nat, kernel_size : Nat, checksum : Word]

\* The header is that of the files the last create was given.
Describes(header, from) ==
  /\ header \in Headers
  /\ header.total_size = HeaderSize + Len(from.boot) + Len(from.kernel)
  /\ header.boot_offset = HeaderSize /\ header.kernel_offset = HeaderSize + SectorSize
  /\ header.boot_size = Len(from.boot) /\ header.kernel_size = Len(from.kernel)

ImageInv ==
  /\ sources \in [boot : Seq(Byte), kernel : Seq(Byte)]
  /\ image \in [header : {<<>>} \cup Headers, body : Seq(Byte)]
  /\ IsDsf(image) => Describes(image.header, sources)

VerifyInv == ImageInv /\ VerifiedIsComplete

\* What extract has come to when the boot part is behind it, and the kernel part.
BootGivenBack ==
  (Intact /\ ~writesCut /\ faults = 0 /\ outputs.boot.written) =>
     outputs.boot.bytes = sources.boot

KernelGivenBack ==
  (Intact /\ ~writesCut /\ faults = 0 /\ outputs.kernel.written
     /\ Len(sources.boot) = SectorSize) =>
     outputs.kernel.bytes = sources.kernel

ExtractInv ==
  /\ ImageInv
  /\ faults \in Nat /\ writesCut \in BOOLEAN
  /\ DOMAIN outputs = {"boot", "kernel"}
  /\ outputs = [part \in {"boot", "kernel"} |-> outputs[part]]
  /\ diskPc = "boot" => ~outputs.boot.written
  /\ diskPc \in {"boot", "kernel"} => ~outputs.kernel.written
  /\ diskPc = "kernel" \/ Ended("extract") => BootGivenBack
  /\ Ended("extract") => KernelGivenBack

-----------------------------------------------------------------------------
\* The beginnings of a sequence are sequences.
LEMMA CutsAreSeqs ==
  ASSUME NEW S, NEW bytes \in Seq(S), NEW cut \in Cuts(bytes)
  PROVE  cut \in Seq(S)
<1>1. PICK n \in 0 .. Len(bytes) : cut = SubSeq(bytes, 1, n)
  BY DEF Cuts
<1>2. \A i \in 1 .. n : bytes[i] \in S
  BY <1>1
<1>3. QED  BY <1>1, <1>2

\* Every beginning of an image carries the header of its files.
LEMMA BegunIsDescribed ==
  ASSUME ImageInv, NEW file \in Begun
  PROVE  /\ file \in [header : {<<>>} \cup Headers, body : Seq(Byte)]
         /\ IsDsf(file) => Describes(file.header, sources)
<1>1. CASE file = NoDsf
  BY <1>1 DEF NoDsf, IsDsf
<1>2. CASE file # NoDsf
  <2>1. PICK bytes \in Cuts(Content(sources)) :
          file = [header |-> Header(sources.boot, sources.kernel), body |-> bytes]
    BY <1>2 DEF Begun
  <2>2. sources.boot \in Seq(Byte) /\ sources.kernel \in Seq(Byte)
    BY DEF ImageInv
  <2>3. Content(sources) \in Seq(Byte)
    BY <2>2 DEF Content
  <2>4. bytes \in Seq(Byte)
    BY <2>1, <2>3, CutsAreSeqs
  <2>5. Len(sources.boot) \in Nat /\ Len(sources.kernel) \in Nat
    BY <2>2
  <2>6. Describes(Header(sources.boot, sources.kernel), sources)
    <3>1. {} \in Word
      BY DEF Word
    <3> DEFINE b == Len(sources.boot)
               k == Len(sources.kernel)
               h == [ total_size |-> HeaderSize + b + k, boot_offset |-> HeaderSize,
                      boot_size |-> b, kernel_offset |-> HeaderSize + SectorSize,
                      kernel_size |-> k, checksum |-> {} ]
    <3>2. Header(sources.boot, sources.kernel) = h
      BY DEF Header, TotalSize, BootOffset
    <3>3. HeaderSize + b + k \in Nat /\ HeaderSize + SectorSize \in Nat
      <4>1. b \in Nat /\ k \in Nat
        BY <2>5
      <4> HIDE DEF b, k
      <4>2. QED  BY <4>1
    <3>4. h \in Headers
      BY <2>5, <3>1, <3>3 DEF Headers
    <3>5. QED  BY <3>2, <3>4 DEF Describes
  <2>7. QED  BY <2>1, <2>4, <2>6 DEF Describes
<1>3. QED  BY <1>1, <1>2

-----------------------------------------------------------------------------
\* There is no image at first.
LEMMA ImageInvInit == DiskInit => ImageInv
BY DEF DiskInit, ImageInv, NoDsf, IsDsf

\* Every step leaves a header that describes the files it was made of.
LEMMA ImageInvStep == ImageInv /\ [DiskNext]_diskVars => ImageInv'
<1> SUFFICES ASSUME ImageInv, [DiskNext]_diskVars PROVE ImageInv'
  OBVIOUS
<1>1. CASE UNCHANGED <<image, sources>>
  BY <1>1 DEF ImageInv, IsDsf, Describes
<1>2. ASSUME NEW boot \in BootFiles, NEW kernel \in KernelFiles, CreateOpens(boot, kernel)
      PROVE  ImageInv'
  BY <1>2, FilesAssumption DEF CreateOpens, ImageInv, NoDsf, IsDsf, Byte
<1>3. CASE image' \in Begun /\ UNCHANGED sources
  BY <1>3, BegunIsDescribed DEF ImageInv, IsDsf
<1>4. CASE UpdateChecksum
  <2>1. CASE IsDsf(image)
    <3>1. PICK sum \in Word : image' = [image EXCEPT !.header.checksum = sum]
      BY <1>4, <2>1 DEF UpdateChecksum
    <3>2. image.header \in Headers
      BY <2>1 DEF ImageInv, IsDsf
    <3>3. image'.header = [image.header EXCEPT !.checksum = sum] /\ image'.body = image.body
      BY <3>1 DEF ImageInv
    <3>4. image' \in [header : {<<>>} \cup Headers, body : Seq(Byte)]
      BY <3>1, <3>2 DEF ImageInv, Headers
    <3>5. Describes(image'.header, sources)
      BY <2>1, <3>2, <3>3 DEF ImageInv, Describes, Headers
    <3>6. QED  BY <1>4, <3>4, <3>5 DEF UpdateChecksum, ImageInv
  <2>2. CASE ~IsDsf(image)
    BY <1>1, <1>4, <2>2 DEF UpdateChecksum
  <2>3. QED  BY <2>1, <2>2
<1>5. CASE ByteChanges
  <2>1. PICK i \in DOMAIN image.body, byte \in Byte : image' = [image EXCEPT !.body[i] = byte]
    BY <1>5 DEF ByteChanges
  <2>2. image'.header = image.header /\ image'.body = [image.body EXCEPT ![i] = byte]
    BY <2>1 DEF ImageInv
  <2>3. image.body \in Seq(Byte)
    BY DEF ImageInv
  <2>4. [image.body EXCEPT ![i] = byte] \in Seq(Byte)
    BY <2>3, ExceptSeq
  <2>5. image' \in [header : {<<>>} \cup Headers, body : Seq(Byte)]
    BY <2>1, <2>4 DEF ImageInv
  <2>6. QED  BY <1>5, <2>2, <2>5 DEF ByteChanges, ImageInv, IsDsf, Describes
<1>6. CASE TailIsLost
  <2>1. PICK bytes \in Cuts(image.body) : image' = [image EXCEPT !.body = bytes]
    BY <1>6 DEF TailIsLost
  <2>2. bytes \in Seq(Byte)
    BY <2>1, CutsAreSeqs DEF ImageInv
  <2>3. QED  BY <1>6, <2>1, <2>2 DEF TailIsLost, ImageInv, IsDsf, Describes
<1>7. CASE Interrupt
  BY <1>1, <1>3, <1>7 DEF Interrupt
<1>8. QED
  BY <1>1, <1>2, <1>3, <1>4, <1>5, <1>6, <1>7
   DEF DiskNext, diskVars, CreateCannotOpen, WriteImage, ChecksumNoMemory, VerifyAccepts,
       VerifyRejects, ExtractCannotOpen, ExtractOpens, ExtractBoot, ExtractKernel,
       ExtractSkips, ExtractFails

-----------------------------------------------------------------------------
\* Verify never accepts an image that is not all there, whatever the sizes of the
\* files and the checksum, and however often create is cut short.
THEOREM VerifiedComplete == ToolSpec => []VerifiedIsComplete
<1>1. ToolInit => VerifyInv
  BY ImageInvInit DEF ToolInit, DiskInit, VerifyInv, VerifiedIsComplete
<1>2. VerifyInv /\ [ToolNext]_toolVars => VerifyInv'
  <2> SUFFICES ASSUME VerifyInv, [ToolNext]_toolVars PROVE VerifyInv'
    OBVIOUS
  <2>1. [DiskNext]_diskVars
    BY DEF ToolNext, DiskStep, HmsStep, toolVars
  <2>2. ImageInv'
    BY <2>1, ImageInvStep DEF VerifyInv
  <2>3. CASE UNCHANGED accepted
    BY <2>2, <2>3 DEF VerifyInv, VerifiedIsComplete
  <2>4. CASE VerifyAccepts
    <3>1. accepted' = image /\ IsDsf(image) /\ SizeMatches(image)
      BY <2>4 DEF VerifyAccepts
    <3>2. /\ Len(image.body) \in Nat /\ Len(sources.boot) \in Nat /\ Len(sources.kernel) \in Nat
          /\ image.header.boot_size = Len(sources.boot)
          /\ image.header.kernel_size = Len(sources.kernel)
          /\ HeaderSize + Len(image.body) = HeaderSize + Len(sources.boot) + Len(sources.kernel)
      BY <3>1 DEF VerifyInv, ImageInv, Describes, SizeMatches
    <3> DEFINE n == Len(image.body)
               b == Len(sources.boot)
               k == Len(sources.kernel)
    <3>3. n = b + k
      <4>1. n \in Nat /\ b \in Nat /\ k \in Nat /\ HeaderSize + n = HeaderSize + b + k
        BY <3>2
      <4> HIDE DEF n, b, k
      <4>2. QED  BY <4>1
    <3>4. QED  BY <2>2, <3>1, <3>2, <3>3 DEF VerifyInv, VerifiedIsComplete
  <2>5. QED
    BY <2>1, <2>3, <2>4
     DEF DiskNext, diskVars, CreateCannotOpen, CreateOpens, WriteImage, ChecksumNoMemory,
         UpdateChecksum, VerifyRejects, ExtractCannotOpen, ExtractOpens, ExtractBoot,
         ExtractKernel, ExtractSkips, ExtractFails, Interrupt, ByteChanges, TailIsLost
<1>3. VerifyInv => VerifiedIsComplete
  BY DEF VerifyInv
<1>4. QED  BY <1>1, <1>2, <1>3, PTL DEF ToolSpec

-----------------------------------------------------------------------------
\* Reading back a part that is there gives that part.
LEMMA BootIsRead ==
  ASSUME ImageInv, Intact
  PROVE  ReadAt(image.header.boot_offset, image.header.boot_size) = sources.boot
<1> DEFINE boot == sources.boot
           kernel == sources.kernel
<1>1. /\ boot \in Seq(Byte) /\ kernel \in Seq(Byte)
      /\ image.body = boot \o kernel
      /\ image.header.boot_offset = HeaderSize /\ image.header.boot_size = Len(boot)
  BY DEF ImageInv, Describes, Intact, Content
<1> HIDE DEF boot, kernel
<1>2. /\ Len(boot) \in Nat /\ Len(image.body) = Len(boot) + Len(kernel) /\ Len(kernel) \in Nat
      /\ \A i \in 1 .. Len(boot) : image.body[i] = boot[i]
  <2>1. Len(boot \o kernel) = Len(boot) + Len(kernel)
    BY ONLY <1>1, ConcatProperties
  <2>2. \A i \in 1 .. Len(boot) + Len(kernel) :
          (boot \o kernel)[i] = IF i <= Len(boot) THEN boot[i] ELSE kernel[i - Len(boot)]
    BY ONLY <1>1, ConcatProperties
  <2>3. Len(boot) \in Nat /\ Len(kernel) \in Nat
    BY ONLY <1>1, LenProperties
  <2>4. QED  BY ONLY <1>1, <2>1, <2>2, <2>3
<1>3. boot = [i \in 1 .. Len(boot) |-> boot[i]]
  BY <1>1
<1>4. \A i \in 1 .. Len(boot) : HeaderSize - HeaderSize + i = i /\ i <= Len(image.body)
  BY <1>2
<1>5. ReadAt(HeaderSize, Len(boot)) = [i \in 1 .. Len(boot) |-> boot[i]]
  BY <1>2, <1>4 DEF ReadAt
<1>6. QED  BY <1>1, <1>3, <1>5 DEF boot

\* The kernel is where the header says it is only behind a boot file of one sector.
LEMMA KernelIsRead ==
  ASSUME ImageInv, Intact, Len(sources.boot) = SectorSize
  PROVE  ReadAt(image.header.kernel_offset, image.header.kernel_size) = sources.kernel
<1> DEFINE boot == sources.boot
           kernel == sources.kernel
<1>1. /\ boot \in Seq(Byte) /\ kernel \in Seq(Byte)
      /\ image.body = boot \o kernel /\ Len(boot) = SectorSize
      /\ image.header.kernel_offset = HeaderSize + SectorSize
      /\ image.header.kernel_size = Len(kernel)
  BY DEF ImageInv, Describes, Intact, Content
<1> HIDE DEF boot, kernel
<1>2. /\ Len(image.body) = SectorSize + Len(kernel) /\ Len(kernel) \in Nat
      /\ \A i \in 1 .. Len(kernel) : image.body[SectorSize + i] = kernel[i]
  <2>1. Len(boot \o kernel) = SectorSize + Len(kernel)
    BY ONLY <1>1, ConcatProperties
  <2>2. \A i \in 1 .. SectorSize + Len(kernel) :
          (boot \o kernel)[i] = IF i <= SectorSize THEN boot[i] ELSE kernel[i - SectorSize]
    BY ONLY <1>1, ConcatProperties
  <2>3. SectorSize \in Nat /\ Len(kernel) \in Nat
    BY ONLY <1>1, LenProperties, SizeAssumption
  <2> DEFINE k == Len(kernel)
  <2>4. \A i \in 1 .. k : SectorSize + i \in 1 .. SectorSize + k
                         /\ ~(SectorSize + i <= SectorSize) /\ SectorSize + i - SectorSize = i
    <3> HIDE DEF k
    <3>1. QED  BY ONLY <2>3 DEF k
  <2>5. QED  BY ONLY <1>1, <2>1, <2>2, <2>3, <2>4 DEF k
<1>3. kernel = [i \in 1 .. Len(kernel) |-> kernel[i]]
  BY <1>1
<1>4. /\ HeaderSize + SectorSize - HeaderSize = SectorSize
      /\ \A i \in 1 .. Len(kernel) : SectorSize + i <= Len(image.body)
  BY <1>2
<1>5. ReadAt(HeaderSize + SectorSize, Len(kernel)) = [i \in 1 .. Len(kernel) |-> kernel[i]]
  BY <1>2, <1>4 DEF ReadAt
<1>6. QED  BY <1>1, <1>3, <1>5 DEF kernel

\* No step of the tool, the user or the medium spoils what extract has written.
LEMMA ExtractInvStep == ExtractInv /\ [DiskNext]_diskVars => ExtractInv'
<1> SUFFICES ASSUME ExtractInv, [DiskNext]_diskVars PROVE ExtractInv'
  OBVIOUS
<1>1. ImageInv /\ ImageInv'
  BY ImageInvStep DEF ExtractInv
<1> USE DEF ExtractInv, Ended, BootGivenBack, KernelGivenBack
<1>2. CASE UNCHANGED diskVars
  BY <1>1, <1>2 DEF diskVars, Intact, IsDsf, Content
<1>3. CASE CreateCannotOpen \/ VerifyAccepts \/ VerifyRejects \/ ExtractCannotOpen
  BY <1>1, <1>3
   DEF CreateCannotOpen, VerifyAccepts, VerifyRejects, ExtractCannotOpen, Command, Returns,
       NoFile
<1>4. ASSUME NEW boot \in BootFiles, NEW kernel \in KernelFiles, CreateOpens(boot, kernel)
      PROVE  ExtractInv'
  BY <1>1, <1>4 DEF CreateOpens, Command, Running, NoFile
<1>5. CASE WriteImage \/ ChecksumNoMemory \/ UpdateChecksum
  <2>1. /\ UNCHANGED <<outputs, faults>> /\ writesCut' \in BOOLEAN
        /\ \/ diskPc' = "checksum"
           \/ diskPc' = "shell" /\ status'.command = "create"
    <3>1. CASE WriteImage
      BY <3>1 DEF WriteImage
    <3>2. CASE ChecksumNoMemory
      BY <3>2 DEF ChecksumNoMemory, Returns
    <3>3. CASE UpdateChecksum
      <4>1. UNCHANGED <<outputs, faults, writesCut>> /\ Returns("create", "ok")
        BY <3>3 DEF UpdateChecksum
      <4>2. QED  BY <4>1 DEF Returns
    <3>4. QED  BY <1>5, <3>1, <3>2, <3>3
  <2>2. QED  BY <1>1, <2>1
<1>6. CASE ExtractOpens
  BY <1>1, <1>6 DEF ExtractOpens, Command, Running, NoFile
<1>7. CASE ExtractBoot
  <2> DEFINE bytes == ReadAt(image.header.boot_offset, image.header.boot_size)
  <2>1. PICK cut \in Cuts(bytes) :
          /\ outputs' = [outputs EXCEPT !["boot"] = [written |-> TRUE, bytes |-> cut]]
          /\ writesCut' = (writesCut \/ cut # bytes)
    BY <1>7 DEF ExtractBoot, Writes
  <2>2. Intact => bytes = sources.boot
    BY <1>1, BootIsRead
  <2> HIDE DEF bytes
  <2>3. /\ diskPc = "boot" /\ diskPc' = "kernel"
        /\ UNCHANGED <<image, sources, status, faults>>
    BY <1>7 DEF ExtractBoot
  <2>4. /\ outputs'["boot"] = [written |-> TRUE, bytes |-> cut]
        /\ outputs'["kernel"] = outputs["kernel"]
        /\ DOMAIN outputs' = {"boot", "kernel"}
        /\ outputs' = [part \in {"boot", "kernel"} |-> outputs'[part]]
    BY <2>1
  <2>5. BootGivenBack'
    BY <2>1, <2>2, <2>3, <2>4 DEF Intact, IsDsf, Content
  <2>6. QED  BY <1>1, <2>1, <2>3, <2>4, <2>5
<1>8. CASE ExtractKernel
  <2> DEFINE bytes == ReadAt(image.header.kernel_offset, image.header.kernel_size)
  <2>1. PICK cut \in Cuts(bytes) :
          /\ outputs' = [outputs EXCEPT !["kernel"] = [written |-> TRUE, bytes |-> cut]]
          /\ writesCut' = (writesCut \/ cut # bytes)
    BY <1>8 DEF ExtractKernel, Writes
  <2>2. (Intact /\ Len(sources.boot) = SectorSize) => bytes = sources.kernel
    BY <1>1, KernelIsRead
  <2> HIDE DEF bytes
  <2>3. /\ diskPc = "kernel" /\ diskPc' = "shell"
        /\ UNCHANGED <<image, sources, faults>>
    BY <1>8 DEF ExtractKernel, Returns
  <2>4. /\ outputs'["kernel"] = [written |-> TRUE, bytes |-> cut]
        /\ outputs'["boot"] = outputs["boot"]
        /\ DOMAIN outputs' = {"boot", "kernel"}
        /\ outputs' = [part \in {"boot", "kernel"} |-> outputs'[part]]
    BY <2>1
  <2>5. BootGivenBack'
    BY <2>1, <2>3, <2>4 DEF Intact, IsDsf, Content
  <2>6. KernelGivenBack'
    BY <2>1, <2>2, <2>3, <2>4 DEF Intact, IsDsf, Content
  <2>7. QED  BY <1>1, <2>1, <2>3, <2>4, <2>5, <2>6
<1>9. CASE ExtractSkips
  BY <1>1, <1>9 DEF ExtractSkips, Returns, Intact, IsDsf, Content
<1>10. CASE ExtractFails
  BY <1>1, <1>10 DEF ExtractFails, Returns
<1>11. CASE Interrupt
  BY <1>1, <1>11 DEF Interrupt, Returns
<1>12. CASE ByteChanges \/ TailIsLost
  BY <1>1, <1>12 DEF ByteChanges, TailIsLost
<1>13. QED
  BY <1>2, <1>3, <1>4, <1>5, <1>6, <1>7, <1>8, <1>9, <1>10, <1>11, <1>12 DEF DiskNext

\* Extract gives back the boot file create was given, and the kernel if that boot
\* file fills its sector, for files of any size, as long as nothing cut a write
\* short and the medium kept what it was given.
THEOREM ExtractedIsOriginal == ToolSpec => []ExtractGivesBack
<1>1. ToolInit => ExtractInv
  <2> SUFFICES ASSUME ToolInit PROVE ExtractInv
    OBVIOUS
  <2>1. /\ ImageInv /\ diskPc = "shell" /\ status.command = "none" /\ faults = 0
        /\ writesCut = FALSE /\ outputs = [boot |-> NoFile, kernel |-> NoFile]
    BY ImageInvInit DEF ToolInit, DiskInit
  <2>2. ~Ended("extract")
    BY <2>1 DEF Ended
  <2>3. /\ DOMAIN outputs = {"boot", "kernel"}
        /\ outputs = [part \in {"boot", "kernel"} |-> outputs[part]]
    BY <2>1
  <2>4. QED  BY <2>1, <2>2, <2>3 DEF ExtractInv
<1>2. ExtractInv /\ [ToolNext]_toolVars => ExtractInv'
  <2> SUFFICES ASSUME ExtractInv, [ToolNext]_toolVars PROVE ExtractInv'
    OBVIOUS
  <2>1. [DiskNext]_diskVars
    BY DEF ToolNext, DiskStep, HmsStep, toolVars
  <2>2. QED  BY <2>1, ExtractInvStep
<1>3. ExtractInv => ExtractGivesBack
  BY DEF ExtractInv, ExtractGivesBack, BootGivenBack, KernelGivenBack
<1>4. QED  BY <1>1, <1>2, <1>3, PTL DEF ToolSpec

-----------------------------------------------------------------------------
(* The Help Me Screen.                                                     *)

\* The end of a line: what is unread has its newline last and nowhere else.
LineEnd(s) ==
  /\ s \in Seq(Chars)
  /\ \A i \in 1 .. Len(s) : s[i] = "\n" <=> i = Len(s)

\* As long as every line has fitted its prompt, what is unread is the line typed
\* for the prompt that reads it, and nothing of an earlier one.
ConfirmInv ==
  \/ misfit
  \/ ended
  \/ /\ FALSE \notin restored
     /\ input # <<>> => input = asked /\ Fits(asked, prompt)

HmsInv == LineEnd(input) /\ ConfirmInv

\* A line the user types is the whole of one.
LEMMA TypedIsLineEnd ==
  ASSUME NEW line \in Lines
  PROVE  LineEnd(line)
<1>1. /\ line \in Seq(STRING)
      /\ \A i \in 1 .. Len(line) : line[i] = "\n" <=> i = Len(line)
  BY LinesAssumption
<1>2. DOMAIN line = 1 .. Len(line) /\ Len(line) \in Nat /\ line \in [1 .. Len(line) -> STRING]
  BY ONLY <1>1, LenProperties
<1>3. \A i \in 1 .. Len(line) : line[i] \in ToSet(line)
  BY <1>2 DEF ToSet
<1>4. ToSet(line) \subseteq Chars
  BY DEF Chars
<1>5. line \in [1 .. Len(line) -> Chars]
  BY ONLY <1>2, <1>3, <1>4
<1>6. line \in Seq(Chars)
  BY ONLY <1>2, <1>5, SeqDef
<1>7. QED  BY <1>1, <1>6 DEF LineEnd

\* The room of a read is that of the buffer its prompt has.
LEMMA RoomIsNat == \A p : Room(p) \in Nat \ {0}
BY RoomAssumption DEF Room

\* A read takes the whole of what is unread, or as much as its buffer holds.
LEMMA WhatIsTaken ==
  ASSUME LineEnd(input), input # <<>>, NEW p
  PROVE  /\ Len(input) \in Nat \ {0}
         /\ input[Len(input)] = "\n"
         /\ Taken(p) = SubSeq(input, 1, IF Len(input) > Room(p) THEN Room(p) ELSE Len(input))
<1> DEFINE n == Len(input)
           I == {i \in 1 .. n : input[i] = "\n"}
<1>1. n \in Nat \ {0}
  BY EmptySeq DEF LineEnd
<1>2. \A i \in 1 .. n : input[i] = "\n" <=> i = n
  BY DEF LineEnd
<1> HIDE DEF n
<1>3. I = {n}
  BY <1>1, <1>2
<1>4. Min(I) = n
  BY <1>1, <1>3 DEF Min
<1>5. SelectInSeq(input, LAMBDA c : c = "\n") = n
  BY <1>3, <1>4 DEF SelectInSeq, n
<1>6. Taken(p) = SubSeq(input, 1, IF n > Room(p) THEN Room(p) ELSE n)
  BY <1>1, <1>5 DEF Taken
<1>7. QED  BY <1>1, <1>2, <1>6 DEF n

\* What a read leaves is again the end of a line.
LEMMA RestIsLineEnd ==
  ASSUME LineEnd(input), input # <<>>, NEW p
  PROVE  LineEnd(Rest(p))
<1> DEFINE n == Len(input)
           m == IF n > Room(p) THEN Room(p) ELSE n
<1>1. /\ n \in Nat \ {0} /\ input[n] = "\n" /\ Taken(p) = SubSeq(input, 1, m)
  BY WhatIsTaken
<1>2. /\ input \in Seq(Chars)
      /\ \A i \in 1 .. n : input[i] = "\n" <=> i = n
      /\ \A i \in 1 .. n : input[i] \in Chars
  BY DEF LineEnd
<1>3. m \in 1 .. n
  BY <1>1, RoomIsNat
<1>4. CASE p \in Getchars /\ Head(input) = "yes"
  <2> DEFINE t == Tail(input)
             r == <<"x">> \o t
  <2>1. /\ t \in Seq(Chars) /\ Len(t) = n - 1
        /\ \A i \in 1 .. Len(t) : t[i] = input[i + 1]
    BY ONLY <1>2, HeadTailProperties, input # <<>> DEF n
  <2>2. input[1] = "yes"
    BY <1>2, <1>4
  <2>3. n > 1
    BY <1>1, <2>2
  <2>4. <<"x">> \in Seq(Chars) /\ Len(<<"x">>) = 1 /\ <<"x">>[1] = "x"
    <3>1. "x" \in Chars
      BY DEF Chars
    <3>2. QED  BY <3>1
  <2>5. /\ r \in Seq(Chars) /\ Len(r) = 1 + Len(t)
        /\ \A i \in 1 .. 1 + Len(t) : r[i] = IF i <= 1 THEN <<"x">>[i] ELSE t[i - 1]
    BY ONLY <2>1, <2>4, ConcatProperties
  <2>6. Len(r) = n /\ r[1] = "x" /\ \A i \in 2 .. n : r[i] = input[i]
    <3> HIDE DEF n, r, t
    <3>1. Len(r) = n
      BY <1>1, <2>1, <2>5
    <3>2. r[1] = "x"
      BY <1>1, <2>1, <2>4, <2>5
    <3>3. ASSUME NEW i \in 2 .. n PROVE r[i] = input[i]
      <4>1. i \in 1 .. 1 + Len(t) /\ ~(i <= 1) /\ i - 1 \in 1 .. Len(t) /\ (i - 1) + 1 = i
        BY <1>1, <2>1
      <4>2. r[i] = t[i - 1] /\ t[i - 1] = input[(i - 1) + 1]
        BY <2>1, <2>5, <4>1
      <4>3. QED  BY <4>1, <4>2
    <3>4. QED  BY <3>1, <3>2, <3>3
  <2>7. \A i \in 1 .. n : r[i] = "\n" <=> i = n
    <3> HIDE DEF n, r
    <3>1. QED  BY <1>1, <1>2, <2>3, <2>6
  <2>8. QED  BY <1>4, <2>5, <2>6, <2>7 DEF Rest, LineEnd
<1>5. CASE ~(p \in Getchars /\ Head(input) = "yes")
  <2> DEFINE r == SubSeq(input, m + 1, n)
  <2>1. Len(Taken(p)) = m
    <3> HIDE DEF m, n
    <3>1. \A i \in 1 .. m : input[i] \in Chars
      BY <1>1, <1>2, <1>3
    <3>2. 1 \in Int /\ m \in Int /\ 1 <= m /\ m - 1 + 1 = m
      BY <1>1, <1>3
    <3>3. Len(SubSeq(input, 1, m)) = IF 1 <= m THEN m - 1 + 1 ELSE 0
      BY ONLY <3>1, <3>2, SubSeqProperties
    <3>4. QED  BY <1>1, <3>2, <3>3
  <2>2. Rest(p) = r
    BY <1>5, <2>1 DEF Rest
  <2>3. /\ r \in Seq(Chars)
        /\ Len(r) = IF m + 1 <= n THEN n - (m + 1) + 1 ELSE 0
        /\ \A i \in 1 .. n - (m + 1) + 1 : r[i] = input[(m + 1) + i - 1]
    <3> HIDE DEF m, n
    <3>1. \A i \in m + 1 .. n : input[i] \in Chars
      BY <1>1, <1>2, <1>3
    <3>2. m + 1 \in Int /\ n \in Int
      BY <1>1, <1>3
    <3>3. QED  BY ONLY <3>1, <3>2, SubSeqProperties DEF r
  <2> HIDE DEF m, n, r
  <2>4. Len(r) = n - m
    BY <1>1, <1>3, <2>3
  <2>5. \A i \in 1 .. n - m : r[i] = input[m + i] /\ m + i \in 1 .. n
    <3>1. \A i \in 1 .. n - m : (m + 1) + i - 1 = m + i /\ m + i \in 1 .. n
                               /\ i \in 1 .. n - (m + 1) + 1
      BY <1>1, <1>3
    <3>2. QED  BY <2>3, <3>1
  <2>6. \A i \in 1 .. n - m : r[i] = "\n" <=> i = n - m
    <3>1. \A i \in 1 .. n - m : m + i = n <=> i = n - m
      BY <1>1, <1>3
    <3>2. QED  BY <1>2, <2>5, <3>1
  <2>7. QED  BY <2>2, <2>3, <2>4, <2>6 DEF LineEnd
<1>6. QED  BY <1>4, <1>5

\* A line that fits its prompt is read whole, and nothing of it is left.
LEMMA FittingLineIsRead ==
  ASSUME LineEnd(input), input # <<>>, NEW p, Fits(input, p)
  PROVE  Taken(p) = input /\ Rest(p) = <<>>
<1> DEFINE n == Len(input)
<1>1. n \in Nat \ {0} /\ input[n] = "\n" /\ n <= Room(p) /\ input \in Seq(Chars)
  BY WhatIsTaken DEF Fits, LineEnd
<1>2. Taken(p) = SubSeq(input, 1, n)
  <2>1. ~(n > Room(p))
    <3> HIDE DEF n
    <3>1. QED  BY <1>1, RoomIsNat
  <2>2. QED  BY <2>1, WhatIsTaken
<1>3. Taken(p) = input
  BY ONLY <1>1, <1>2, SubSeqFull
<1>4. ~(p \in Getchars /\ Head(input) = "yes")
  <2>1. CASE p \in Getchars
    <3>1. n = 1
      <4>1. Room(p) = 1
        BY <2>1 DEF Room, Getchars, Paths
      <4> HIDE DEF n
      <4>2. QED  BY <1>1, <4>1
    <3>2. Head(input) = "\n"
      BY <1>1, <3>1
    <3>3. QED  BY <3>2
  <2>2. QED  BY <2>1
<1>5. SubSeq(input, n + 1, n) = <<>>
  <2> HIDE DEF n
  <2>1. n + 1 \in Int /\ n \in Int /\ n < n + 1
    BY <1>1
  <2>2. QED  BY ONLY <2>1, SubSeqEmpty
<1>6. QED  BY <1>3, <1>4, <1>5 DEF Rest

\* No step of the program or of the user mixes the lines of two prompts.
LEMMA HmsInvStep == HmsInv /\ [HmsNext]_hmsVars => HmsInv'
<1> SUFFICES ASSUME HmsInv, [HmsNext]_hmsVars PROVE HmsInv'
  OBVIOUS
<1>1. CASE UNCHANGED hmsVars
  BY <1>1 DEF hmsVars, HmsInv, ConfirmInv, LineEnd, Fits
<1>2. CASE Read
  <2>1. LineEnd(input') /\ UNCHANGED <<ended, misfit>>
    BY <1>2, RestIsLineEnd DEF Read, HmsInv
  <2>2. ASSUME ~misfit, ~ended PROVE input' = <<>> /\ FALSE \notin restored'
    <3>1. input # <<>> /\ LineEnd(input) /\ input = asked /\ Fits(input, prompt)
          /\ FALSE \notin restored
      BY <1>2, <2>2 DEF Read, HmsInv, ConfirmInv
    <3>2. Taken(prompt) = input /\ Rest(prompt) = <<>>
      BY <3>1, FittingLineIsRead
    <3>3. input # <<"yes">>
      <4>1. input[Len(input)] = "\n"
        BY <3>1, WhatIsTaken
      <4>2. QED  BY <4>1
    <3>4. Confirmed(input) => asked = <<"yes", "\n">>
      BY <3>1, <3>3 DEF Confirmed
    <3>5. QED  BY <1>2, <3>1, <3>2, <3>4 DEF Read, Goes
  <2>3. QED  BY <2>1, <2>2 DEF HmsInv, ConfirmInv, LineEnd
<1>3. CASE ReadPastEnd
  BY <1>3 DEF ReadPastEnd, HmsInv, ConfirmInv, LineEnd
<1>4. CASE CloseTerminal
  BY <1>4 DEF CloseTerminal, HmsInv, ConfirmInv, LineEnd
<1>5. ASSUME NEW line \in Lines, TypeLine(line) PROVE HmsInv'
  <2>1. LineEnd(input')
    BY <1>5, TypedIsLineEnd DEF TypeLine
  <2>2. ConfirmInv'
    BY <1>5 DEF TypeLine, Waiting, HmsInv, ConfirmInv, Fits
  <2>3. QED  BY <2>1, <2>2 DEF HmsInv, LineEnd
<1>6. QED  BY <1>1, <1>2, <1>3, <1>4, <1>5 DEF HmsNext, HmsProgram

\* A restore goes ahead on a "yes" typed for it, whatever the rooms of the buffers,
\* the lines and their number, as long as every line fitted its prompt and the
\* input has not ended.
THEOREM RestoreConfirmed == ToolSpec => []RestoreIsConfirmed
<1>1. ToolInit => HmsInv
  BY EmptySeq DEF ToolInit, HmsInit, HmsInv, ConfirmInv, LineEnd
<1>2. HmsInv /\ [ToolNext]_toolVars => HmsInv'
  <2> SUFFICES ASSUME HmsInv, [ToolNext]_toolVars PROVE HmsInv'
    OBVIOUS
  <2>1. [HmsNext]_hmsVars
    BY DEF ToolNext, DiskStep, HmsStep, toolVars
  <2>2. QED  BY <2>1, HmsInvStep
<1>3. HmsInv => RestoreIsConfirmed
  BY DEF HmsInv, ConfirmInv, RestoreIsConfirmed
<1>4. QED  BY <1>1, <1>2, <1>3, PTL DEF ToolSpec

-----------------------------------------------------------------------------
(* The types.                                                              *)

\* What follows a header is never more than the header says.
Holds(file) ==
  IsDsf(file) => /\ file.header.checksum \in Word
                 /\ HeaderSize + Len(file.body) <= file.header.total_size

Parts == {"boot", "kernel"}

OutputFiles == [written : BOOLEAN, bytes : Seq(Byte \cup {Heap})]

\* The image is what create made of its sources, or less, and verify has accepted one.
FilesInv ==
  /\ ImageInv /\ Holds(image)
  /\ accepted.body \in Seq(Byte) /\ Holds(accepted)

\* Extract reads only from a file that has a header.
OutputsInv ==
  /\ outputs = [part \in Parts |-> outputs[part]]
  /\ \A part \in Parts : outputs[part] \in OutputFiles
  /\ writesCut \in BOOLEAN
  /\ diskPc \in Parts => IsDsf(image)

ShellInv ==
  /\ diskPc \in {"shell", "write", "checksum", "boot", "kernel"}
  /\ status.command \in {"none", "create", "verify", "extract", "interrupt"}
  /\ commands \in 0 .. MaxCommands /\ faults \in 0 .. MaxFaults

DiskInv == FilesInv /\ OutputsInv /\ ShellInv

\* Of the bytes to be written no more than all of them are.
LEMMA CutIsNoLonger ==
  ASSUME NEW S, NEW bytes \in Seq(S), NEW cut \in Cuts(bytes)
  PROVE  cut \in Seq(S) /\ Len(cut) \in Nat /\ Len(cut) <= Len(bytes)
<1>1. PICK n \in 0 .. Len(bytes) : cut = SubSeq(bytes, 1, n)
  BY DEF Cuts
<1>2. Len(bytes) \in Nat /\ n \in Nat /\ 1 \in Int /\ n \in Int
  BY <1>1
<1>3. \A i \in 1 .. n : bytes[i] \in S
  BY <1>1
<1>4. /\ SubSeq(bytes, 1, n) \in Seq(S)
      /\ Len(SubSeq(bytes, 1, n)) = IF 1 <= n THEN n - 1 + 1 ELSE 0
  BY ONLY <1>2, <1>3, SubSeqProperties
<1>5. Len(cut) = n
  BY <1>1, <1>2, <1>4
<1>6. QED  BY <1>1, <1>2, <1>4, <1>5

\* Every beginning of an image holds no more than its header says.
LEMMA BegunHolds ==
  ASSUME ImageInv, NEW file \in Begun
  PROVE  Holds(file)
<1>1. CASE file = NoDsf
  BY <1>1 DEF NoDsf, IsDsf, Holds
<1>2. CASE file # NoDsf
  <2> DEFINE boot == sources.boot
             kernel == sources.kernel
             header == Header(boot, kernel)
  <2>1. PICK bytes \in Cuts(boot \o kernel) : file = [header |-> header, body |-> bytes]
    BY <1>2 DEF Begun, Content
  <2>2. boot \in Seq(Byte) /\ kernel \in Seq(Byte)
    BY DEF ImageInv
  <2>3. header.checksum = {} /\ header.total_size = HeaderSize + Len(boot) + Len(kernel)
    BY DEF Header, TotalSize
  <2>4. file.body = bytes /\ file.header = header
    BY <2>1
  <2> HIDE DEF boot, kernel, header
  <2>5. boot \o kernel \in Seq(Byte) /\ Len(boot \o kernel) = Len(boot) + Len(kernel)
    BY ONLY <2>2, ConcatProperties
  <2>6. Len(bytes) \in Nat /\ Len(bytes) <= Len(boot \o kernel)
    BY ONLY <2>5, bytes \in Cuts(boot \o kernel), CutIsNoLonger
  <2>7. HeaderSize + Len(bytes) <= HeaderSize + Len(boot) + Len(kernel)
    <3> DEFINE l == Len(bytes)
               b == Len(boot)
               k == Len(kernel)
    <3>1. l \in Nat /\ b \in Nat /\ k \in Nat /\ l <= b + k
      BY <2>2, <2>5, <2>6
    <3> HIDE DEF l, b, k
    <3>2. HeaderSize + l <= HeaderSize + b + k
      BY <3>1
    <3>3. QED  BY <3>2 DEF l, b, k
  <2>8. {} \in Word
    BY DEF Word
  <2>9. QED  BY <2>3, <2>4, <2>7, <2>8 DEF Holds
<1>3. QED  BY <1>1, <1>2

\* What is read of an image are its bytes, and bytes of memory behind its end.
LEMMA WhatIsRead ==
  ASSUME ImageInv, NEW offset \in Nat, offset >= HeaderSize, NEW size \in Nat
  PROVE  ReadAt(offset, size) \in Seq(Byte \cup {Heap})
<1> DEFINE at == offset - HeaderSize
           b == Len(image.body)
           S == Byte \cup {Heap}
           e(i) == IF at + i <= b THEN image.body[at + i] ELSE Heap
<1>1. b \in Nat /\ \A i \in 1 .. b : image.body[i] \in Byte
  BY DEF ImageInv
<1>2. ReadAt(offset, size) = [i \in 1 .. size |-> e(i)]
  BY DEF ReadAt
<1>3. at \in Nat
  OBVIOUS
<1>4. \A i \in 1 .. size : e(i) \in S
  <2> HIDE DEF at, b
  <2>1. \A i \in 1 .. size : at + i <= b => at + i \in 1 .. b
    BY <1>1, <1>3
  <2>2. QED  BY <1>1, <2>1
<1>5. [i \in 1 .. size |-> e(i)] \in Seq(S)
  <2> HIDE DEF at, b, e, S
  <2>1. QED  BY ONLY <1>4, size \in Nat, IsASeq
<1>6. QED  BY <1>2, <1>5

\* An output that has not been written is a file that holds nothing.
LEMMA NothingWritten == NoFile \in OutputFiles
<1>1. <<>> \in Seq(Byte \cup {Heap})
  BY EmptySeq
<1>2. QED  BY <1>1 DEF NoFile, OutputFiles

\* What the outputs hold is typed when a part of them is written.
LEMMA WritesOutputs ==
  ASSUME outputs = [part \in Parts |-> outputs[part]],
         \A part \in Parts : outputs[part] \in OutputFiles, writesCut \in BOOLEAN,
         NEW part \in Parts, NEW bytes \in Seq(Byte \cup {Heap}), Writes(part, bytes)
  PROVE  /\ outputs' = [p \in Parts |-> outputs'[p]]
         /\ \A p \in Parts : outputs'[p] \in OutputFiles
         /\ writesCut' \in BOOLEAN
<1>1. PICK cut \in Cuts(bytes) :
        /\ outputs' = [outputs EXCEPT ![part] = [written |-> TRUE, bytes |-> cut]]
        /\ writesCut' = (writesCut \/ cut # bytes)
  BY DEF Writes
<1>2. cut \in Seq(Byte \cup {Heap})
  BY CutsAreSeqs
<1>3. [written |-> TRUE, bytes |-> cut] \in OutputFiles
  BY <1>2 DEF OutputFiles
<1>4. \A p \in Parts :
        outputs'[p] = IF p = part THEN [written |-> TRUE, bytes |-> cut] ELSE outputs[p]
  BY <1>1
<1>5. outputs' = [p \in Parts |-> outputs'[p]]
  BY <1>1
<1>6. QED  BY <1>1, <1>3, <1>4, <1>5

\* Every step leaves an image that holds no more than its header says.
LEMMA HoldsStep ==
  ASSUME ImageInv, ImageInv', Holds(image), DiskNext
  PROVE  Holds(image')
<1>1. CASE UNCHANGED image
  BY <1>1
<1>2. CASE image' = NoDsf
  BY <1>2 DEF Holds, NoDsf, IsDsf
<1>3. CASE image' \in Begun
  BY <1>3, BegunHolds
<1>4. CASE UpdateChecksum
  <2>1. CASE IsDsf(image)
    <3>1. PICK sum \in Word : image' = [image EXCEPT !.header.checksum = sum]
      BY <1>4, <2>1 DEF UpdateChecksum
    <3>2. image.header \in Headers
      BY <2>1 DEF ImageInv, IsDsf
    <3>3. image'.header = [image.header EXCEPT !.checksum = sum] /\ image'.body = image.body
      BY <3>1 DEF ImageInv
    <3>4. image'.header.checksum = sum /\ image'.header.total_size = image.header.total_size
      BY <3>2, <3>3 DEF Headers
    <3>5. QED  BY <2>1, <3>3, <3>4 DEF Holds
  <2>2. QED  BY <1>1, <1>4, <2>1 DEF UpdateChecksum
<1>5. CASE ByteChanges
  <2>1. PICK i \in DOMAIN image.body, byte \in Byte : image' = [image EXCEPT !.body[i] = byte]
    BY <1>5 DEF ByteChanges
  <2>2. image'.header = image.header /\ image'.body = [image.body EXCEPT ![i] = byte]
    BY <2>1 DEF ImageInv
  <2>3. image.body \in Seq(Byte) /\ i \in 1 .. Len(image.body)
    BY <2>1 DEF ImageInv
  <2>4. Len([image.body EXCEPT ![i] = byte]) = Len(image.body)
    BY <2>3, ExceptSeq
  <2>5. QED  BY <2>2, <2>4 DEF Holds, IsDsf
<1>6. CASE TailIsLost
  <2>1. PICK bytes \in Cuts(image.body) : image' = [image EXCEPT !.body = bytes]
    BY <1>6 DEF TailIsLost
  <2>2. image'.header = image.header /\ image'.body = bytes /\ image.body \in Seq(Byte)
        /\ IsDsf(image)
    BY <1>6, <2>1 DEF ImageInv, TailIsLost
  <2>3. Len(bytes) \in Nat /\ Len(bytes) <= Len(image.body)
    BY <2>2, CutIsNoLonger
  <2>4. image.header.total_size \in Nat
    BY <2>2 DEF ImageInv, IsDsf, Headers
  <2>5. HeaderSize + Len(bytes) <= image.header.total_size
    <3> DEFINE l == Len(bytes)
               b == Len(image.body)
               total == image.header.total_size
    <3>1. l \in Nat /\ b \in Nat /\ total \in Nat /\ l <= b /\ HeaderSize + b <= total
      BY <2>2, <2>3, <2>4 DEF Holds
    <3> HIDE DEF l, b, total
    <3>2. HeaderSize + l <= total
      BY <3>1
    <3>3. QED  BY <3>2 DEF l, total
  <2>6. QED  BY <2>2, <2>5 DEF Holds
<1>7. CASE Interrupt
  BY <1>1, <1>3, <1>7 DEF Interrupt
<1>8. QED
  BY <1>1, <1>2, <1>3, <1>4, <1>5, <1>6, <1>7
   DEF DiskNext, CreateCannotOpen, CreateOpens, WriteImage, ChecksumNoMemory, VerifyAccepts,
       VerifyRejects, ExtractCannotOpen, ExtractOpens, ExtractBoot, ExtractKernel,
       ExtractSkips, ExtractFails

\* Every command leaves the files as they are typed.
LEMMA FilesInvStep ==
  ASSUME FilesInv, DiskNext
  PROVE  FilesInv'
<1>1. ImageInv /\ ImageInv' /\ Holds(image')
  BY ImageInvStep, HoldsStep DEF FilesInv
<1>2. CASE UNCHANGED accepted
  BY <1>1, <1>2 DEF FilesInv, Holds, IsDsf
<1>3. CASE accepted' = image
  BY <1>1, <1>3 DEF FilesInv, Holds, IsDsf, ImageInv
<1>4. QED
  BY <1>2, <1>3
   DEF DiskNext, CreateCannotOpen, CreateOpens, WriteImage, ChecksumNoMemory, UpdateChecksum,
       VerifyAccepts, VerifyRejects, ExtractCannotOpen, ExtractOpens, ExtractBoot,
       ExtractKernel, ExtractSkips, ExtractFails, Interrupt, ByteChanges, TailIsLost

\* No command is under way without the files it needs, and outputs are typed.
LEMMA OutputsInvStep ==
  ASSUME FilesInv, OutputsInv, ShellInv, DiskNext
  PROVE  OutputsInv'
<1> USE DEF Parts
<1>0. \A part \in Parts : [boot |-> NoFile, kernel |-> NoFile][part] \in OutputFiles
  BY NothingWritten
<1>1. CASE outputs' = [boot |-> NoFile, kernel |-> NoFile] /\ UNCHANGED writesCut
           /\ (diskPc' \in Parts => IsDsf(image'))
  <2>1. outputs' = [part \in Parts |-> outputs'[part]]
    BY <1>1
  <2>2. QED  BY <1>0, <1>1, <2>1 DEF OutputsInv
<1>2. CASE UNCHANGED outputs /\ writesCut' \in BOOLEAN /\ diskPc' \notin Parts
  BY <1>2 DEF OutputsInv
<1>3. CASE CreateCannotOpen \/ VerifyAccepts \/ VerifyRejects \/ ExtractCannotOpen
  BY <1>1, <1>3
   DEF CreateCannotOpen, VerifyAccepts, VerifyRejects, ExtractCannotOpen, Command, Returns
<1>4. ASSUME NEW boot \in BootFiles, NEW kernel \in KernelFiles, CreateOpens(boot, kernel)
      PROVE  OutputsInv'
  BY <1>1, <1>4 DEF CreateOpens, Command
<1>5. CASE WriteImage
  BY <1>2, <1>5 DEF WriteImage
<1>6. CASE ChecksumNoMemory \/ UpdateChecksum \/ Interrupt
  <2>1. UNCHANGED <<outputs, writesCut>> /\ diskPc' = "shell"
    BY <1>6 DEF ChecksumNoMemory, UpdateChecksum, Interrupt, Returns
  <2>2. QED  BY <1>2, <2>1 DEF OutputsInv
<1>7. CASE ExtractOpens
  BY <1>1, <1>7 DEF ExtractOpens, Command, IsDsf
<1>8. ASSUME NEW part \in Parts, NEW offset \in Nat, offset >= HeaderSize, NEW size \in Nat,
             Writes(part, ReadAt(offset, size)), UNCHANGED image, diskPc \in Parts
      PROVE  OutputsInv'
  <2>1. ReadAt(offset, size) \in Seq(Byte \cup {Heap})
    BY <1>8, WhatIsRead DEF FilesInv
  <2>2. /\ outputs' = [p \in Parts |-> outputs'[p]]
        /\ \A p \in Parts : outputs'[p] \in OutputFiles
        /\ writesCut' \in BOOLEAN
    BY <1>8, <2>1, WritesOutputs DEF OutputsInv
  <2>3. QED  BY <1>8, <2>2 DEF OutputsInv, IsDsf
<1>9. ASSUME diskPc \in Parts
      PROVE  /\ image.header.boot_offset \in Nat /\ image.header.boot_offset >= HeaderSize
             /\ image.header.kernel_offset \in Nat /\ image.header.kernel_offset >= HeaderSize
             /\ image.header.boot_size \in Nat /\ image.header.kernel_size \in Nat
  <2>1. Describes(image.header, sources)
    BY <1>9 DEF OutputsInv, FilesInv, ImageInv
  <2>2. QED  BY <2>1 DEF Describes, Headers
<1>10. CASE ExtractBoot
  BY <1>8, <1>9, <1>10 DEF ExtractBoot
<1>11. CASE ExtractKernel
  BY <1>8, <1>9, <1>11 DEF ExtractKernel
<1>12. CASE ExtractSkips
  BY <1>12 DEF ExtractSkips, OutputsInv, Returns, IsDsf
<1>13. CASE ExtractFails
  <2>1. CASE UNCHANGED outputs
    BY <1>2, <1>13, <2>1 DEF ExtractFails, Returns, OutputsInv
  <2>2. CASE outputs' = [outputs EXCEPT ![diskPc] = [written |-> TRUE, bytes |-> <<>>]]
    <3>1. [written |-> TRUE, bytes |-> <<>>] \in OutputFiles
      BY EmptySeq DEF OutputFiles
    <3>2. diskPc \in Parts /\ diskPc' = "shell" /\ UNCHANGED writesCut
      BY <1>13 DEF ExtractFails, Returns
    <3>3. \A part \in Parts :
            outputs'[part] = IF part = diskPc THEN [written |-> TRUE, bytes |-> <<>>]
                             ELSE outputs[part]
      BY <2>2 DEF OutputsInv
    <3>4. outputs' = [part \in Parts |-> outputs'[part]]
      BY <2>2 DEF OutputsInv
    <3>5. QED  BY <3>1, <3>2, <3>3, <3>4 DEF OutputsInv
  <2>3. QED  BY <1>13, <2>1, <2>2 DEF ExtractFails
<1>14. CASE ByteChanges \/ TailIsLost
  BY <1>2, <1>14 DEF ByteChanges, TailIsLost, OutputsInv
<1>15. QED
  BY <1>3, <1>4, <1>5, <1>6, <1>7, <1>10, <1>11, <1>12, <1>13, <1>14 DEF DiskNext

\* The shell starts one of three commands, and the bounds bound.
LEMMA ShellInvStep ==
  ASSUME ShellInv, DiskNext
  PROVE  ShellInv'
<1>1. commands \in Nat /\ faults \in Nat
  BY DEF ShellInv
<1>2. CASE CreateCannotOpen \/ VerifyAccepts \/ VerifyRejects \/ ExtractCannotOpen
  BY <1>1, <1>2, BoundAssumption
   DEF CreateCannotOpen, VerifyAccepts, VerifyRejects, ExtractCannotOpen, Command, Returns,
       ShellInv
<1>3. ASSUME NEW boot \in BootFiles, NEW kernel \in KernelFiles, CreateOpens(boot, kernel)
      PROVE  ShellInv'
  BY <1>1, <1>3, BoundAssumption DEF CreateOpens, Command, Running, ShellInv
<1>4. CASE WriteImage
  BY <1>4 DEF WriteImage, ShellInv
<1>5. CASE ChecksumNoMemory
  BY <1>5 DEF ChecksumNoMemory, Returns, ShellInv
<1>6. CASE UpdateChecksum
  <2>1. Returns("create", "ok") /\ UNCHANGED <<commands, faults>>
    BY <1>6 DEF UpdateChecksum
  <2>2. QED  BY <2>1 DEF Returns, ShellInv
<1>7. CASE ExtractOpens
  BY <1>1, <1>7, BoundAssumption DEF ExtractOpens, Command, Running, ShellInv
<1>8. CASE ExtractBoot
  BY <1>8 DEF ExtractBoot, ShellInv
<1>9. CASE ExtractKernel
  BY <1>9 DEF ExtractKernel, Returns, ShellInv
<1>10. CASE ExtractSkips
  BY <1>10 DEF ExtractSkips, Returns, ShellInv
<1>11. CASE ExtractFails
  BY <1>11 DEF ExtractFails, Returns, ShellInv
<1>12. CASE Interrupt
  BY <1>12 DEF Interrupt, Returns, ShellInv
<1>13. CASE ByteChanges \/ TailIsLost
  BY <1>1, <1>13, BoundAssumption DEF ByteChanges, TailIsLost, ShellInv
<1>14. QED
  BY <1>2, <1>3, <1>4, <1>5, <1>6, <1>7, <1>8, <1>9, <1>10, <1>11, <1>12, <1>13 DEF DiskNext

-----------------------------------------------------------------------------
\* The types of the Help Me Screen's variables that no other invariant names.
ScreenInv ==
  /\ LineEnd(input)
  /\ prompt \in Dialogs \cup {"exit"}
  /\ asked \in Lines \cup {<<>>} /\ choice \in Chars
  /\ ended \in BOOLEAN /\ misfit \in BOOLEAN
  /\ restored \subseteq BOOLEAN
  /\ typed \in 0 .. MaxLines

\* A dialog is followed by a dialog, or by the end of the program.
LEMMA AfterIsDialog ==
  ASSUME NEW p \in Dialogs, NEW c
  PROVE  After(p, c) \in Dialogs \cup {"exit"}
<1> USE DEF Dialogs, Paths, Menus, Getchars
<1>1. CASE p = "main"
  <2>1. After(p, c) = MainMenu(c)
    BY <1>1
     DEF After, restore_from_backup, create_backup, verify_backup, ToolMenu
  <2>2. QED  BY <2>1 DEF MainMenu
<1>2. CASE p = "recovery"
  <2>1. After(p, c) = system_recovery_menu(c)
    BY <1>2
     DEF After, restore_from_backup, create_backup, verify_backup, ToolMenu
  <2>2. QED  BY <2>1 DEF system_recovery_menu
<1>3. CASE p # "main" /\ p # "recovery"
  BY <1>3
   DEF After, restore_from_backup, create_backup, verify_backup, ToolMenu, PressEnter
<1>4. QED  BY <1>1, <1>2, <1>3

\* Going on to the next dialog keeps the types of what it changes.
LEMMA GoesTyped ==
  ASSUME ScreenInv, prompt # "exit", NEW text, Goes(text)
  PROVE  prompt' \in Dialogs \cup {"exit"} /\ restored' \subseteq BOOLEAN
<1>1. prompt' \in Dialogs \cup {"exit"}
  BY AfterIsDialog DEF Goes, ScreenInv
<1>2. (asked = <<"yes", "\n">>) \in BOOLEAN
  OBVIOUS
<1>3. QED  BY <1>1, <1>2 DEF Goes, ScreenInv

\* Every step of the program and of the user keeps the types.
LEMMA ScreenInvStep == ScreenInv /\ [HmsNext]_hmsVars => ScreenInv'
<1> SUFFICES ASSUME ScreenInv, [HmsNext]_hmsVars PROVE ScreenInv'
  OBVIOUS
<1>1. CASE UNCHANGED hmsVars
  BY <1>1 DEF hmsVars, ScreenInv, LineEnd
<1>2. CASE Read
  <2>1. LineEnd(input')
    BY <1>2, RestIsLineEnd DEF Read, ScreenInv
  <2>2. prompt' \in Dialogs \cup {"exit"} /\ restored' \subseteq BOOLEAN
    BY <1>2, GoesTyped DEF Read
  <2>3. Head(input) \in Chars
    BY <1>2, HeadTailProperties DEF Read, ScreenInv, LineEnd
  <2>4. QED  BY <1>2, <2>1, <2>2, <2>3 DEF Read, ScreenInv, LineEnd
<1>3. CASE ReadPastEnd
  <2>1. PICK text : Goes(text)
    BY <1>3 DEF ReadPastEnd
  <2>2. prompt' \in Dialogs \cup {"exit"} /\ restored' \subseteq BOOLEAN
    BY <1>3, <2>1, GoesTyped DEF ReadPastEnd
  <2>3. QED  BY <1>3, <2>2 DEF ReadPastEnd, ScreenInv, LineEnd
<1>4. CASE CloseTerminal
  BY <1>4 DEF CloseTerminal, ScreenInv, LineEnd
<1>5. ASSUME NEW line \in Lines, TypeLine(line) PROVE ScreenInv'
  <2>1. LineEnd(input')
    BY <1>5, TypedIsLineEnd DEF TypeLine
  <2>2. typed' \in 0 .. MaxLines
    BY <1>5, TypedAssumption DEF TypeLine, ScreenInv
  <2>3. misfit' \in BOOLEAN
    BY <1>5 DEF TypeLine
  <2>4. QED  BY <1>5, <2>1, <2>2, <2>3 DEF TypeLine, ScreenInv, LineEnd
<1>6. QED  BY <1>1, <1>2, <1>3, <1>4, <1>5 DEF HmsNext, HmsProgram

\* The end of a line holds at most one newline.
LEMMA OneNewline ==
  ASSUME NEW s, LineEnd(s)
  PROVE  Cardinality({i \in DOMAIN s : s[i] = "\n"}) <= 1
<1> DEFINE I == {i \in DOMAIN s : s[i] = "\n"}
<1>1. I = {} \/ I = {Len(s)}
  BY DEF LineEnd
<1>2. Cardinality({}) = 0 /\ Cardinality({Len(s)}) = 1
  BY FS_EmptySet, FS_Singleton
<1>3. Cardinality(I) = 0 \/ Cardinality(I) = 1
  BY <1>1, <1>2
<1> HIDE DEF I
<1>4. Cardinality(I) <= 1
  BY <1>3
<1>5. QED  BY <1>4 DEF I

\* The types of the variables of both tools, and that no image ever holds more than
\* its header says, for files, buffers and lines of any size.
THEOREM ToolTypes == ToolSpec => []ToolTypeOK
<1> DEFINE Inv == DiskInv /\ ScreenInv
<1>1. ToolInit => Inv
  <2> SUFFICES ASSUME ToolInit PROVE Inv
    OBVIOUS
  <2>1. FilesInv
    BY ImageInvInit, EmptySeq DEF ToolInit, DiskInit, FilesInv, Holds, NoDsf, IsDsf
  <2>2. OutputsInv
    <3>1. outputs = [boot |-> NoFile, kernel |-> NoFile] /\ writesCut = FALSE /\ diskPc = "shell"
      BY DEF ToolInit, DiskInit
    <3>2. outputs = [part \in Parts |-> outputs[part]]
      BY <3>1 DEF Parts
    <3>3. \A part \in Parts : outputs[part] = NoFile
      BY <3>1 DEF Parts
    <3>4. diskPc \notin Parts
      BY <3>1 DEF Parts
    <3>5. QED  BY <3>1, <3>2, <3>3, <3>4, NothingWritten DEF OutputsInv
  <2>3. ShellInv
    BY BoundAssumption DEF ToolInit, DiskInit, ShellInv
  <2>4. ScreenInv
    <3>1. LineEnd(<<>>)
      BY EmptySeq DEF LineEnd
    <3>2. "boot" \in Dialogs
      BY DEF Dialogs, Getchars
    <3>3. /\ prompt = "boot" /\ input = <<>> /\ ended = FALSE /\ choice \in Chars
          /\ restored = {} /\ asked = <<>> /\ misfit = FALSE /\ typed = 0
      BY DEF ToolInit, HmsInit
    <3>4. typed \in 0 .. MaxLines
      BY <3>3, TypedAssumption
    <3>5. LineEnd(input) /\ prompt \in Dialogs /\ asked \in {<<>>}
      BY <3>1, <3>2, <3>3
    <3>6. QED  BY <3>3, <3>4, <3>5 DEF ScreenInv
  <2>5. QED  BY <2>1, <2>2, <2>3, <2>4 DEF DiskInv
<1>2. Inv /\ [ToolNext]_toolVars => Inv'
  <2> SUFFICES ASSUME Inv, [ToolNext]_toolVars PROVE Inv'
    OBVIOUS
  <2>1. ScreenInv'
    <3>1. [HmsNext]_hmsVars
      BY DEF ToolNext, DiskStep, HmsStep, toolVars
    <3>2. QED  BY <3>1, ScreenInvStep
  <2>2. CASE DiskNext
    BY <2>1, <2>2, FilesInvStep, OutputsInvStep, ShellInvStep DEF DiskInv
  <2>3. CASE UNCHANGED diskVars
    BY <2>1, <2>3
     DEF diskVars, DiskInv, FilesInv, ImageInv, Describes, Holds, IsDsf, OutputsInv, ShellInv
  <2>4. QED  BY <2>2, <2>3 DEF ToolNext, DiskStep, HmsStep, toolVars
<1>3. Inv => ToolTypeOK
  <2> SUFFICES ASSUME Inv PROVE ToolTypeOK
    OBVIOUS
  <2>1. DiskTypeOK
    <3>1. \A part \in {"boot", "kernel"} :
            sources[part] \in Seq(Byte) /\ outputs[part].written \in BOOLEAN
              /\ outputs[part].bytes \in Seq(Byte \cup {Heap})
      BY DEF DiskInv, FilesInv, ImageInv, OutputsInv, Parts, OutputFiles
    <3>2. \A file \in {image, accepted} : file.body \in Seq(Byte) /\ Holds(file)
      BY DEF DiskInv, FilesInv, ImageInv
    <3>3. QED  BY <3>1, <3>2 DEF DiskInv, OutputsInv, ShellInv, DiskTypeOK, Holds
  <2>2. HmsTypeOK
    BY OneNewline DEF ScreenInv, LineEnd, HmsTypeOK
  <2>3. QED  BY <2>1, <2>2 DEF ToolTypeOK
<1> HIDE DEF Inv
<1>4. QED  BY <1>1, <1>2, <1>3, PTL DEF ToolSpec

-----------------------------------------------------------------------------
(* The way back to the main menu.                                          *)

\* The most reads before the main menu comes again, or the program ends.
ReadsLeft ==
  [main |-> 0, exit |-> 0, boot |-> 1, pause |-> 1,
   tool |-> 2, confirm |-> 2, verifyPath |-> 2, createOutput |-> 2,
   restoreDevice |-> 3, createKernel |-> 3, restorePath |-> 4, createBoot |-> 4,
   recovery |-> 5]

\* Outside the main menu every read brings it nearer, and nothing the user does
\* puts it off.
DialogsRunDown ==
  [][prompt # "main" =>
       /\ ReadsLeft[prompt'] <= ReadsLeft[prompt]
       /\ HmsProgram => ReadsLeft[prompt'] < ReadsLeft[prompt]]_toolVars

\* Whatever is read, the prompt that follows is nearer to the main menu.
LEMMA AfterIsNearer ==
  ASSUME NEW p \in Dialogs \ {"main"}, NEW c
  PROVE  ReadsLeft[After(p, c)] < ReadsLeft[p]
<1> USE DEF ReadsLeft
<1>1. CASE p = "recovery"
  <2>1. After(p, c) = system_recovery_menu(c)
    BY <1>1
     DEF After, restore_from_backup, create_backup, verify_backup, ToolMenu
  <2>2. After(p, c) \in {"restorePath", "createBoot", "verifyPath", "main", "pause"}
    BY <2>1 DEF system_recovery_menu
  <2>3. QED  BY <1>1, <2>2
<1>2. CASE p # "recovery"
  <2>1. After(p, c) = CASE p \in {"boot", "pause"} -> "main"
                        [] p = "restorePath"      -> "restoreDevice"
                        [] p = "restoreDevice"    -> "confirm"
                        [] p = "createBoot"       -> "createKernel"
                        [] p = "createKernel"     -> "createOutput"
                        [] OTHER                  -> "pause"
    BY <1>2
     DEF After, restore_from_backup, create_backup, verify_backup, ToolMenu, PressEnter,
         Dialogs, Paths, Menus, Getchars
  <2>2. QED  BY <1>2, <2>1 DEF Dialogs, Paths, Menus, Getchars
<1>3. QED  BY <1>1, <1>2

\* Whatever is typed, also lines that spill from one prompt to the next, and past the
\* end of the input: a dialog makes at most five reads before the main menu.
THEOREM DialogsAreShort == ToolSpec => DialogsRunDown
<1>1. ASSUME HmsTypeOK, [ToolNext]_toolVars
      PROVE  [prompt # "main" =>
                /\ ReadsLeft[prompt'] <= ReadsLeft[prompt]
                /\ HmsProgram => ReadsLeft[prompt'] < ReadsLeft[prompt]]_toolVars
  <2> SUFFICES ASSUME prompt # "main"
               PROVE  /\ ReadsLeft[prompt'] <= ReadsLeft[prompt]
                      /\ HmsProgram => ReadsLeft[prompt'] < ReadsLeft[prompt]
    OBVIOUS
  <2> DEFINE now == ReadsLeft[prompt]
             next == ReadsLeft[prompt']
  <2>1. HmsProgram => next < now
    <3> SUFFICES ASSUME HmsProgram PROVE next < now
      OBVIOUS
    <3>1. PICK text : Goes(text)
      BY DEF HmsProgram, Read, ReadPastEnd
    <3>2. prompt \in Dialogs \ {"main"}
      BY <1>1 DEF HmsProgram, Read, ReadPastEnd, HmsTypeOK
    <3>3. QED  BY <3>1, <3>2, AfterIsNearer DEF Goes
  <2>2. HmsProgram \/ next = now
    BY <1>1 DEF ToolNext, DiskStep, HmsStep, HmsNext, CloseTerminal, TypeLine, toolVars, hmsVars
  <2>3. now \in Nat
    <3>1. \A p \in Dialogs \cup {"exit"} : ReadsLeft[p] \in Nat
      BY DEF ReadsLeft, Dialogs, Paths, Menus, Getchars
    <3>2. QED  BY <1>1, <3>1 DEF HmsTypeOK
  <2>4. HmsProgram => next \in Int
    <3> SUFFICES ASSUME HmsProgram PROVE next \in Int
      OBVIOUS
    <3>1. PICK text : Goes(text)
      BY DEF HmsProgram, Read, ReadPastEnd
    <3>2. prompt' \in Dialogs \cup {"exit"}
      BY <1>1, <3>1, AfterIsDialog DEF HmsProgram, Read, ReadPastEnd, HmsTypeOK, Goes
    <3>3. QED  BY <3>2 DEF ReadsLeft, Dialogs, Paths, Menus, Getchars
  <2> HIDE DEF now, next
  <2>5. next <= now /\ (HmsProgram => next < now)
    BY <2>1, <2>2, <2>3, <2>4
  <2>6. QED  BY <2>5 DEF now, next
<1>2. ToolTypeOK => HmsTypeOK
  BY DEF ToolTypeOK
<1>3. QED  BY <1>1, <1>2, ToolTypes, PTL DEF ToolSpec, DialogsRunDown

-----------------------------------------------------------------------------
(* The checksum.                                                           *)

\* Induction over the numbers, for a set of them.
LEMMA SetInduction ==
  ASSUME NEW S, S \subseteq Nat, 0 \in S, \A n \in S : n + 1 \in S
  PROVE  S = Nat
<1> DEFINE R == OpToRel(<, Nat)
           T == Nat \ S
<1>1. SUFFICES ASSUME T # {} PROVE FALSE
  OBVIOUS
<1>2. IsWellFoundedOn(R, Nat)
  BY NatLessThanWellFounded
<1>3. R = {ss \in Nat \X Nat : ss[1] < ss[2]}
  BY DEF OpToRel
<1>4. T \subseteq Nat
  OBVIOUS
<1> HIDE DEF R, T
<1>5. PICK n \in T : \A m \in T : ~(<<m, n>> \in R)
  BY ONLY <1>1, <1>2, <1>4, WFMin
<1>6. n - 1 \in Nat /\ n - 1 \notin S
  BY <1>5 DEF T
<1>7. <<n - 1, n>> \in R
  BY <1>3, <1>5, <1>6 DEF T
<1>8. QED  BY <1>5, <1>6, <1>7 DEF T

\* The loop of calculate_checksum has a sum after each of its turns: that of the
\* turn before with one more byte.
LEMMA SumsOfLoop ==
  ASSUME NEW data, Len(data) \in Nat
  PROVE  /\ Sums(data)[0] = {}
         /\ \A i \in 1 .. Len(data) : Sums(data)[i] = AddByte(Sums(data)[i - 1], data[i])
<1> DEFINE len == Len(data)
           Loop(f, n) == f = [i \in 0 .. n |-> IF i = 0 THEN {} ELSE AddByte(f[i - 1], data[i])]
           S == {n \in Nat : \E f : Loop(f, n)}
<1>1. 0 \in S
  <2>1. Loop([i \in 0 .. 0 |-> {}], 0)
    OBVIOUS
  <2>2. QED  BY <2>1
<1>2. ASSUME NEW n \in S PROVE n + 1 \in S
  <2>1. PICK f : Loop(f, n)
    OBVIOUS
  <2> DEFINE g == [i \in 0 .. n + 1 |-> IF i = n + 1 THEN AddByte(f[n], data[n + 1]) ELSE f[i]]
  <2>2. ASSUME NEW i \in 0 .. n + 1
        PROVE  g[i] = IF i = 0 THEN {} ELSE AddByte(g[i - 1], data[i])
    <3>1. CASE i = n + 1
      <4>1. g[n] = f[n]
        OBVIOUS
      <4>2. i # 0 /\ i - 1 = n
        BY <3>1
      <4>3. QED  BY <3>1, <4>1, <4>2
    <3>2. CASE i # n + 1
      <4>1. i \in 0 .. n /\ g[i] = f[i]
        BY <3>2
      <4>2. f[i] = IF i = 0 THEN {} ELSE AddByte(f[i - 1], data[i])
        BY <2>1, <4>1
      <4>3. i # 0 => g[i - 1] = f[i - 1]
        BY <4>1
      <4>4. QED  BY <4>1, <4>2, <4>3
    <3>3. QED  BY <3>1, <3>2
  <2>3. Loop(g, n + 1)
    BY <2>2
  <2>4. n + 1 \in Nat
    OBVIOUS
  <2> HIDE DEF Loop, g
  <2>5. QED  BY <2>3, <2>4
<1>3. len \in S
  <2> HIDE DEF S
  <2>1. S \subseteq Nat
    BY DEF S
  <2>2. S = Nat
    BY ONLY <1>1, <1>2, <2>1, SetInduction
  <2>3. QED  BY <2>2
<1>4. Loop(Sums(data), len)
  <2>1. \E f : Loop(f, len)
    BY <1>3
  <2>2. Sums(data) = CHOOSE f : Loop(f, len)
    BY DEF Sums
  <2>3. QED  BY <2>1, <2>2
<1>5. QED
  <2> DEFINE s == Sums(data)
  <2>1. s = [i \in 0 .. len |-> IF i = 0 THEN {} ELSE AddByte(s[i - 1], data[i])]
    BY <1>4
  <2> HIDE DEF s
  <2>2. ASSUME NEW i \in 0 .. len
        PROVE  s[i] = IF i = 0 THEN {} ELSE AddByte(s[i - 1], data[i])
    <3> DEFINE e(j) == IF j = 0 THEN {} ELSE AddByte(s[j - 1], data[j])
    <3>1. s = [j \in 0 .. len |-> e(j)]
      BY <2>1
    <3> HIDE DEF e
    <3>2. s[i] = e(i)
      BY ONLY <3>1, i \in 0 .. len
    <3>3. QED  BY <3>2 DEF e
  <2>3. 0 \in 0 .. len /\ \A i \in 1 .. len : i \in 0 .. len /\ i # 0
    OBVIOUS
  <2>4. s[0] = {}
    BY <2>2, <2>3
  <2>5. \A i \in 1 .. len : s[i] = AddByte(s[i - 1], data[i])
    BY <2>2, <2>3
  <2>6. QED  BY <2>4, <2>5 DEF s

\* More turns shift further.
LEMMA ProductsGrow ==
  ASSUME NEW a \in Nat, NEW b \in Nat, NEW c \in Nat, a <= b
  PROVE  c * a <= c * b
<1>1. c * (b - a) \in Nat
  <2>1. b - a \in Nat
    OBVIOUS
  <2> DEFINE d == b - a
  <2> HIDE DEF d
  <2>2. c * d \in Nat
    BY <2>1 DEF d
  <2>3. QED  BY <2>2 DEF d
<1>2. c * b = c * a + c * (b - a)
  OBVIOUS
<1>3. c * a \in Nat /\ c * b \in Nat
  OBVIOUS
<1>4. QED  BY <1>1, <1>2, <1>3

\* One turn more shifts by one more distance.
LEMMA ProductOfNext ==
  ASSUME NEW a \in Nat, NEW c \in Nat
  PROVE  c * a \in Nat /\ c * (a + 1) \in Nat /\ c * (a + 1) = c * a + c
OBVIOUS

\* Whatever a byte is added to, the sum is a set of bits.
LEMMA SumIsBits ==
  ASSUME NEW sum, NEW byte \in SUBSET Nat
  PROVE  AddByte(sum, byte) \in SUBSET Nat
<1>1. 0 .. Width - 1 \subseteq Nat
  BY WordAssumption
<1>2. QED  BY <1>1 DEF AddByte

\* A bit in which two sums differ is one in which they differ after the next byte,
\* shifted, if it is not shifted out.
LEMMA DifferenceIsShifted ==
  ASSUME NEW a \in SUBSET Nat, NEW b \in SUBSET Nat, NEW byte, NEW x \in Nat,
         x + Shift < Width, ~(x \in a <=> x \in b)
  PROVE  ~(x + Shift \in AddByte(a, byte) <=> x + Shift \in AddByte(b, byte))
<1> DEFINE Shifted(sum) == {bit + Shift : bit \in sum} \cap (0 .. Width - 1)
<1>1. ASSUME NEW sum \in SUBSET Nat PROVE x + Shift \in Shifted(sum) <=> x \in sum
  <2>1. x + Shift \in 0 .. Width - 1
    BY WordAssumption
  <2>2. \A bit \in sum : bit + Shift = x + Shift => bit = x
    BY WordAssumption
  <2>3. QED  BY <2>1, <2>2
<1>2. \A sum : AddByte(sum, byte) = (Shifted(sum) \ byte) \cup (byte \ Shifted(sum))
  BY DEF AddByte
<1> HIDE DEF Shifted
<1>3. QED  BY <1>1, <1>2

\* Two bytes that differ in a bit leave sums that differ in it.
LEMMA DifferenceIsAdded ==
  ASSUME NEW sum, NEW a, NEW b, NEW x, ~(x \in a <=> x \in b)
  PROVE  ~(x \in AddByte(sum, a) <=> x \in AddByte(sum, b))
<1> DEFINE s == {bit + Shift : bit \in sum} \cap (0 .. Width - 1)
<1>1. AddByte(sum, a) = (s \ a) \cup (a \ s) /\ AddByte(sum, b) = (s \ b) \cup (b \ s)
  BY DEF AddByte
<1> HIDE DEF s
<1>2. QED  BY <1>1

\* Two byte sequences that differ in one of the last bytes, whose bits all stay in
\* the sum, have different checksums.
LEMMA OneByteIsNoticed ==
  ASSUME NEW a \in Seq(Byte), NEW b \in Seq(Byte), Len(b) = Len(a), NEW i \in 1 .. Len(a),
         Shift * (Len(a) - i) + ByteBits <= Width, a[i] # b[i],
         \A j \in 1 .. Len(a) \ {i} : a[j] = b[j]
  PROVE  calculate_checksum(a) # calculate_checksum(b)
<1> DEFINE n == Len(a)
           A == Sums(a)
           B == Sums(b)
<1>1. n \in Nat /\ i \in 1 .. n /\ Len(b) = n
  OBVIOUS
<1>2. /\ A[0] = {} /\ B[0] = {}
      /\ \A k \in 1 .. n : A[k] = AddByte(A[k - 1], a[k]) /\ B[k] = AddByte(B[k - 1], b[k])
  BY <1>1, SumsOfLoop
<1>3. calculate_checksum(a) = A[n] /\ calculate_checksum(b) = B[n]
  BY DEF calculate_checksum
<1>4. /\ \A k \in 1 .. n : a[k] \in Byte /\ b[k] \in Byte
      /\ \A k \in 1 .. n : k # i => a[k] = b[k]
      /\ Shift * (n - i) + ByteBits <= Width
  BY ElementOfSeq
<1> HIDE DEF n, A, B
<1>5. ASSUME NEW k \in 1 .. n PROVE A[k] \in SUBSET Nat /\ B[k] \in SUBSET Nat
  <2>1. a[k] \in SUBSET Nat /\ b[k] \in SUBSET Nat
    BY <1>4, WordAssumption DEF Byte
  <2>2. QED  BY <1>2, <2>1, SumIsBits
\* Up to the byte that differs the sums are the same.
<1>6. A[i - 1] = B[i - 1]
  <2> DEFINE S == {k \in Nat : k < i => A[k] = B[k]}
  <2>1. 0 \in S
    BY <1>2
  <2>2. ASSUME NEW k \in S PROVE k + 1 \in S
    <3>1. k \in Nat /\ (k < i => A[k] = B[k])
      OBVIOUS
    <3>2. k + 1 < i => /\ k + 1 \in 1 .. n /\ k + 1 # i /\ (k + 1) - 1 = k /\ k < i
      BY <1>1, <3>1
    <3>3. k + 1 < i => A[k + 1] = B[k + 1]
      BY <1>2, <1>4, <3>1, <3>2
    <3>4. QED  BY <3>1, <3>3
  <2>3. S \subseteq Nat
    OBVIOUS
  <2> HIDE DEF S
  <2>4. S = Nat
    BY ONLY <2>1, <2>2, <2>3, SetInduction
  <2>5. i - 1 \in S /\ i - 1 < i
    BY <1>1, <2>4
  <2>6. QED  BY <2>5 DEF S
\* There they differ in a bit of the byte.
<1>7. PICK x \in 0 .. ByteBits - 1 : ~(x \in a[i] <=> x \in b[i])
  BY <1>1, <1>4 DEF Byte
<1>8. ~(x \in A[i] <=> x \in B[i])
  <2>1. A[i] = AddByte(A[i - 1], a[i]) /\ B[i] = AddByte(A[i - 1], b[i])
    BY <1>1, <1>2, <1>6
  <2>2. QED  BY <1>7, <2>1, DifferenceIsAdded
\* From there on the difference is shifted, and stays in the sum.
<1> DEFINE Apart(k) == ~(x + Shift * k \in A[i + k] <=> x + Shift * k \in B[i + k])
           D == {k \in Nat : k <= n - i => Apart(k)}
<1>9. 0 \in D
  <2>1. Shift * 0 = 0 /\ x + 0 = x /\ i + 0 = i
    BY <1>1, WordAssumption
  <2>2. QED  BY <1>8, <2>1
<1>10. ASSUME NEW k \in D PROVE k + 1 \in D
  <2> SUFFICES ASSUME k + 1 <= n - i PROVE Apart(k + 1)
    OBVIOUS
  <2>1. k \in Nat /\ Apart(k)
    BY <1>1
  <2>2. /\ i + k \in 1 .. n /\ i + (k + 1) \in 1 .. n /\ (i + (k + 1)) - 1 = i + k
        /\ i + (k + 1) # i
    BY <1>1, <2>1
  <2> DEFINE p == Shift * k
             q == Shift * (k + 1)
             r == Shift * (n - i)
             y == x + p
  <2>3. x \in 0 .. ByteBits - 1 /\ ByteBits \in Nat /\ Width \in Nat /\ Shift \in Nat
    BY <1>7, WordAssumption
  <2>4. p \in Nat /\ q = p + Shift /\ q \in Nat /\ r \in Nat
    <3>1. n - i \in Nat
      BY <1>1
    <3>2. p \in Nat /\ q \in Nat /\ q = p + Shift
      BY ONLY <2>1, <2>3, ProductOfNext
    <3>3. r \in Nat
      BY ONLY <2>3, <3>1, ProductOfNext
    <3>4. QED  BY <3>2, <3>3
  <2>5. q <= r
    <3>1. k + 1 \in Nat /\ n - i \in Nat /\ k + 1 <= n - i
      BY <1>1, <2>1
    <3>2. QED  BY ONLY <2>3, <3>1, ProductsGrow
  <2>6. r + ByteBits <= Width
    BY <1>4
  <2>7. ~(y \in A[i + k] <=> y \in B[i + k])
    BY <2>1
  <2> HIDE DEF p, q, r
  <2>8. y \in Nat /\ y + Shift = x + q
    BY <2>3, <2>4
  <2>9. y + Shift < Width
    BY <2>3, <2>4, <2>5, <2>6
  <2> DEFINE j == i + (k + 1)
             byte == a[j]
  <2>10. A[j] = AddByte(A[i + k], byte) /\ B[j] = AddByte(B[i + k], byte)
    BY <1>2, <1>4, <2>2
  <2>11. A[i + k] \in SUBSET Nat /\ B[i + k] \in SUBSET Nat
    BY <1>5, <2>2
  <2> HIDE DEF y, j, byte
  <2>12. ~(y + Shift \in AddByte(A[i + k], byte) <=> y + Shift \in AddByte(B[i + k], byte))
    BY <2>7, <2>8, <2>9, <2>11, DifferenceIsShifted
  <2>13. ~(y + Shift \in A[j] <=> y + Shift \in B[j])
    BY <2>10, <2>12
  <2>14. QED  BY <2>8, <2>13 DEF j, q
<1>11. Apart(n - i)
  <2>1. D \subseteq Nat
    OBVIOUS
  <2> HIDE DEF D
  <2>2. D = Nat
    BY ONLY <1>9, <1>10, <2>1, SetInduction
  <2>3. n - i \in D
    BY <1>1, <2>2
  <2>4. QED  BY <1>1, <2>3 DEF D
<1>12. i + (n - i) = n
  BY <1>1
<1>13. QED  BY <1>3, <1>11, <1>12

\* Verify notices when one of an accepted image's last bytes has changed, whatever
\* the width of the sum, the shift and the sizes of the files.
THEOREM DamageDetected == ToolSpec => DamageIsDetected
<1> DEFINE Inv == /\ ImageInv
                  /\ accepted # NoDsf => accepted.body \in Seq(Byte) /\ HasChecksum(accepted)
           Noticed == accepted' # accepted => ~OneByteApart(accepted, accepted')
<1>1. ToolInit => Inv
  BY ImageInvInit DEF ToolInit, DiskInit
<1>2. ASSUME [DiskNext]_diskVars
      PROVE  \/ UNCHANGED accepted
             \/ accepted' = image /\ IsDsf(image) /\ HasChecksum(image)
  <2>1. CASE VerifyAccepts
    BY <2>1 DEF VerifyAccepts
  <2>2. CASE ~VerifyAccepts
    BY <1>2, <2>2
     DEF DiskNext, diskVars, CreateCannotOpen, CreateOpens, WriteImage, ChecksumNoMemory,
         UpdateChecksum, VerifyRejects, ExtractCannotOpen, ExtractOpens, ExtractBoot,
         ExtractKernel, ExtractSkips, ExtractFails, Interrupt, ByteChanges, TailIsLost
  <2>3. QED  BY <2>1, <2>2
<1>3. [ToolNext]_toolVars => [DiskNext]_diskVars
  BY DEF ToolNext, DiskStep, HmsStep, toolVars
<1>4. Inv /\ [ToolNext]_toolVars => Inv'
  <2> SUFFICES ASSUME Inv, [ToolNext]_toolVars PROVE Inv'
    OBVIOUS
  <2>1. ImageInv'
    BY <1>3, ImageInvStep
  <2>2. CASE UNCHANGED accepted
    BY <2>1, <2>2 DEF HasChecksum, NoDsf
  <2>3. CASE accepted' = image /\ HasChecksum(image)
    BY <2>1, <2>3 DEF HasChecksum, ImageInv
  <2>4. QED  BY <1>2, <1>3, <2>2, <2>3
<1>5. Inv /\ [ToolNext]_toolVars => [Noticed]_diskVars
  <2> SUFFICES ASSUME Inv, [ToolNext]_toolVars, accepted' # accepted,
                      OneByteApart(accepted, accepted')
               PROVE  FALSE
    OBVIOUS
  <2>1. accepted' = image /\ IsDsf(image) /\ HasChecksum(image)
    BY <1>2, <1>3
  <2>2. accepted.header = image.header
    BY <2>1 DEF OneByteApart
  <2>3. accepted # NoDsf
    BY <2>1, <2>2 DEF NoDsf, IsDsf
  <2>4. accepted.body \in Seq(Byte) /\ HasChecksum(accepted) /\ image.body \in Seq(Byte)
    BY <2>3 DEF ImageInv
  <2>5. calculate_checksum(accepted.body) = calculate_checksum(image.body)
    BY <2>1, <2>2, <2>4 DEF HasChecksum
  <2> DEFINE a == accepted.body
             b == image.body
  <2>6. PICK i \in 1 .. Len(a) :
          /\ Shift * (Len(a) - i) + ByteBits <= Width
          /\ a[i] # b[i]
          /\ \A j \in 1 .. Len(a) \ {i} : a[j] = b[j]
    BY <2>1 DEF OneByteApart
  <2>7. a \in Seq(Byte) /\ b \in Seq(Byte) /\ Len(b) = Len(a)
    BY <2>1, <2>4 DEF OneByteApart
  <2>8. calculate_checksum(a) # calculate_checksum(b)
    <3> HIDE DEF a, b
    <3>1. QED  BY <2>6, <2>7, OneByteIsNoticed
  <2>9. QED  BY <2>5, <2>8
<1> HIDE DEF Inv
<1>6. QED  BY <1>1, <1>4, <1>5, PTL DEF ToolSpec, DamageIsDetected

=============================================================================
