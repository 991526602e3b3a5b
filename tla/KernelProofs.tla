---------------------------- MODULE KernelProofs ----------------------------
(***************************************************************************)
(* Proofs about Kernel.tla, for every set of keys, every buffer size,      *)
(* every start disk and any number of boots, with a drive that works or    *)
(* one that fails.                                                         *)
(***************************************************************************)
EXTENDS Kernel, KeyboardProofs

(***************************************************************************)
(* What kmain and the interrupt routine agree on.  A page's flags are set  *)
(* together; a page number asks only for a page whose predecessor was      *)
(* shown; number 2 is asked for only by a key that counts as consent; and  *)
(* a test that succeeded stays true until its body is done, although the   *)
(* routine may have changed pageNumber in between.                         *)
(***************************************************************************)
PageFlags ==
  /\ (servicePage <=> stop2) /\ (agreePage <=> stop6)
  /\ (agreePage2 <=> stop7) /\ (serviceAgreed <=> stop7)

Requests ==
  /\ pageNumber = 4 => stop2
  /\ pageNumber = 5 => stop6
  /\ pageNumber = 2 => agreed

BodiesInOrder ==
  /\ pc = "page4Shown" => stop2
  /\ pc = "page5Shown" => stop6

ConsentInv == PageFlags /\ Requests /\ BodiesInOrder /\ InstallNeedsConsent

-----------------------------------------------------------------------------
(* A key asks for a page as SetupPage says, or leaves pageNumber alone. *)
LEMMA PressPage ==
  ASSUME NEW k \in Key, Key1(k)
  PROVE  /\ UNCHANGED << mainVars, servicePage, agreePage, agreePage2 >>
         /\ \/ pageNumber' = pageNumber
            \/ pageNumber' = 1
            \/ pageNumber' = 4 /\ servicePage
            \/ pageNumber' = 5 /\ agreePage
            \/ pageNumber' = 2 /\ agreePage2 /\ agreed'
         /\ agreed' => agreed \/ agreePage2
         /\ agreed => agreed'
<1> DEFINE ch == keyboard_map[k]
<1>1. /\ UNCHANGED << mainVars, servicePage, agreePage, agreePage2 >>
      /\ agreed' = (agreed \/ (agreePage2 /\ ~ isInstalled /\ ~ BufferFull))
      /\ Receive(ch)
  BY DEF Key1, Press
<1>2. CASE ch = BS
  BY <1>1, <1>2 DEF Receive, Erase
<1>3. CASE ch # BS /\ BufferFull
  BY <1>1, <1>3 DEF Receive, Ignore
<1>4. CASE ch # BS /\ ~ BufferFull /\ CommandLine(ch)
  BY <1>1, <1>4 DEF CommandLine
<1>5. CASE ch # BS /\ ~ BufferFull /\ SetupPage(ch)
  <2>1. \/ pageNumber' = pageNumber
        \/ pageNumber' = 1
        \/ pageNumber' = 4 /\ servicePage
        \/ pageNumber' = 5 /\ agreePage
        \/ pageNumber' = 2 /\ agreePage2
    BY <1>5 DEF SetupPage
  <2>2. ~ isInstalled
    BY <1>5 DEF SetupPage
  <2> QED BY <1>1, <1>5, <2>1, <2>2
<1> QED BY <1>1, <1>2, <1>3, <1>4, <1>5 DEF Receive

LEMMA ConsentInit == Init => ConsentInv
  BY DEF Init, InitRAM, InitKeyboard, ConsentInv, PageFlags, Requests,
         BodiesInOrder, InstallNeedsConsent, InstallPc

LEMMA ConsentStep == ConsentInv /\ [Next]_vars => ConsentInv'
<1> SUFFICES ASSUME ConsentInv, [Next]_vars PROVE ConsentInv'
  OBVIOUS
<1> USE DEF ConsentInv, PageFlags, Requests, BodiesInOrder,
            InstallNeedsConsent, InstallPc
<1>1. CASE Hardware
  BY <1>1 DEF Hardware, Go, shared
<1>2. CASE Verify
  BY <1>2 DEF Verify, Go, input
<1>3. CASE WriteSector
  BY <1>3 DEF WriteSector, Go, input, shared
<1>4. CASE Welcome
  BY <1>4 DEF Welcome, Go, input, shared
<1>5. CASE Page1Test
  BY <1>5 DEF Page1Test, Test, Go, input, shared
<1>6. CASE Page1Shown
  BY <1>6 DEF Page1Shown, Go, input
<1>7. CASE Page4Test
  BY <1>7 DEF Page4Test, Test, Go, input, shared
<1>8. CASE Page4Shown
  BY <1>8 DEF Page4Shown, Go, input
<1>9. CASE Page5Test
  BY <1>9 DEF Page5Test, Test, Go, input, shared
<1>10. CASE Page5Shown
  BY <1>10 DEF Page5Shown, Go, input
<1>11. CASE InstallTest
  BY <1>11 DEF InstallTest, Test, Go, input, shared
<1>12. CASE InstallMetadata
  BY <1>12 DEF InstallMetadata, InstallSector, Go, input, shared
<1>13. CASE InstallMarker
  BY <1>13 DEF InstallMarker, InstallSector, Go, input, shared
<1>14. CASE Installed
  BY <1>14 DEF Installed, Go, input, shared
<1>15. CASE Desktop
  BY <1>15 DEF Desktop, Test, Go, input, shared
<1>16. ASSUME NEW k \in Key, Key1(k) PROVE ConsentInv'
  BY <1>16, PressPage DEF mainVars
<1>17. CASE NoCharacter
  BY <1>17 DEF NoCharacter, NoKey, AfterPoweroff, Ignore, mainVars
<1>18. CASE PowerCycle
  BY <1>18 DEF PowerCycle, ResetKeyboard
<1>19. CASE UNCHANGED vars
  BY <1>19 DEF vars, keyboardVars, mainVars
<1> QED BY <1>1, <1>2, <1>3, <1>4, <1>5, <1>6, <1>7, <1>8, <1>9, <1>10,
           <1>11, <1>12, <1>13, <1>14, <1>15, <1>16, <1>17, <1>18, <1>19
           DEF Next, Main

(* The pages of the terms come in order and the installation only after a  *)
(* key on the last one: kmain and handle_keyboard_interrupt, interleaved   *)
(* in any way.                                                             *)
THEOREM ConsentSafety == Spec => []InstallNeedsConsent
<1>1. ConsentInv => InstallNeedsConsent
  BY DEF ConsentInv
<1> QED BY ConsentInit, ConsentStep, <1>1, PTL DEF Spec

-----------------------------------------------------------------------------
LEMMA FreshValues ==
  /\ << >> \in Seq(Char) /\ Len(<< >>) < BufferSize
  /\ 0 \in 0 .. CoordModulus - 1
<1>1. << >> \in Seq(Char) /\ Len(<< >>) = 0
  BY EmptySeq
<1>2. 0 < BufferSize /\ 0 \in 0 .. CoordModulus - 1
  BY KeyboardAssumption
<1> QED BY <1>1, <1>2

LEMMA TypeInit == Init => TypeOK
<1> SUFFICES ASSUME Init PROVE TypeOK
  OBVIOUS
<1>1. build \in BOOLEAN /\ disk \subseteq Sector
  BY KernelAssumption DEF Init
<1>2. isInstalled \in BOOLEAN
  BY <1>1 DEF Init, InitRAM
<1>3. KeyboardTypeOK
  BY <1>2, FreshValues DEF Init, InitRAM, InitKeyboard, KeyboardTypeOK
<1>4. /\ pc \in BootPc \cup LoopPc /\ sector \in Sector /\ boots \in Nat
      /\ drive \in Drives
  BY DEF Init, InitRAM, BootPc, Sector
<1>5. /\ stop1 \in BOOLEAN /\ stop2 \in BOOLEAN /\ stop3 \in BOOLEAN
      /\ stop6 \in BOOLEAN /\ stop7 \in BOOLEAN /\ serviceAgreed \in BOOLEAN
      /\ agreed \in BOOLEAN
  BY DEF Init, InitRAM
<1> QED BY <1>1, <1>3, <1>4, <1>5 DEF TypeOK

LEMMA PutSectorType ==
  ASSUME disk \subseteq Sector, NEW s \in Sector, PutSector(s)
  PROVE  disk' \subseteq Sector
BY DEF PutSector

LEMMA TypeStep == TypeOK /\ [Next]_vars => TypeOK'
<1> SUFFICES ASSUME TypeOK, [Next]_vars PROVE TypeOK'
  OBVIOUS
<1> USE DEF TypeOK
<1>1. CASE Hardware
  BY <1>1 DEF Hardware, Go, shared, outside, KeyboardTypeOK, BootPc
<1>2. CASE Verify
  <2>1. isInstalled' \in BOOLEAN
    BY <1>2 DEF Verify, KeyboardTypeOK
  <2>2. /\ pc' \in BootPc
        /\ UNCHANGED << input, servicePage, agreePage, agreePage2, sector, stop1,
                        stop2, stop3, stop6, stop7, serviceAgreed, disk, outside,
                        boots, agreed >>
    BY <1>2 DEF Verify, Go, BootPc
  <2> QED BY <2>1, <2>2 DEF input, outside, KeyboardTypeOK
<1>3. CASE WriteSector
  <2>1. /\ disk' \subseteq Sector /\ sector' \in Sector
        /\ pc' \in BootPc \cup LoopPc
    BY <1>3, PutSectorType DEF WriteSector, Go, Sector, BootPc, LoopPc
  <2> QED BY <1>3, <2>1 DEF WriteSector, input, shared, outside, KeyboardTypeOK
<1>4. CASE Welcome
  BY <1>4 DEF Welcome, Go, input, shared, outside, KeyboardTypeOK, LoopPc
<1>5. CASE Page1Test \/ Page4Test \/ Page5Test \/ InstallTest \/ Desktop
  <2>1. /\ pc' \in LoopPc
        /\ UNCHANGED << input, shared, sector, stop1, stop2, stop3, stop6, stop7,
                        serviceAgreed, disk, outside, boots, agreed >>
    BY <1>5 DEF Page1Test, Page4Test, Page5Test, InstallTest, Desktop, Test, Go,
                LoopPc
  <2> QED BY <2>1 DEF input, shared, outside, KeyboardTypeOK
<1>6. CASE Page1Shown \/ Page4Shown \/ Page5Shown
  <2>1. CASE Page1Shown
    BY <2>1 DEF Page1Shown, Go, input, outside, KeyboardTypeOK, LoopPc
  <2>2. CASE Page4Shown
    BY <2>2 DEF Page4Shown, Go, input, outside, KeyboardTypeOK, LoopPc
  <2>3. CASE Page5Shown
    BY <2>3 DEF Page5Shown, Go, input, outside, KeyboardTypeOK, LoopPc
  <2> QED BY <1>6, <2>1, <2>2, <2>3
<1>7. CASE InstallMetadata \/ InstallMarker
  <2>1. disk' \subseteq Sector /\ pc' \in LoopPc
    BY <1>7, PutSectorType DEF InstallMetadata, InstallMarker, InstallSector,
                               Metadata, Marker, Sector, Go, LoopPc
  <2> QED BY <1>7, <2>1 DEF InstallMetadata, InstallMarker, InstallSector,
                            input, shared, outside, KeyboardTypeOK
<1>8. CASE Installed
  BY <1>8 DEF Installed, Go, input, shared, outside, KeyboardTypeOK, LoopPc
<1>9. ASSUME NEW k \in Key, Key1(k) PROVE TypeOK'
  <2>1. KeyboardTypeOK'
    BY <1>9, PressType DEF Key1
  <2>2. agreed' \in BOOLEAN
    BY <1>9 DEF Key1
  <2> QED BY <1>9, <2>1, <2>2 DEF Key1, mainVars, outside
<1>10. CASE NoCharacter
  <2>1. KeyboardTypeOK'
    BY <1>10, NoCharacterType DEF NoCharacter
  <2> QED BY <1>10, <2>1 DEF NoCharacter, mainVars, outside
<1>11. CASE PowerCycle
  <2>1. isInstalled' \in BOOLEAN
    BY <1>11 DEF PowerCycle
  <2>2. KeyboardTypeOK'
    BY <1>11, <2>1, FreshValues DEF PowerCycle, ResetKeyboard, KeyboardTypeOK
  <2>3. /\ pc' \in BootPc \cup LoopPc /\ sector' \in Sector /\ boots' \in Nat
        /\ UNCHANGED << disk, drive, build >>
    BY <1>11 DEF PowerCycle, outside, BootPc, Sector
  <2>4. /\ stop1' \in BOOLEAN /\ stop2' \in BOOLEAN /\ stop3' \in BOOLEAN
        /\ stop6' \in BOOLEAN /\ stop7' \in BOOLEAN
        /\ serviceAgreed' \in BOOLEAN /\ agreed' \in BOOLEAN
    BY <1>11 DEF PowerCycle
  <2> QED BY <2>2, <2>3, <2>4
<1>12. CASE UNCHANGED vars
  BY <1>12 DEF vars, keyboardVars, mainVars, outside, KeyboardTypeOK
<1> QED BY <1>1, <1>2, <1>3, <1>4, <1>5, <1>6, <1>7, <1>8, <1>9, <1>10,
           <1>11, <1>12 DEF Next, Main

(* Every variable keeps its type; the line buffer's index keeps below      *)
(* BUFFER_SIZE.                                                            *)
THEOREM TypeCorrect == Spec => []TypeOK
BY TypeInit, TypeStep, PTL DEF Spec

-----------------------------------------------------------------------------
(***************************************************************************)
(* The disk.  On a drive that works, the sectors before the next one to    *)
(* write are written, and whatever was on the disk stays: so a boot that   *)
(* reached the loop has written them all.                                  *)
(***************************************************************************)
ImageInv ==
  drive = "good" =>
    /\ pc = "write" => 1 .. sector - 1 \subseteq disk
    /\ pc \in LoopPc => disk = Sector
    /\ pc \in {"hardware", "verify"} => sector = 1

LEMMA ImageInit == Init => ImageInv
BY DEF Init, InitRAM, ImageInv, LoopPc

(* A step of the main thread that writes nothing. *)
LEMMA SameDiskStep ==
  ASSUME ImageInv, UNCHANGED << disk, drive, sector >>,
         \/ pc \in LoopPc /\ pc' \in LoopPc
         \/ pc' = pc
         \/ pc = "hardware" /\ pc' = "verify"
         \/ pc = "verify" /\ pc' = "write"
  PROVE  ImageInv'
BY DEF ImageInv, LoopPc

LEMMA ImageStep == TypeOK /\ ImageInv /\ [Next]_vars => ImageInv'
<1> SUFFICES ASSUME TypeOK, ImageInv, [Next]_vars PROVE ImageInv'
  OBVIOUS
<1>1. CASE Hardware \/ Verify
  BY <1>1, SameDiskStep DEF Hardware, Verify, Go, outside
<1>2. CASE WriteSector
  <2> SUFFICES ASSUME drive' = "good"
               PROVE  /\ pc' = "write" => 1 .. sector' - 1 \subseteq disk'
                      /\ pc' \in LoopPc => disk' = Sector
                      /\ pc' \notin {"hardware", "verify"}
    BY DEF ImageInv
  <2>1. /\ drive = "good" /\ disk' = disk \cup {sector} /\ sector \in 1 .. 6
        /\ 1 .. sector - 1 \subseteq disk /\ disk \subseteq 1 .. 6
    BY <1>2 DEF WriteSector, PutSector, ImageInv, Go, outside, TypeOK, Sector
  <2>2. 1 .. sector \subseteq disk'
    BY <2>1
  <2>3. CASE sector = 6
    BY <1>2, <2>1, <2>2, <2>3 DEF WriteSector, Go, Sector
  <2>4. CASE sector # 6
    BY <1>2, <2>1, <2>2, <2>4 DEF WriteSector, Go, LoopPc
  <2> QED BY <2>3, <2>4
<1>3. CASE Welcome \/ Page1Shown \/ Page4Shown \/ Page5Shown \/ Installed
  BY <1>3, SameDiskStep
     DEF Welcome, Page1Shown, Page4Shown, Page5Shown, Installed, Go, outside, LoopPc
<1>4. CASE Page1Test \/ Page4Test \/ Page5Test \/ InstallTest \/ Desktop
  BY <1>4, SameDiskStep
     DEF Page1Test, Page4Test, Page5Test, InstallTest, Desktop, Test, Go,
         outside, LoopPc
<1>5. CASE InstallMetadata \/ InstallMarker
  <2>1. /\ pc \in LoopPc /\ pc' \in LoopPc /\ pc' # "write"
        /\ pc' \notin {"hardware", "verify"}
        /\ UNCHANGED drive /\ \E s \in Sector : PutSector(s)
    BY <1>5 DEF InstallMetadata, InstallMarker, InstallSector, Go, outside,
                LoopPc, Metadata, Marker, Sector
  <2>2. drive = "good" => disk' = Sector
    BY <2>1 DEF ImageInv, PutSector
  <2> QED BY <2>1, <2>2 DEF ImageInv
<1>6. CASE (\E k \in Key : Key1(k)) \/ NoCharacter
  BY <1>6, SameDiskStep DEF Key1, NoCharacter, mainVars, outside
<1>7. CASE PowerCycle
  BY <1>7 DEF PowerCycle, ImageInv, outside, LoopPc
<1>8. CASE UNCHANGED vars
  BY <1>8, SameDiskStep DEF vars, mainVars, outside
<1> QED BY <1>1, <1>2, <1>3, <1>4, <1>5, <1>6, <1>7, <1>8 DEF Next, Main

(* However a boot was cut short, the loop runs on a complete image. *)
THEOREM ImageSafety == Spec => []ImageBeforeLoop
<1>1. ImageInv => ImageBeforeLoop
  BY DEF ImageInv, ImageBeforeLoop
<1> QED BY ImageInit, ImageStep, TypeInit, TypeStep, <1>1, PTL DEF Spec

(* What is on the disk before the first boot, if nothing but ViaOS wrote   *)
(* to it.                                                                  *)
StartInOrder == \A d \in StartDisk : Marker \in d => Metadata \in d

LEMMA MarkerStep ==
  TypeOK /\ ImageInv /\ MarkerAfterMetadata /\ [Next]_vars => MarkerAfterMetadata'
<1> SUFFICES ASSUME TypeOK, ImageInv, MarkerAfterMetadata, [Next]_vars
             PROVE  MarkerAfterMetadata'
  OBVIOUS
<1>1. ASSUME UNCHANGED << disk, drive >> PROVE MarkerAfterMetadata'
  BY <1>1 DEF MarkerAfterMetadata
<1>2. CASE WriteSector
  <2>1. drive' = drive /\ sector \in 1 .. 6 /\ pc = "write" /\ PutSector(sector)
    BY <1>2 DEF WriteSector, Go, outside, TypeOK, Sector
  <2>2. CASE drive = "none"
    BY <2>1, <2>2, <1>1 DEF PutSector
  <2>3. CASE drive = "good"
    <3>1. disk' = disk \cup {sector} /\ 1 .. sector - 1 \subseteq disk
      BY <2>1, <2>3 DEF PutSector, ImageInv
    <3>2. CASE sector = Marker
      BY <3>1, <3>2 DEF MarkerAfterMetadata, Marker, Metadata
    <3>3. CASE sector # Marker
      BY <2>1, <3>1, <3>3 DEF MarkerAfterMetadata
    <3> QED BY <3>2, <3>3
  <2>4. CASE drive = "faulty"
    BY <2>1, <2>4 DEF MarkerAfterMetadata
  <2> QED BY <2>2, <2>3, <2>4, KernelAssumption DEF TypeOK
<1>3. CASE InstallMetadata \/ InstallMarker
  <2>1. /\ drive' = drive /\ pc \in LoopPc
        /\ PutSector(Metadata) \/ PutSector(Marker)
    BY <1>3 DEF InstallMetadata, InstallMarker, InstallSector, Go, outside, LoopPc
  <2>2. drive = "good" => disk' = Sector
    BY <2>1 DEF ImageInv, PutSector, Sector, Metadata, Marker
  <2>3. drive = "none" => disk' = disk
    BY <2>1 DEF PutSector
  <2>4. drive \in {"none", "good", "faulty"}
    BY KernelAssumption DEF TypeOK
  <2> QED BY <2>1, <2>2, <2>3, <2>4 DEF MarkerAfterMetadata, Metadata, Sector
<1>4. CASE Hardware \/ Verify \/ Welcome \/ Page1Shown \/ Page4Shown
           \/ Page5Shown \/ Installed
  BY <1>1, <1>4 DEF Hardware, Verify, Welcome, Page1Shown, Page4Shown,
                    Page5Shown, Installed, outside
<1>5. CASE Page1Test \/ Page4Test \/ Page5Test \/ InstallTest \/ Desktop
  BY <1>1, <1>5 DEF Page1Test, Page4Test, Page5Test, InstallTest, Desktop,
                    Test, outside
<1>6. CASE (\E k \in Key : Key1(k)) \/ NoCharacter \/ PowerCycle
  BY <1>1, <1>6 DEF Key1, NoCharacter, PowerCycle, outside
<1>7. CASE UNCHANGED vars
  BY <1>1, <1>7 DEF vars, outside
<1> QED BY <1>2, <1>3, <1>4, <1>5, <1>6, <1>7 DEF Next, Main

(* A disk that only ViaOS wrote to never holds the marker without the      *)
(* metadata, although a boot may end between any two of kmain's writes.    *)
THEOREM MarkerSafety == StartInOrder => (Spec => []MarkerAfterMetadata)
<1> SUFFICES ASSUME StartInOrder PROVE Spec => []MarkerAfterMetadata
  OBVIOUS
<1>1. Init => MarkerAfterMetadata
  BY DEF Init, MarkerAfterMetadata, StartInOrder
<1> QED BY <1>1, ImageInit, ImageStep, TypeInit, TypeStep, MarkerStep, PTL DEF Spec

-----------------------------------------------------------------------------
(***************************************************************************)
(* The committed image: compiled as installed, it stays so whatever the    *)
(* disk holds, and nothing opens IRQ 1 but the boot's first step.          *)
(***************************************************************************)
DeafInv ==
  build => /\ isInstalled /\ irq1 = "masked" /\ ~ kbI
           /\ ~ stop1 /\ ~ stop2 /\ ~ agreed
           /\ pageNumber = 0 /\ pc # "page1Shown"

LEMMA DeafInit == Init => DeafInv
BY DEF Init, InitRAM, InitKeyboard, DeafInv

LEMMA DeafStep == DeafInv /\ [Next]_vars => DeafInv'
<1> SUFFICES ASSUME DeafInv, [Next]_vars, build' PROVE DeafInv'
  BY DEF DeafInv
<1> USE DEF DeafInv
<1>1. CASE Hardware
  BY <1>1 DEF Hardware, Go, shared, outside
<1>2. CASE Verify
  BY <1>2 DEF Verify, Go, input, outside
<1>3. CASE WriteSector
  BY <1>3 DEF WriteSector, Go, input, shared, outside
<1>4. CASE Welcome
  BY <1>4 DEF Welcome, Go, input, shared, outside
<1>5. CASE Page1Test \/ Page4Test \/ Page5Test \/ InstallTest \/ Desktop
  <2>1. UNCHANGED << input, shared, stop1, stop2, outside, agreed >>
    BY <1>5 DEF Page1Test, Page4Test, Page5Test, InstallTest, Desktop, Test
  <2>2. build /\ pageNumber = 0
    BY <2>1 DEF outside
  <2>3. pc' # "page1Shown"
    BY <1>5, <2>2 DEF Page1Test, Page4Test, Page5Test, InstallTest, Desktop, Test, Go
  <2> QED BY <2>1, <2>2, <2>3 DEF input, shared, outside
<1>6. CASE Page1Shown
  BY <1>6 DEF Page1Shown, Go, outside
<1>7. CASE Page4Shown \/ Page5Shown
  BY <1>7 DEF Page4Shown, Page5Shown, Go, input, outside
<1>8. CASE InstallMetadata \/ InstallMarker
  BY <1>8 DEF InstallMetadata, InstallMarker, InstallSector, Go, input, shared, outside
<1>9. CASE Installed
  BY <1>9 DEF Installed, Go, input, shared, outside
<1>10. CASE (\E k \in Key : Key1(k)) \/ NoCharacter
  BY <1>10 DEF Key1, Press, NoCharacter, NoKey, AfterPoweroff, outside
<1>11. CASE PowerCycle
  BY <1>11 DEF PowerCycle, ResetKeyboard, outside
<1>12. CASE UNCHANGED vars
  BY <1>12 DEF vars, keyboardVars, mainVars, outside
<1> QED BY <1>1, <1>2, <1>3, <1>4, <1>5, <1>6, <1>7, <1>8, <1>9, <1>10,
           <1>11, <1>12 DEF Next, Main

(* The image as committed never takes a key and shows no page of the       *)
(* installer, whatever is on the disk.                                     *)
THEOREM DeafSafety == Spec => []CommittedImageIsDeaf
<1>1. DeafInv => CommittedImageIsDeaf
  BY DEF DeafInv, CommittedImageIsDeaf
<1> QED BY DeafInit, DeafStep, <1>1, PTL DEF Spec

-----------------------------------------------------------------------------
(***************************************************************************)
(* Leaving setup.  It is possible before the first page's flags are set    *)
(* only; so the request that is pending then, which no key changes any     *)
(* more, is for that page at most.                                         *)
(***************************************************************************)
QuitInv ==
  ~ isInput => /\ poweroff_sys /\ pageNumber \in {0, 1} /\ ~ stop6
               /\ pc \notin {"page4Shown", "page5Shown"} \cup InstallPc

LEMMA QuitInit == Init => QuitInv
BY DEF Init, InitRAM, InitKeyboard, QuitInv

LEMMA QuitKey ==
  ASSUME TypeOK, ConsentInv, QuitInv, NEW k \in Key, Key1(k)
  PROVE  QuitInv'
<1> DEFINE ch == keyboard_map[k]
<1> SUFFICES ASSUME ~ isInput'
             PROVE  /\ poweroff_sys' /\ pageNumber' \in {0, 1} /\ ~ stop6
                    /\ pc \notin {"page4Shown", "page5Shown"} \cup InstallPc
  BY DEF QuitInv, Key1, mainVars
<1>1. isInput /\ ~ poweroff_sys /\ Receive(ch)
  BY DEF Key1, Press, QuitInv
<1>2. SetupPage(ch)
  BY <1>1 DEF Receive, Erase, Ignore, CommandLine
<1>3. poweroff_sys' /\ ~ servicePage
  BY <1>1, <1>2 DEF SetupPage
<1>4. /\ ~ stop2 /\ ~ stop6 /\ ~ agreePage /\ ~ agreePage2 /\ ~ agreed
      /\ pageNumber \notin {2, 4, 5}
      /\ pc \notin {"page4Shown", "page5Shown"} \cup InstallPc
  BY <1>3 DEF ConsentInv, PageFlags, Requests, BodiesInOrder, InstallNeedsConsent
<1>5. pageNumber' \in {1, pageNumber}
  BY <1>2, <1>3, <1>4 DEF SetupPage
<1>6. pageNumber \in {0, 1}
  BY <1>4 DEF TypeOK, KeyboardTypeOK
<1> QED BY <1>3, <1>4, <1>5, <1>6

LEMMA QuitStep == TypeOK /\ ConsentInv /\ QuitInv /\ [Next]_vars => QuitInv'
<1> SUFFICES ASSUME TypeOK, ConsentInv, QuitInv, [Next]_vars PROVE QuitInv'
  OBVIOUS
<1>1. CASE Hardware
  BY <1>1 DEF Hardware, Go, QuitInv, InstallPc
<1>2. CASE Verify \/ WriteSector \/ Welcome
  BY <1>2 DEF Verify, WriteSector, Welcome, Go, input, QuitInv, InstallPc
<1>3. CASE Page1Test \/ Page4Test \/ Page5Test \/ InstallTest \/ Desktop
  BY <1>3 DEF Page1Test, Page4Test, Page5Test, InstallTest, Desktop, Test, Go,
              input, QuitInv, InstallPc
<1>4. CASE Page1Shown \/ Page4Shown \/ Page5Shown
  BY <1>4 DEF Page1Shown, Page4Shown, Page5Shown, Go, input, QuitInv, InstallPc
<1>5. CASE InstallMetadata \/ InstallMarker \/ Installed
  BY <1>5 DEF InstallMetadata, InstallMarker, InstallSector, Installed, Go, input,
              QuitInv, InstallPc
<1>6. CASE \E k \in Key : Key1(k)
  BY <1>6, QuitKey
<1>7. CASE NoCharacter
  BY <1>7 DEF NoCharacter, NoKey, AfterPoweroff, Ignore, mainVars, QuitInv, InstallPc
<1>8. CASE PowerCycle
  BY <1>8 DEF PowerCycle, ResetKeyboard, QuitInv
<1>9. CASE UNCHANGED vars
  BY <1>9 DEF vars, keyboardVars, mainVars, QuitInv, InstallPc
<1> QED BY <1>1, <1>2, <1>3, <1>4, <1>5, <1>6, <1>7, <1>8, <1>9 DEF Next, Main

(* Who leaves setup sees the first page of the terms at most, and nothing  *)
(* is installed, whichever requests were pending when the key came.        *)
THEOREM QuitSafety == Spec => []QuitStopsSetup
<1>1. QuitInv => QuitStopsSetup
  BY DEF QuitInv, QuitStopsSetup
<1> QED BY ConsentInit, ConsentStep, TypeInit, TypeStep, QuitInit, QuitStep, <1>1,
           PTL DEF Spec
=============================================================================
