------------------------------- MODULE MCAta --------------------------------
(***************************************************************************)
(* The machines ViaOS's driver is checked on.  A register holds one of     *)
(* four values and a head number one of two, so 128 is the first address   *)
(* of 48-bit mode and 256 the first a 32-bit number does not hold.         *)
(***************************************************************************)
EXTENDS Ata

(* A drive behind a CD-ROM on its channel and an unknown device; two       *)
(* drives, one of which knows cylinders only; nothing.                     *)
MCMachines == { << "other", "none", "cdrom", "disk" >>,
                << "disk", "oldDisk", "none", "none" >>,
                << "none", "none", "none", "none" >> }

OneDisk == { << "disk", "none", "none", "none" >> }
=============================================================================
