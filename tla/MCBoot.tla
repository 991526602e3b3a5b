------------------------------- MODULE MCBoot --------------------------------
(***************************************************************************)
(* The machines the boot is checked on: QEMU's, with a disk and a CD-ROM   *)
(* of its own channel; a disk behind the CD-ROM; a disk on the channel     *)
(* after that of the CD-ROM; no disk.                                      *)
(***************************************************************************)
EXTENDS Boot

MCMachines == { << "disk", "none", "cdrom", "none" >>,
                << "none", "none", "cdrom", "disk" >>,
                << "none", "cdrom", "none", "disk" >>,
                << "none", "none", "cdrom", "none" >> }
=============================================================================
