------------------------------- MODULE MCBoot -------------------------------
(***************************************************************************)
(* The instance of Boot that TLC checks: the program has no parameter but  *)
(* the build option and the failures, so the instance is the program.      *)
(***************************************************************************)
EXTENDS Boot

AllFaults == {"mount", "umount", "path", "ramdisk", "extract", "short"}

\* /proc and /sys can be unmounted: nothing else runs yet.
NoUmountFaults == AllFaults \ {"umount"}

=============================================================================
