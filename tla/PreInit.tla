------------------------------ MODULE PreInit ------------------------------
(***************************************************************************)
(* class PreInit (preinit.cpp): a list of mounts that is executed at once, *)
(* with a rollback when one fails, and a ledger of what was mounted from   *)
(* which single mounts are removed later.  Module Boot uses two of them on *)
(* one kernel.                                                             *)
(***************************************************************************)
EXTENDS Naturals, Sequences

CONSTANTS Targets,   \* destination directories
          Faults     \* failures the environment can produce

VARIABLES mount_prep,     \* what was added
          mounted_paths,  \* the ledger
          at,             \* index of the loop that runs
          status,         \* what prepare() does, or how it ended
          kernel          \* how often each directory is mounted

vars == <<mount_prep, mounted_paths, at, status, kernel>>

Statuses == {"open", "mounting", "rollback", "ok", "failed"}

TypeOK ==
  /\ mount_prep \in Seq(Targets)
  /\ mounted_paths \in Seq(Targets)
  /\ at \in Nat \ {0}
  /\ status \in Statuses
  /\ kernel \in [Targets -> Nat]

Empty ==
  /\ mount_prep = <<>>
  /\ mounted_paths = <<>>
  /\ at = 1
  /\ status = "open"

Mount(t)   == kernel' = [kernel EXCEPT ![t] = kernel[t] + 1]
Umount(t)  == kernel' = [kernel EXCEPT ![t] = kernel[t] - 1]
InLedger(t) == \E i \in DOMAIN mounted_paths : mounted_paths[i] = t

\* What erase and std::remove leave of the ledger: its entries but those that
\* are t, in the same order.
Without(t) ==
  LET kept[i \in 0 .. Len(mounted_paths)] ==
        IF i = 0 THEN <<>>
        ELSE IF mounted_paths[i] = t THEN kept[i - 1] ELSE Append(kept[i - 1], mounted_paths[i])
  IN  kept[Len(mounted_paths)]

Add(t) ==
  /\ status = "open"
  /\ mount_prep' = Append(mount_prep, t)
  /\ UNCHANGED <<mounted_paths, at, status, kernel>>

Prepare ==
  /\ status = "open"
  /\ status' = "mounting"
  /\ at' = 1
  /\ UNCHANGED <<mount_prep, mounted_paths, kernel>>

MountNext ==
  /\ status = "mounting"
  /\ at \in DOMAIN mount_prep
  /\ Mount(mount_prep[at])
  /\ mounted_paths' = Append(mounted_paths, mount_prep[at])
  /\ at' = at + 1
  /\ UNCHANGED <<mount_prep, status>>

\* Mutant: the entry is in the ledger before it is mounted.
MountFailsRecorded ==
  /\ status = "mounting"
  /\ at \in DOMAIN mount_prep
  /\ "mount" \in Faults
  /\ mounted_paths' = Append(mounted_paths, mount_prep[at])
  /\ status' = "rollback"
  /\ at' = 1
  /\ UNCHANGED <<mount_prep, kernel>>

MountFails ==
  /\ status = "mounting"
  /\ at \in DOMAIN mount_prep
  /\ "mount" \in Faults
  /\ status' = "rollback"
  /\ at' = 1
  /\ UNCHANGED <<mount_prep, mounted_paths, kernel>>

PrepareEnds ==
  /\ status = "mounting"
  /\ at \notin DOMAIN mount_prep
  /\ status' = "ok"
  /\ UNCHANGED <<mount_prep, mounted_paths, at, kernel>>

\* Mutant: the rollback does not advance.
RollbackStays ==
  /\ status = "rollback"
  /\ at \in DOMAIN mounted_paths
  /\ Umount(mounted_paths[at])
  /\ UNCHANGED <<mount_prep, mounted_paths, at, status>>

\* The rollback unmounts in the order of the mounts; the ledger keeps them.
RollbackNext ==
  /\ status = "rollback"
  /\ at \in DOMAIN mounted_paths
  /\ Umount(mounted_paths[at])
  /\ at' = at + 1
  /\ UNCHANGED <<mount_prep, mounted_paths, status>>

\* A failed umount leaves the rollback with an exception of its own.
RollbackFails ==
  /\ status = "rollback"
  /\ at \in DOMAIN mounted_paths
  /\ "umount" \in Faults
  /\ status' = "failed"
  /\ UNCHANGED <<mount_prep, mounted_paths, at, kernel>>

\* Mutant: the list is mounted again after the rollback, without a bound.
RollbackEndsRetry ==
  /\ status = "rollback"
  /\ at \notin DOMAIN mounted_paths
  /\ status' = "mounting"
  /\ mounted_paths' = <<>>
  /\ at' = 1
  /\ UNCHANGED <<mount_prep, kernel>>

\* The exception is thrown on.
RollbackEnds ==
  /\ status = "rollback"
  /\ at \notin DOMAIN mounted_paths
  /\ status' = "failed"
  /\ UNCHANGED <<mount_prep, mounted_paths, at, kernel>>

PrepareStep ==
  \/ MountNext \/ MountFails \/ PrepareEnds
  \/ RollbackNext \/ RollbackFails \/ RollbackEnds

\* remove: the entry leaves the ledger before the umount, also when that fails.
\* An entry the ledger does not have throws std::logic_error.
RemoveOk(t) ==
  /\ InLedger(t)
  /\ mounted_paths' = Without(t)
  /\ Umount(t)
  /\ UNCHANGED <<mount_prep, at, status>>

RemoveFails(t) ==
  /\ InLedger(t)
  /\ "umount" \in Faults
  /\ mounted_paths' = Without(t)
  /\ UNCHANGED <<mount_prep, at, status, kernel>>

\* While the ledger is in use, what it lists is mounted, once, in the order of
\* the additions.
LedgerSound ==
  /\ status \in {"mounting", "ok"} =>
       \A t \in Targets : InLedger(t) => kernel[t] = 1
  /\ status = "rollback" =>
       \A i \in DOMAIN mounted_paths : i >= at => kernel[mounted_paths[i]] = 1

=============================================================================
