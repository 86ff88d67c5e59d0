---------------------------- MODULE MCMountTable ----------------------------
(* Constants for the model checking of MountTable.                         *)
EXTENDS MountTable, FiniteSets

CONSTANTS root, mnt, latin, sda, sdb, tmpfs

On(path, fs) == [path |-> path, fs |-> fs]

\* A mount point whose name is not UTF-8.
Latin == {On(latin, tmpfs)}

\* One mount point changes hands and is mounted over, by a disk and by what is
\* skipped, behind another one that comes and goes.
MCPiece == {On(root, sda), On(root, sdb), On(root, tmpfs), On(mnt, tmpfs)} \union Latin

Disks == Permutations({sda, sdb})

=============================================================================
