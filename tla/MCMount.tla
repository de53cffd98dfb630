------------------------------ MODULE MCMount ------------------------------
EXTENDS Mount, TLC

(* Constants of the runs, too long for a .cfg file.                        *)

(* Every worker a process of its own, or all of them in the agent.         *)
OneEach == [w \in Workers |-> w]
AgentOnly == [w \in Workers |-> "agent"]

(* /mnt/a and /mnt/a/ name one directory; the kernel shows the space of a    *)
(* mount point as \040.                                                    *)
MCDirOf == [p \in Points |-> CASE p = "/mnt/a/" -> "/mnt/a"
                               [] OTHER        -> p]
MCShown == [d \in Dirs |-> CASE d = "/mnt/my disk" -> "/mnt/my\\040disk"
                             [] OTHER             -> d]

(* A share may be written without its slashes. *)
MCNormal == [s \in Sources |-> IF s = "s/x" THEN "//s/x" ELSE s]

MountOf(point, source, persistent) ==
    [op |-> "mount", point |-> point, source |-> source, cifs |-> FALSE,
     persistent |-> persistent, secret |-> NoSecret, opts |-> "plain"]
Cifs(point, source, persistent, secret, opts) ==
    [MountOf(point, source, persistent) EXCEPT
        !.cifs = TRUE, !.secret = secret, !.opts = opts]
UmountOf(point) == [op |-> "umount", point |-> point]

(* An fstab with a comment and an entry for /mnt/b. *)
Lines == << [point |-> NoPoint, source |-> "sdb", creds |-> FALSE],
            [point |-> "/mnt/b", source |-> "sdb", creds |-> FALSE] >>

(* Local and CIFS mounts on two directories, some that cannot be stored.    *)
AllRequests ==
    { MountOf("/mnt/a", "sdb", TRUE), Cifs("/mnt/a", "//s/x", TRUE, "bob", "plain"),
      Cifs("/mnt/a", "s/x", TRUE, "eve", "plain"), Cifs("/mnt/b", "//s/x", FALSE, "bob", "inline"),
      Cifs("/mnt/b", "//s/x", TRUE, "bob", "inline"), Cifs("/mnt/b", "//s/x", TRUE, "eve", "plain"), Cifs("/mnt/b", "/x", FALSE, NoSecret, "plain"),
      UmountOf("/mnt/a"), UmountOf("/mnt/b") }

(* Persistent mounts that fight over one credentials file and one fstab.    *)
Persistent ==
    { MountOf("/mnt/a", "sdb", TRUE), Cifs("/mnt/a", "//s/x", TRUE, "bob", "plain"),
      Cifs("/mnt/b", "//s/x", TRUE, "eve", "plain"), UmountOf("/mnt/a") }
=============================================================================
