----------------------------- MODULE MCMfsTree -----------------------------
(* Three disks: an empty one, a directory in a directory, and two            *)
(* directories with a file.  The entries of a directory fill blocks of three. *)
EXTENDS Minls, TLC

E(i, n) == [ino |-> i, name |-> n]
Free == E(NO_ENTRY, "")
Fill(f, x) == f @@ [i \in Inodes |-> x]
Dir(nlinks, size) == [nlinks |-> nlinks, mode |-> "DIR", size |-> size]
File == [nlinks |-> 1, mode |-> "REG", size |-> 0]

Empty == [disk |-> Fill(1 :> Dir(2, 2), FreeInode),
          dir |-> Fill(1 :> <<E(1, "."), E(1, ".."), Free>>, <<>>),
          is_root |-> FALSE, open |-> <<>>]
Nested == [disk |-> Fill(1 :> Dir(3, 3) @@ 2 :> Dir(3, 3) @@ 3 :> Dir(2, 2), FreeInode),
           dir |-> Fill(1 :> <<E(1, "."), E(1, ".."), E(2, "a")>> @@
                        2 :> <<E(2, "."), E(1, ".."), E(3, "b")>> @@
                        3 :> <<E(3, "."), E(2, ".."), Free>>, <<>>),
           is_root |-> FALSE, open |-> <<2, 3>>]
Two == [disk |-> Fill(1 :> Dir(4, 4) @@ 2 :> Dir(2, 3) @@ 3 :> Dir(2, 2) @@ 4 :> File, FreeInode),
        dir |-> Fill(1 :> <<E(1, "."), E(1, ".."), E(3, "b"), E(2, "a"), Free, Free>> @@
                     2 :> <<E(2, "."), E(1, ".."), E(4, "b")>> @@
                     3 :> <<E(3, "."), E(1, ".."), Free>>, <<>>),
        is_root |-> TRUE, open |-> <<2, 3>>]
ThreeImages == {Empty, Nested, Two}
TwoTargets == {[abs |-> FALSE, path |-> <<"..", "a">>], [abs |-> TRUE, path |-> <<"b">>]}
SomePaths == {<<"a">>, <<"b">>, <<"..">>, <<"a", "b">>, <<"b", "..">>, <<"..", "a">>}
TwoQueries == {[root_ino |-> NO_ENTRY, ret_symlink |-> FALSE, denied |-> {}],
               [root_ino |-> ROOT_INODE, ret_symlink |-> TRUE, denied |-> {2}]}
View == <<m, held, calls>>
=============================================================================
