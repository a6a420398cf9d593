------------------------------- MODULE Minls -------------------------------
(***************************************************************************)
(* How minls and minget find a file by its path and list a directory       *)
(* (assn5/shared.c, path.c), on a disk that the file server of MfsTree has *)
(* written.  The tools do not know of mount points, permissions or links.  *)
(***************************************************************************)
EXTENDS MfsTree

NOT_FOUND == -1

\* The first entry of that name in the blocks, in use or not.
find_inode_num(entrys, name) ==
    LET js == {j \in DOMAIN entrys : entrys[j].name = name}
    IN IF js = {} THEN NOT_FOUND ELSE entrys[Min(js)].ino

\* From inode_num along the components of file_path; the inode before the
\* first, NOT_FOUND, is not one.
Get_Inode_Num(inode_num, file_path) ==
    FoldLeft(LAMBDA i, base_dir :
                 IF i \in Inodes THEN find_inode_num(m.dir[i], base_dir) ELSE NOT_FOUND,
             inode_num, file_path)

\* The entries in use are printed.
print_directory(i) ==
    SelectSeq(SubSeq(m.dir[i], 1, Current(m, i).size), LAMBDA e : e.ino # NO_ENTRY)

\* The tools find every file that the server's names lead to, although they
\* look at deleted entries too, and list each directory's names once
\* (shared.c:168-250; ENTER of search_dir, mfs/path.c:574-617).
ToolFindsNames ==
    \E E \in {Edges} : \A i \in {e[1] : e \in E} :
        /\ \A path \in Names \X (Names \cup {Dot, DotDot}) :
             \A j \in Tree!Follow(E, i, path) : j = Get_Inode_Num(i, path)
        /\ \A name \in Names :
             \A j \in Tree!Follow(E, i, <<name>>) : j = Get_Inode_Num(i, <<name>>)
        /\ {<<i, e.name, e.ino>> : e \in ToSet(print_directory(i))} = {e \in E : e[1] = i}
        /\ Len(print_directory(i)) = Cardinality({e \in E : e[1] = i})
=============================================================================
