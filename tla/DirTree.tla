------------------------------ MODULE DirTree ------------------------------
(***************************************************************************)
(* What the file server promises of names: a tree of directories in which  *)
(* each name is bound once, and requests that change it as they say or,    *)
(* when they fail, not at all.  An edge is a directory, a name and what it *)
(* names; `.' and `..' are edges.                                          *)
(***************************************************************************)
EXTENDS Integers, Sequences, FiniteSets

CONSTANTS Inodes, Root

VARIABLES edges,    \* the bindings
          used,     \* inodes that are named, or in use though their name is gone
          reply     \* the last request with its answer

vars == <<edges, used, reply>>

Dots == {".", ".."}
Named(E, d, name) == {e \in E : e[1] = d /\ e[2] = name}
Children(E, d) == {e \in E : e[1] = d /\ e[2] \notin Dots}
IsDir(E, i) == \E e \in E : e[1] = i /\ e[2] = "."

\* The directories above d, d included.
Ancestors(E, d) ==
    LET down == {e \in E : e[2] \notin Dots}
        above[n \in Nat] ==
            IF n = 0 THEN {d}
            ELSE LET below == above[n - 1]
                 IN below \cup {e[1] : e \in {f \in down : f[3] \in below}}
    IN above[Cardinality(Inodes)]

\* A directory tree: one binding of a name, one parent of a directory, which
\* is its `..'; all directories below the root.
TreeOf(E) ==
    LET dirs == {e[1] : e \in E}
        up(d) == {e \in E : e[3] = d /\ e[2] \notin Dots}
    IN /\ Cardinality({<<e[1], e[2]>> : e \in E}) = Cardinality(E)
       /\ \A d \in dirs : {e \in E : e[1] = d /\ e[2] = "."} = {<<d, ".", d>>}
       /\ \A d \in dirs \ {Root} :
            /\ Cardinality(up(d)) = 1 /\ Root \in Ancestors(E, d)
            /\ \A e \in E : e[1] = d /\ e[2] = ".." => \A f \in up(d) : e[3] = f[1]
IsTree == \E E \in {edges} : TreeOf(E)

Init == IsTree /\ used = {Root} \cup {e[3] : e \in edges} /\ reply = [op |-> "none", r |-> "OK"]

\* A request takes the edges E to the edges F.
New(E, d, name, i) ==
    /\ Named(E, d, name) = {} /\ IsDir(E, d) /\ i \notin used
Create(E, F, d, name, i) == New(E, d, name, i) /\ F = E \cup {<<d, name, i>>}
Mkdir(E, F, d, name, i) ==
    /\ New(E, d, name, i)
    /\ F = E \cup {<<d, name, i>>, <<i, ".", i>>, <<i, "..", d>>}
Link(E, F, d, name, i) ==
    /\ Named(E, d, name) = {} /\ IsDir(E, d) /\ ~IsDir(E, i) /\ i \in used
    /\ F = E \cup {<<d, name, i>>}
Unlink(E, F, d, name) ==
    /\ \E e \in Named(E, d, name) : ~IsDir(E, e[3])
    /\ F = E \ Named(E, d, name)
Rmdir(E, F, d, name) ==
    \E e \in Named(E, d, name) :
        /\ name \notin Dots /\ IsDir(E, e[3]) /\ Children(E, e[3]) = {}
        /\ F = E \ ({e} \cup {f \in E : f[1] = e[3]})

\* What the new name named is replaced; a directory takes its `..' along.
Rename(E, F, od, oname, nd, nname) ==
    \E e \in Named(E, od, oname) :
        LET i == e[3]
            old == Named(E, nd, nname)
            moved == {f \in E : f[1] = i /\ f[2] = ".."}
        IN IF \E f \in old : f[3] = i THEN F = E
           ELSE /\ {oname, nname} \cap Dots = {} /\ IsDir(E, nd)
                /\ IsDir(E, i) => i \notin Ancestors(E, nd)
                /\ \A f \in old : IsDir(E, f[3]) = IsDir(E, i) /\ Children(E, f[3]) = {}
                /\ F = (E \ ({e} \cup moved \cup old
                              \cup {g \in E : \E f \in old : g[1] = f[3]}))
                       \cup {<<nd, nname, i>>} \cup {<<i, "..", nd>> : f \in moved}

\* Where a path of plain names leads.
Follow(E, d, path) ==
    LET step[n \in 0..Len(path)] ==
            IF n = 0 THEN {d}
            ELSE LET here == step[n - 1]
                 IN {e[3] : e \in {f \in E : f[1] \in here /\ f[2] = path[n]}}
    IN step[Len(path)]

Request(E, F) ==
    CASE reply'.op = "lookup"    -> /\ F = E
                                    /\ reply'.r = "OK" <=> Follow(E, reply'.d, reply'.path) # {}
                                    /\ reply'.r = "OK" =>
                                         Follow(E, reply'.d, reply'.path) = {reply'.i}
      [] reply'.r # "OK"         -> F = E
      [] reply'.op = "create"    -> Create(E, F, reply'.d, reply'.name, reply'.i)
      [] reply'.op = "mkdir"     -> Mkdir(E, F, reply'.d, reply'.name, reply'.i)
      [] reply'.op = "link"      -> Link(E, F, reply'.d, reply'.name, reply'.i)
      [] reply'.op = "unlink"    -> Unlink(E, F, reply'.d, reply'.name)
      [] reply'.op = "rmdir"     -> Rmdir(E, F, reply'.d, reply'.name)
      [] reply'.op = "rename"    -> Rename(E, F, reply'.d, reply'.name, reply'.nd, reply'.nname)
      [] OTHER                   -> F = E

\* What is named stays in use; what is no longer named is used or not as its
\* last user decides, and is not named again.
Step(E, F) ==
    LET names(G) == {e[3] : e \in G}
    IN /\ Request(E, F)
       /\ names(F) \subseteq used' /\ names(F \ E) \cap used \subseteq names(E)

Next == \E E \in {edges}, F \in {edges'} : Step(E, F)

Spec == Init /\ [][Next]_vars
=============================================================================
