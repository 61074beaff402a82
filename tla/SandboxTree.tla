----------------------------- MODULE SandboxTree -----------------------------
(***************************************************************************)
(* The walks over the folders of a workspace: the tree that is shown, the  *)
(* search for a text, and the size that is held against the quota. Each    *)
(* stops early at a limit, and the first two say so; but the tree also     *)
(* stops at a depth, and of that it says nothing.                          *)
(*                                                                         *)
(* A folder is the sequence of its children in the order of their names. A *)
(* child has a kind: "dir", "file" or "skip" (a link, a file with a second *)
(* name, or gone when it is opened); it may have a hidden name; a file has *)
(* a size, and has the text searched for on as many lines as its size.     *)
(***************************************************************************)
EXTENDS Naturals, SequencesExt

CONSTANTS
    MaxDepth,    \* MAX_DEPTH of the tree
    MaxEntries,  \* MAX_ENTRIES of the tree
    MaxResults,  \* the limit of a search
    TooLarge,    \* MAX_FILE_SIZE: larger files are not searched
    StopAfter    \* the quota

VARIABLE folder  \* the workspace that is walked

Leaf(kind, size, hidden) == [kind |-> kind, size |-> size, hidden |-> hidden, children |-> <<>>]
Leaves == {Leaf("skip", 1, FALSE), Leaf("file", 1, TRUE), Leaf("file", 1, FALSE),
           Leaf("file", TooLarge + 1, FALSE)}
UpTo2(S) == {<<>>} \cup {<<x>> : x \in S} \cup {<<x, y>> : x \in S, y \in S}
Folder(hidden, children) == [kind |-> "dir", size |-> 0, hidden |-> hidden, children |-> children]
Subfolders(below) == {Folder(FALSE, c) : c \in UpTo2(below)} \cup {Folder(TRUE, <<x>>) : x \in below}
Nested(below) == {Folder(FALSE, <<Folder(FALSE, <<x>>)>>) : x \in below}

TreeInit == folder = <<>>

\* Something is added at the end of the workspace, which is then walked.
Grow == /\ Len(folder) < 3
        /\ \E x \in Leaves \cup Subfolders(Leaves) \cup Nested(Leaves) : folder' = Append(folder, x)

TreeSpec == TreeInit /\ [][Grow]_folder

Indices(s) == [i \in 1..Len(s) |-> i]

-----------------------------------------------------------------------------
(* tree                                                                     *)

TooMany(count) == count > MaxEntries \* mutant
Full(count) == count >= MaxEntries

RECURSIVE TreeWalk(_, _, _, _)
TreeWalk(children, at, depth, start) ==
    IF depth > MaxDepth THEN start
    ELSE FoldLeft(LAMBDA acc, i :
            LET child == children[i]
                seen == [acc EXCEPT !.count = @ + 1, !.shown = @ \cup {Append(at, i)}]
            IN  IF Full(acc.count) THEN [acc EXCEPT !.truncated = TRUE]
                ELSE IF child.hidden \/ child.kind = "skip" THEN acc
                ELSE IF child.kind = "dir" THEN TreeWalk(child.children, Append(at, i), depth + 1, seen)
                ELSE seen,
         start, Indices(children))

Tree == TreeWalk(folder, <<>>, 0, [count |-> 0, truncated |-> FALSE, shown |-> {}])

-----------------------------------------------------------------------------
(* search: found counts lines.                                              *)

RECURSIVE SearchWalk(_, _)
SearchWalk(children, start) ==
    FoldLeft(LAMBDA acc, child :
        IF acc.found >= MaxResults THEN [acc EXCEPT !.truncated = TRUE]
        ELSE IF child.hidden \/ child.kind = "skip" THEN acc
        ELSE IF child.kind = "dir" THEN SearchWalk(child.children, acc)
        ELSE IF child.size > TooLarge THEN acc
        ELSE IF acc.found + child.size >= MaxResults THEN [found |-> MaxResults, truncated |-> TRUE]
        ELSE [acc EXCEPT !.found = @ + child.size],
    start, children)

Search == SearchWalk(folder, [found |-> 0, truncated |-> FALSE])

-----------------------------------------------------------------------------
(* managed_size: hidden names count, and the walk stops above the quota.    *)

RECURSIVE SizeWalk(_, _)
SizeWalk(children, start) ==
    FoldLeft(LAMBDA total, child :
        IF total > StopAfter \/ child.kind = "skip" THEN total
        ELSE IF child.kind = "dir" THEN SizeWalk(child.children, total)
        ELSE total + child.size,
    start, children)

ManagedSize == SizeWalk(folder, 0)

-----------------------------------------------------------------------------
(* What the walks are to find, without limits.                              *)

RECURSIVE Visible(_, _)
Visible(children, at) ==
    UNION {LET child == children[i] IN
           IF child.hidden \/ child.kind = "skip" THEN {}
           ELSE {Append(at, i)} \cup Visible(child.children, Append(at, i))
           : i \in 1..Len(children)}

\* Below the children of the folders MaxDepth levels down.
TooDeep == {p \in Visible(folder, <<>>) : Len(p) > MaxDepth + 1}

Searched(child) == ~child.hidden /\ (child.kind = "file" => child.size <= TooLarge)

\* The sizes of the files: all of them, or those that are searched.
RECURSIVE SumOf(_, _)
SumOf(children, all) ==
    FoldLeft(LAMBDA total, child :
        IF child.kind = "skip" \/ ~(all \/ Searched(child)) THEN total
        ELSE total + child.size + SumOf(child.children, all),
    0, children)

(* A search that does not say it is cut short has found everything, and a    *)
(* tree that does not say so lacks what lies too deep, which it never says,  *)
(* and nothing else; neither has more than its limit, and a tree that says   *)
(* it was cut is full. The quota is held against the true size, though the   *)
(* walk stops as soon as it is above.                                        *)
WalksLackOnlyTheDeep ==
    /\ Tree.shown \subseteq Visible(folder, <<>>)
    /\ Tree.count = Cardinality(Tree.shown) /\ Tree.count <= MaxEntries
    /\ IF Tree.truncated THEN Tree.count = MaxEntries
       ELSE Visible(folder, <<>>) \ Tree.shown = TooDeep
    /\ Search.found <= MaxResults
    /\ ~Search.truncated => Search.found = SumOf(folder, FALSE)
    /\ ManagedSize <= StopAfter => ManagedSize = SumOf(folder, TRUE)
    /\ ManagedSize > StopAfter <=> SumOf(folder, TRUE) > StopAfter
=============================================================================
