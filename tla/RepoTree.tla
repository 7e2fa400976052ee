------------------------------ MODULE RepoTree ------------------------------
(***************************************************************************)
(* build_repo_list (src/scanner/list.cpp) and ignore::matches              *)
(* (src/ignore_utils.cpp): which directories below the roots are           *)
(* monitored.                                                              *)
(*                                                                         *)
(* A path is a sequence of names, the first of them "." if it is relative. *)
(* disk maps every path that exists, without links on the way to it, to a  *)
(* directory, with or without a git repository, a file, or a symbolic link *)
(* with the path it resolves to in the end. The list spells a directory as *)
(* the program found it: [name, real] is a path with the place it leads    *)
(* to. A directory is read in an order the system does not fix; one order  *)
(* stands for all, as the lists are sorted or taken in any order later.    *)
(***************************************************************************)
EXTENDS Naturals, SequencesExt, FiniteSetsExt

Dir == [kind |-> "dir", repo |-> FALSE]
Repo == [kind |-> "dir", repo |-> TRUE]
File == [kind |-> "file"]
Link(target) == [kind |-> "link", target |-> target]

\* Finitely many paths, each of them one of these.
IsTree(disk) ==
  /\ IsFiniteSet(DOMAIN disk)
  /\ \A p \in DOMAIN disk : disk[p] \in {Dir, Repo, File} \/ disk[p] = Link(disk[p].target)

Kind(disk, p) == IF p \in DOMAIN disk THEN disk[p].kind ELSE "none"

Resolved(disk, p) == IF Kind(disk, p) = "link" THEN disk[p].target ELSE p

\* The current directory.
Here == <<"cwd">>

\* fs::weakly_canonical, of a path that meets at most one link.
Real(disk, p) ==
  LET q == IF p # <<>> /\ Head(p) = "." THEN Here \o Tail(p) ELSE p
      links == {n \in 1..Len(q) : Kind(disk, SubSeq(q, 1, n)) = "link"}
  IN  IF links = {} THEN q
      ELSE Resolved(disk, SubSeq(q, 1, Min(links))) \o SubSeq(q, Min(links) + 1, Len(q))

\* fs::is_directory follows links.
IsDirectory(disk, p) == Kind(disk, Real(disk, p)) = "dir"

within_root(root, p) == IsPrefix(root, p)

\* ignore::matches.  A pattern with a slash is compared with the whole path, any
\* other with the last name; covers is what it matches: itself, or what fnmatch
\* takes its wildcards for.
matches(p, ignore) ==
  \E i \in DOMAIN ignore :
    (IF ignore[i].whole THEN p ELSE <<Last(p)>>) \in ignore[i].covers

\* The iterator names what it meets after the root it was given, base being where
\* that root leads to.
Named(root, base, p) == root \o SubSeq(p, Len(base) + 1, Len(p))

\* The entries it meets: those whose parents are real directories that nothing kept it
\* from entering.
Entries(disk, root, recursive, ignore, max_depth) ==
  LET base == Real(disk, root)
      Entered(p) == /\ Kind(disk, p) = "dir"
                    /\ max_depth = 0 \/ Len(p) - Len(base) <= max_depth
                    /\ ~matches(Named(root, base, p), ignore)
  IN  {p \in DOMAIN disk :
         /\ IsStrictPrefix(base, p)
         /\ recursive \/ Len(p) = Len(base) + 1
         /\ \A n \in Len(base) + 1..Len(p) - 1 : Entered(SubSeq(p, 1, n))}

\* How an entry is listed: a link as the path it leads to, all others as they are named.
Shown(disk, root, p) ==
  [name |-> IF Kind(disk, p) = "link" THEN Resolved(disk, p) ELSE Named(root, Real(disk, root), p),
   real |-> Resolved(disk, p)]

\* Mutation: a link is not looked at, so what it leads to is listed.
ListedAnywhere(disk, root, p, recursive, ignore, max_depth) ==
  /\ recursive /\ max_depth > 0 => Len(p) - Len(Real(disk, root)) <= max_depth
  /\ Kind(disk, Resolved(disk, p)) = "dir"
  /\ ~matches(Shown(disk, root, p).name, ignore)

\* Is an entry listed?  A link is if what it leads to lies within the root, wherever
\* that is.
Listed(disk, root, p, recursive, ignore, max_depth) ==
  /\ Kind(disk, p) = "link" => within_root(Real(disk, root), Resolved(disk, p))
  /\ recursive /\ max_depth > 0 => Len(p) - Len(Real(disk, root)) <= max_depth
  /\ Kind(disk, Resolved(disk, p)) = "dir"
  /\ ~matches(Shown(disk, root, p).name, ignore)

build_repo_list(disk, roots, recursive, ignore, max_depth) ==
  LET IsFound(i, p) ==
        /\ IsDirectory(disk, roots[i])
        /\ p \in Entries(disk, roots[i], recursive, ignore, max_depth)
        /\ Listed(disk, roots[i], p, recursive, ignore, max_depth)
      found == {at \in (DOMAIN roots) \X DOMAIN disk : IsFound(at[1], at[2])}
      order == SetToSeq(found)
  IN  [j \in DOMAIN order |-> Shown(disk, roots[order[j][1]], order[j][2])]

\* prepare_repos: the root alone, or what lies below it and the directories to
\* include.  How the list is sorted is left out.
prepare_repos(disk, root, include_dirs, single, recursive, ignore, max_depth) ==
  IF single THEN <<[name |-> root, real |-> Real(disk, root)]>>
  ELSE build_repo_list(disk, <<root>> \o include_dirs, recursive, ignore, max_depth)

\* Is what a path leads to a git repository?
IsRepo(disk, path) == path.real \in DOMAIN disk /\ disk[path.real] = Repo
=============================================================================
