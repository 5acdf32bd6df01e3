------------------------------ MODULE WorkspacePaths -------------------------------
(* Which paths of the workspace a tool may touch                                   *)
(* (src/src/adapters/workspace/workspace_path_policy.cpp).  A path text is the     *)
(* sequence of the parts between its slashes; a tree maps the paths that exist to  *)
(* their nodes.  A symbolic link is never followed, so canonical paths are the     *)
(* paths themselves.                                                               *)
EXTENDS Naturals, Sequences, SequencesExt

CONSTANTS
  Folded(_), \* ascii_lower of a name
  Temps,     \* names that begin with .agent-tmp-
  Runtime    \* where runtime_root_ lies: paths of the workspace, {} when outside of it

ASSUME TemporariesAreLowerCase == \A name \in Temps : Folded(name) \in Temps

ProtectedNames == {".git", ".worktrees", ".agent", ".rag", "runtime_data"}
EnvironmentLeaves == {".env", ".env.local"}          \* .env and .env.*, but .env.example
CredentialLeaves == {".git-credentials", ".netrc", "_netrc", ".npmrc", ".pypirc"}

(* Parts no path may have: empty (a slash first, last or doubled), dots, and what   *)
(* the first condition of parse refuses.                                            *)
Unusable == {"", ".", "..", "back\\slash", "C:", "not utf-8", "longer than 255"}

IsFault(outcome) == outcome \in
  {"invalid_arguments", "access_denied", "not_found", "conflict", "unsupported_file",
   "limit_exceeded", "io_error"}

parse(text) ==
  IF text = <<".">> THEN [ok |-> TRUE, path |-> <<>>]
  ELSE [ok |-> \A i \in 1..Len(text) : text[i] \notin Unusable, path |-> text]

is_protected(path) ==
  \/ \E i \in 1..Len(path) : Folded(path[i]) \in ProtectedNames
  \/ /\ path # <<>>
     /\ Folded(Last(path)) \in EnvironmentLeaves \cup CredentialLeaves \cup Temps
  \/ \E root \in Runtime : IsPrefix(root, path)

Node(kind, links, text) == [kind |-> kind, links |-> links, text |-> text]

(* What a path can lead to; a path that is not there is not in the tree.           *)
NodeKinds == {"file", "dir", "link", "dangling"}
IsNode(node) == node.kind \in NodeKinds /\ node = Node(node.kind, node.links, node.text)

Directory == Node("dir", 1, <<>>)
File(text) == Node("file", 1, text)
Linked(text) == Node("file", 2, text)   \* a file that has another name

(* The tree with this node at the path, in place of what was there. *)
Put(tree, path, node) == [p \in DOMAIN tree \cup {path} |-> IF p = path THEN node ELSE tree[p]]

KindAt(tree, path) == IF path \in DOMAIN tree THEN tree[path].kind ELSE "absent"

(* The first part of the path that is missing or a link decides; a link that leads *)
(* nowhere does not exist.                                                         *)
resolve_existing(tree, path, require_directory) ==
  LET KindUpTo(i) == KindAt(tree, SubSeq(path, 1, i))
      Stops == {i \in 0..Len(path) : KindUpTo(i) \in {"absent", "dangling", "link"}}
  IN IF is_protected(path) THEN "access_denied"
     ELSE IF KindAt(tree, <<>>) \notin {"dir", "absent", "link", "dangling"} THEN "unsupported_file"
     ELSE IF Stops # {}
     THEN LET stop == CHOOSE i \in Stops : \A j \in Stops : i <= j
          IN IF KindUpTo(stop) = "link" THEN "access_denied" ELSE "not_found"
     ELSE IF require_directory
     THEN IF KindAt(tree, path) = "dir" THEN "found" ELSE "unsupported_file"
     ELSE IF KindAt(tree, path) # "file" THEN "unsupported_file"
     ELSE IF tree[path].links # 1 THEN "access_denied" ELSE "found"

resolve_parent(tree, path) ==
  IF path = <<>> \/ is_protected(path) THEN "access_denied"
  ELSE resolve_existing(tree, Front(path), TRUE)
================================================================================
