------------------------------- MODULE WorkspaceFiles ------------------------------
(* replace_text and write_file of the workspace gateway, step by step, beside      *)
(* another program that changes the same files                                     *)
(* (src/src/adapters/workspace/workspace_file_ops.cpp, workspace_tool_gateway.cpp).*)
(*                                                                                 *)
(* A file is replaced by writing a temporary file beside it, checking the target   *)
(* again and moving the temporary over it.  Nothing is locked: every step is one   *)
(* system call, or one that nothing can be seen between, and the other program may *)
(* act before each of them.  SHA-256 is taken to tell texts apart, so a hash is    *)
(* the text it is the hash of.                                                     *)
EXTENDS WorkspacePaths, WorkspaceText

CONSTANTS
  Hosts,            \* which implementations of the last steps: "windows", "posix"
  Requests,         \* calls: see Replace and Write
  Edits,            \* changes by another program: a path and a node, Gone to remove it
  MaxTextFileBytes, \* kMaxTextFileBytes
  MaxAnswerBytes,   \* kMaxResultBytes: the texts an answer can show
  MaxAttempts,      \* tries for the name of a temporary file (32)
  MaxEdits,         \* bound: changes by the other program
  MaxKills          \* bound: ends of this program

ASSUME FilesParameters ==
  /\ Hosts \subseteq {"windows", "posix"}
  /\ MaxTextFileBytes \in Nat /\ MaxAnswerBytes \in Nat /\ MaxAttempts \in Nat \ {0}
  /\ MaxEdits \in Nat /\ MaxKills \in Nat

Gone == Node("absent", 0, <<>>)

Replace(path, old, new, occurrences, expected) ==
  [tool |-> "replace_text", path |-> path, old |-> old, new |-> new,
   occurrences |-> occurrences, expected |-> expected]
Write(path, content, create, expected) ==
  [tool |-> "write_file", path |-> path, content |-> content, create |-> create,
   expected |-> expected]

NoHash == "none"          \* expected_sha256 is absent

IsRequest(r) ==
  /\ r.path \in Seq(STRING)
  /\ IF r.tool = "replace_text"
     THEN r = Replace(r.path, r.old, r.new, r.occurrences, r.expected)
     ELSE r = Write(r.path, r.content, r.create, r.expected)

(* Another program leaves names that begin with .agent-tmp- alone. *)
ASSUME RequestsAndEdits ==
  /\ \A request \in Requests : IsRequest(request)
  /\ \A e \in Edits :
       /\ e.node = Gone \/ IsNode(e.node)
       /\ e.path # <<>> => e.path[Len(e.path)] \notin Temps

VARIABLES
  host,   \* the implementation that was built; never changes
  tree,   \* the workspace
  op,     \* the call that runs, and what it holds
  late,   \* history: the target was changed after the second look at its hash
  lost,   \* history: what a call put its file over unasked: "nothing", "late" or "early"
  edits, kills

fileVars == <<host, tree, op, late, lost, edits, kills>>

NoRequest == [tool |-> "none"]
Idle == [pc |-> "idle", request |-> NoRequest, made |-> <<>>, temporary |-> <<>>,
         tries |-> 0, installed |-> FALSE, answer |-> "none"]

FilesInit ==
  /\ host \in Hosts
  /\ op = Idle /\ late = FALSE /\ lost = "nothing"
  /\ edits = 0 /\ kills = 0

Creates(request) == request.tool = "write_file" /\ request.create

(* What the handler and the operation refuse before they look at a file. *)
Refused(request) ==
  LET parsed == parse(request.path)
      Invalid ==
        IF request.tool = "replace_text"
        THEN \/ request.old = <<>> \/ ~is_strict_utf8_text(request.old)
             \/ ~is_strict_utf8_text(request.new)
             \/ request.occurrences = 0
        ELSE \/ ~is_strict_utf8_text(request.content)
             \/ parsed.path = <<>>
             \/ request.create <=> request.expected # NoHash
      Text == IF request.tool = "replace_text" THEN request.new ELSE request.content
  IN IF ~parsed.ok \/ Invalid THEN "invalid_arguments"
     ELSE IF Len(Text) > MaxTextFileBytes THEN "limit_exceeded"
     ELSE "accepted"

Answers(code) == op' = [op EXCEPT !.pc = "answered", !.answer = code]

Begin(request) ==
  /\ op.pc \in {"idle", "answered"}
  /\ op' = IF Refused(request) # "accepted"
           THEN [Idle EXCEPT !.pc = "answered", !.answer = Refused(request), !.request = request]
           ELSE [Idle EXCEPT !.pc = "resolve", !.request = [request EXCEPT !.path = parse(@).path]]
  /\ late' = FALSE
  /\ UNCHANGED <<host, tree, lost, edits, kills>>

Target == op.request.path
TextAt(path) == tree[path].text

ResolveTarget ==
  /\ op.pc = "resolve" /\ ~Creates(op.request)
  /\ LET found == resolve_existing(tree, Target, FALSE)
     IN IF IsFault(found) THEN Answers(found) ELSE op' = [op EXCEPT !.pc = "load"]
  /\ UNCHANGED <<host, tree, late, lost, edits, kills>>

(* exists follows a link, so one that leads nowhere is found only by the link call. *)
ResolveParent ==
  /\ op.pc = "resolve" /\ Creates(op.request)
  /\ LET found == resolve_parent(tree, Target)
     IN IF IsFault(found) THEN Answers(found)
        ELSE IF KindAt(tree, Target) \notin {"absent", "dangling"} THEN Answers("conflict")
        ELSE op' = [op EXCEPT !.pc = "write", !.made = op.request.content]
  /\ UNCHANGED <<host, tree, late, lost, edits, kills>>

(* load_text_file: a fault, or "loaded". *)
Loaded(path) ==
  IF KindAt(tree, path) # "file" THEN "io_error"
  ELSE IF Len(TextAt(path)) > MaxTextFileBytes THEN "limit_exceeded"
  ELSE IF ~is_strict_utf8_text(TextAt(path)) THEN "unsupported_file"
  ELSE "loaded"

(* The file is read: its hash must be the one the caller saw, and the text to      *)
(* replace must occur as often as the caller counted.                              *)
NewText(request, current) ==
  IF request.tool = "write_file" THEN request.content
  ELSE Replaced(current, literal_matches(current, request.old, TRUE), Len(request.old), request.new)

LoadTarget ==
  /\ op.pc = "load"
  /\ \/ Answers("io_error")
     \/ IF IsFault(Loaded(Target)) THEN Answers(Loaded(Target))
        ELSE IF TextAt(Target) # op.request.expected THEN Answers("conflict")
        ELSE LET current == TextAt(Target)
                 made == NewText(op.request, current)
             IN IF /\ op.request.tool = "replace_text"
                   /\ Len(literal_matches(current, op.request.old, TRUE)) # op.request.occurrences
                THEN Answers("conflict")
                ELSE IF Len(made) > MaxTextFileBytes THEN Answers("limit_exceeded")
                ELSE op' = [op EXCEPT !.pc = "write", !.made = made]
  /\ UNCHANGED <<host, tree, late, lost, edits, kills>>

Beside(path, name) == Append(Front(path), name)
Without(path) == Restrict(tree, DOMAIN tree \ {path})

(* write_exclusive with a new name, until one is free; a write that fails removes  *)
(* what it wrote.                                                                  *)
WriteTemporary(name) ==
  /\ op.pc = "write"
  /\ LET temporary == Beside(Target, name)
     IN \/ Answers("io_error") /\ UNCHANGED tree
        \/ /\ KindAt(tree, temporary) # "absent"
           /\ IF op.tries + 1 = MaxAttempts THEN Answers("io_error")
              ELSE op' = [op EXCEPT !.tries = @ + 1]
           /\ UNCHANGED tree
        \/ /\ KindAt(tree, temporary) = "absent" /\ KindAt(tree, Front(Target)) = "dir"
           /\ tree' = Put(tree, temporary, File(op.made))
           /\ op' = [op EXCEPT !.pc = IF Creates(op.request) THEN "install" ELSE "check",
                               !.temporary = temporary]
  /\ UNCHANGED <<host, late, lost, edits, kills>>

(* Mutant: the guard lets go of the file before the move is made. *)
GiveUpReleased(code) == tree' = tree /\ Answers(code)

(* The guard of the temporary file removes it on every way out of install_file but *)
(* a completed move.                                                               *)
GiveUp(code) ==
  /\ tree' = Without(op.temporary)
  /\ Answers(code)

(* Mutant: the second look is not at the hash. *)
TrustworthyKind ==
  IF Target \notin DOMAIN tree THEN "not_found"
  ELSE IF KindAt(tree, Target) # "file" \/ tree[Target].links # 1 THEN "access_denied"
  ELSE "trustworthy"

(* trustworthy_overwrite_target. *)
Trustworthy ==
  IF Target \notin DOMAIN tree THEN "not_found"
  ELSE IF KindAt(tree, Target) # "file" \/ tree[Target].links # 1 THEN "access_denied"
  ELSE IF IsFault(Loaded(Target)) THEN Loaded(Target)
  ELSE IF TextAt(Target) # op.request.expected THEN "conflict"
  ELSE "trustworthy"

(* The temporary file is read back and the target looked at a second time. *)
CheckAgain ==
  /\ op.pc = "check"
  /\ \/ GiveUp("io_error") /\ UNCHANGED late
     \/ IF IsFault(Trustworthy) THEN GiveUp(Trustworthy) /\ UNCHANGED late
        ELSE op' = [op EXCEPT !.pc = "install"] /\ late' = FALSE /\ UNCHANGED tree
  /\ UNCHANGED <<host, lost, edits, kills>>

Losing ==
  IF Target \notin DOMAIN tree THEN lost
  ELSE IF Creates(op.request) THEN "early"
  ELSE IF tree[Target] = File(op.request.expected) THEN lost
  ELSE IF late THEN "late" ELSE "early"

(* The move over the target: it replaces a link and not what the link leads to, and *)
(* fails over a directory.                                                         *)
InstallOver ==
  /\ op.pc = "install" /\ ~Creates(op.request)
  /\ \/ GiveUp("io_error") /\ UNCHANGED lost
     \/ /\ KindAt(tree, Target) # "dir"
        /\ lost' = Losing
        /\ tree' = Put(Without(op.temporary), Target, File(op.made))
        /\ op' = [op EXCEPT !.pc = "reread", !.installed = TRUE]
  /\ UNCHANGED <<host, late, edits, kills>>

(* A file is created without replacing one: by a move that may not replace, or by  *)
(* a second link to the temporary file and the removal of the first.               *)
Present == KindAt(tree, Target) # "absent"

InstallNew ==
  /\ op.pc = "install" /\ Creates(op.request)
  /\ \/ GiveUp("io_error") /\ UNCHANGED lost
     \/ Present /\ GiveUp("conflict") /\ UNCHANGED lost
     \/ /\ ~Present
        /\ lost' = Losing
        /\ IF host = "windows"
           THEN tree' = Put(Without(op.temporary), Target, File(op.made))
           ELSE tree' = Put(Put(tree, op.temporary, Linked(op.made)), Target, Linked(op.made))
        /\ op' = [op EXCEPT !.pc = IF host = "windows" THEN "reread" ELSE "unlink", !.installed = TRUE]
  /\ UNCHANGED <<host, late, edits, kills>>

(* A failure here leaves both names and is thrown. *)
UnlinkTemporary ==
  /\ op.pc = "unlink"
  /\ \/ Answers("untrusted") /\ UNCHANGED tree
     \/ /\ tree' = [p \in DOMAIN tree \ {op.temporary} |->
                      IF p = Target /\ tree[p] = Linked(op.made) THEN File(op.made)
                      ELSE tree[p]]
        /\ op' = [op EXCEPT !.pc = "reread"]
  /\ UNCHANGED <<host, late, lost, edits, kills>>

(* The answer shows the texts. *)
Shown(request) ==
  IF request.tool = "replace_text" THEN Len(request.old) + Len(request.new)
  ELSE Len(request.content)

(* Mutant: a file that is not the new text is reported as a conflict. *)
RereadConflict ==
  /\ op.pc = "reread"
  /\ IF Loaded(Target) # "loaded" \/ TextAt(Target) # op.made THEN Answers("conflict")
     ELSE IF Shown(op.request) > MaxAnswerBytes THEN Answers("limit_exceeded")
     ELSE Answers("written")
  /\ UNCHANGED <<host, tree, late, lost, edits, kills>>

(* The file is read again.  What is not the new text is an error of the gateway    *)
(* ("could not produce a trustworthy result") and not an answer of the tool; an    *)
(* answer that is too long is an error of the tool, after the file was written.    *)
Reread ==
  /\ op.pc = "reread"
  /\ IF Loaded(Target) # "loaded" \/ TextAt(Target) # op.made THEN Answers("untrusted")
     ELSE IF Shown(op.request) > MaxAnswerBytes THEN Answers("limit_exceeded")
     ELSE Answers("written")
  /\ UNCHANGED <<host, tree, late, lost, edits, kills>>

(* Another program. *)
Edit(path, node) ==
  /\ edits < MaxEdits
  /\ KindAt(tree, Front(path)) = "dir"
  /\ IF path \in DOMAIN tree THEN tree[path] # node ELSE node # Gone
  /\ tree' = IF node = Gone THEN Without(path) ELSE Put(tree, path, node)
  /\ edits' = edits + 1
  /\ late' = (late \/ (op.pc = "install" /\ path = Target))
  /\ UNCHANGED <<host, op, lost, kills>>

FileStep ==
  \/ ResolveTarget \/ ResolveParent \/ LoadTarget \/ \E name \in Temps : WriteTemporary(name)
  \/ CheckAgain \/ InstallOver \/ InstallNew \/ UnlinkTemporary \/ Reread

(* -------------------------------- properties ----------------------------------- *)

(* A call never puts its file over something its caller did not ask to replace,    *)
(* except over a change made between the second look at the hash and the move.     *)
OnlyLateChangesAreLost == lost # "early"

(* An answer that reports a fault was given with the file untouched by the call,   *)
(* unless the fault is that the answer would have been too long; an answer that    *)
(* reports success was given for a file that was put in place.                     *)
AnswersAreTrue ==
  op.pc = "answered" =>
    /\ (IsFault(op.answer) /\ op.installed) => Shown(op.request) > MaxAnswerBytes
    /\ op.answer = "written" => op.installed

(* A call that was answered has removed its temporary file, unless that is what    *)
(* failed.                                                                         *)
NoTemporaryLeft ==
  op.pc = "answered" /\ op.temporary \in DOMAIN tree => op.temporary = <<>> \/ op.answer = "untrusted"
================================================================================
