---------------------------- MODULE ToolGatewaysProofs -----------------------------
(* What holds of the file tools beside another program, and of a run of a command, *)
(* for every tree, every call, every command and every bound.                      *)
EXTENDS ToolGateways, FiniteSetTheorems, TLAPS

(* ------------------------------- the file tools --------------------------------- *)

FilePoints == {"idle", "resolve", "load", "write", "check", "install", "unlink", "reread",
               "answered"}
InProgress == FilePoints \ {"idle", "answered"}

IsCall(c) ==
  c = [pc |-> c.pc, request |-> c.request, made |-> c.made, temporary |-> c.temporary,
       tries |-> c.tries, installed |-> c.installed, answer |-> c.answer]

TreeHoldsNodes == \A path \in DOMAIN tree : IsNode(tree[path])

CallType ==
  /\ IsCall(op) /\ op.pc \in FilePoints
  /\ op.pc \in InProgress => Target \in Seq(STRING)
  /\ late \in BOOLEAN

(* The file is put in place by the move alone. *)
InstalledByTheMove ==
  /\ op.pc \in {"resolve", "load", "write", "check", "install"} => op.installed = FALSE
  /\ op.pc \in {"unlink", "reread"} => op.installed = TRUE

(* There is a temporary file from its creation to the move; no tool may name it,   *)
(* so it is never the target, and the other program leaves such names alone.       *)
IsTemporary(path) == path # <<>> /\ path[Len(path)] \in Temps

TemporaryIsOurs ==
  /\ op.pc \in {"resolve", "load", "write"} => op.temporary = <<>>
  /\ op.pc \in {"load", "write"} => ~is_protected(Target)
  /\ op.pc \in {"check", "install", "unlink", "reread"} =>
       IsTemporary(op.temporary) /\ op.temporary # Target
  /\ op.pc = "reread" => op.temporary \notin DOMAIN tree

(* From the second look on the target is what the caller saw, or it has changed late. *)
SeenTwice ==
  op.pc = "install" /\ ~Creates(op.request) =>
    late \/ (Target \in DOMAIN tree => tree[Target] = File(op.request.expected))

IsBuild(b) == b = [pc |-> b.pc, request |-> b.request, answer |-> b.answer]

(* One tool at a time. *)
Alone == IsBuild(build) /\ (build.pc \notin {"idle", "answered"} => op = Idle)

FilesInv ==
  /\ TreeHoldsNodes /\ CallType /\ InstalledByTheMove /\ TemporaryIsOurs /\ SeenTwice
  /\ OnlyLateChangesAreLost /\ AnswersAreTrue /\ NoTemporaryLeft

(* --------------------------------- lemmas --------------------------------------- *)

LEMMA WithoutIt ==
  ASSUME NEW STATE path
  PROVE  /\ DOMAIN Without(path) = DOMAIN tree \ {path}
         /\ \A p \in DOMAIN tree \ {path} : Without(path)[p] = tree[p]
BY DEF Without, Restrict

LEMMA Nodes ==
  ASSUME NEW text
  PROVE  /\ IsNode(File(text)) /\ IsNode(Linked(text)) /\ IsNode(Directory)
         /\ ~IsNode(Gone)
BY DEF IsNode, File, Linked, Directory, Gone, Node, NodeKinds

(* A temporary file is beside the target and never the target. *)
LEMMA BesideIsNew ==
  ASSUME NEW path \in Seq(STRING), NEW name \in Temps, ~is_protected(path)
  PROVE  IsTemporary(Beside(path, name)) /\ Beside(path, name) # path
<1>1. Front(path) \in Seq(STRING)
  BY DEF Front
<1>2. Front(path) \in Seq(STRING \cup Temps)
  BY <1>1
<1>3. /\ Beside(path, name) # <<>>
      /\ Beside(path, name)[Len(Beside(path, name))] = name
  BY <1>2 DEF Beside
<1>4. ASSUME Beside(path, name) = path PROVE FALSE
  <2>1. path # <<>> /\ Last(path) = name
    BY <1>3, <1>4 DEF Last
  <2>2. Folded(name) \in Temps
    BY TemporariesAreLowerCase
  <2> QED
    BY <2>1, <2>2 DEF is_protected
<1> QED
  BY <1>3, <1>4 DEF IsTemporary

(* A path that is there has a kind. *)
LEMMA AbsentIsAbsent ==
  ASSUME TreeHoldsNodes, NEW STATE path
  PROVE  KindAt(tree, path) = "absent" <=> path \notin DOMAIN tree
BY DEF TreeHoldsNodes, KindAt, IsNode, NodeKinds

LEMMA ResolvedIsAllowed ==
  ASSUME NEW t, NEW path
  PROVE  /\ ~IsFault(resolve_existing(t, path, FALSE)) => ~is_protected(path)
         /\ ~IsFault(resolve_parent(t, path)) => ~is_protected(path)
<1>1. is_protected(path) => resolve_existing(t, path, FALSE) = "access_denied"
  BY DEF resolve_existing
<1>2. is_protected(path) => resolve_parent(t, path) = "access_denied"
  BY DEF resolve_parent
<1> QED
  BY <1>1, <1>2 DEF IsFault

(* A file found trustworthy is the one the caller saw. *)
LEMMA TrustworthyIsSeen ==
  ASSUME TreeHoldsNodes, ~IsFault(Trustworthy)
  PROVE  tree[Target] = File(op.request.expected)
<1>1. /\ Target \in DOMAIN tree /\ KindAt(tree, Target) = "file"
      /\ tree[Target].links = 1 /\ TextAt(Target) = op.request.expected
  BY DEF Trustworthy, IsFault
<1>2. IsNode(tree[Target])
  BY <1>1 DEF TreeHoldsNodes
<1> QED
  BY <1>1, <1>2 DEF KindAt, TextAt, IsNode, File, Node

(* --------------------------- the steps of a file tool --------------------------- *)

LEMMA Begins ==
  ASSUME FilesInv, NEW request \in Requests, Begin(request)
  PROVE  FilesInv'
<1>1. IsRequest(request)
  BY RequestsAndEdits
<1>2. CASE Refused(request) # "accepted"
  <2>1. op' = [Idle EXCEPT !.pc = "answered", !.answer = Refused(request), !.request = request]
    BY <1>2 DEF Begin
  <2>2. /\ IsCall(op') /\ op'.pc = "answered" /\ op'.installed = FALSE /\ op'.temporary = <<>>
        /\ op'.answer = Refused(request)
    BY <2>1 DEF IsCall, Idle
  <2>3. Refused(request) # "written"
    BY DEF Refused
  <2> QED
    BY <2>2, <2>3 DEF Begin, FilesInv, TreeHoldsNodes, CallType, InstalledByTheMove, FilePoints,
      InProgress, TemporaryIsOurs, SeenTwice, OnlyLateChangesAreLost, AnswersAreTrue, NoTemporaryLeft
<1>3. CASE Refused(request) = "accepted"
  <2>1. op' = [Idle EXCEPT !.pc = "resolve", !.request = [request EXCEPT !.path = parse(@).path]]
    BY <1>3 DEF Begin
  <2>2. parse(request.path).path \in Seq(STRING)
    <3>1. CASE request.path = <<".">>
      <4>1. parse(request.path).path = <<>>
        BY <3>1 DEF parse
      <4> QED
        BY <4>1
    <3>2. CASE request.path # <<".">>
      <4>1. parse(request.path).path = request.path
        BY <3>2, Zenon DEF parse
      <4> QED
        BY <1>1, <4>1 DEF IsRequest
    <3> QED
      BY <3>1, <3>2
  <2> DEFINE path == parse(request.path).path
  <2>3. op'.request.path \in Seq(STRING)
    <3>1. op'.request = [request EXCEPT !.path = path]
      BY <2>1 DEF Idle
    <3>2. "path" \in DOMAIN request
      <4>1. CASE request.tool = "replace_text"
        <5>1. request = Replace(request.path, request.old, request.new, request.occurrences,
                                request.expected)
          BY <1>1, <4>1 DEF IsRequest
        <5> QED
          BY <5>1 DEF Replace
      <4>2. CASE request.tool # "replace_text"
        <5>1. request = Write(request.path, request.content, request.create, request.expected)
          BY <1>1, <4>2 DEF IsRequest
        <5> QED
          BY <5>1 DEF Write
      <4> QED
        BY <4>1, <4>2
    <3> HIDE DEF path
    <3>3. path \in Seq(STRING)
      BY <2>2 DEF path
    <3> QED
      BY <3>1, <3>2, <3>3
  <2>4. /\ IsCall(op') /\ op'.pc = "resolve" /\ op'.installed = FALSE /\ op'.temporary = <<>>
    BY <2>1 DEF IsCall, Idle
  <2> QED
    BY <2>3, <2>4 DEF Begin, FilesInv, TreeHoldsNodes, CallType, InstalledByTheMove, FilePoints, Target,
      InProgress, TemporaryIsOurs, SeenTwice, OnlyLateChangesAreLost, AnswersAreTrue, NoTemporaryLeft
<1> QED
  BY <1>2, <1>3

(* An answer with the tree as it is, before there is a temporary file. *)
LEMMA AnswersEarly ==
  ASSUME FilesInv, NEW code, code # "written", Answers(code),
         op.pc \in {"resolve", "load", "write"}, UNCHANGED <<tree, late, lost>>
  PROVE  FilesInv'
<1>1. /\ IsCall(op') /\ op'.pc = "answered" /\ op'.answer = code /\ op'.installed = FALSE
      /\ op'.temporary = <<>>
  <2>1. op' = [op EXCEPT !.pc = "answered", !.answer = code] /\ IsCall(op)
    BY DEF Answers, FilesInv, CallType
  <2>2. /\ IsCall(op') /\ op'.pc = "answered" /\ op'.answer = code
        /\ op'.installed = op.installed /\ op'.temporary = op.temporary
    BY <2>1 DEF IsCall
  <2> QED
    BY <2>2 DEF FilesInv, InstalledByTheMove, TemporaryIsOurs
<1> QED
  BY <1>1 DEF FilesInv, TreeHoldsNodes, CallType, InstalledByTheMove, FilePoints,
    InProgress, TemporaryIsOurs, SeenTwice, OnlyLateChangesAreLost, AnswersAreTrue, NoTemporaryLeft

(* The guard removes the temporary file and answers. *)
LEMMA GivesUp ==
  ASSUME FilesInv, NEW code, code # "written", GiveUp(code),
         op.pc \in {"check", "install"}, UNCHANGED <<late, lost>>
  PROVE  FilesInv'
<1>1. /\ IsCall(op') /\ op'.pc = "answered" /\ op'.answer = code /\ op'.installed = FALSE
      /\ op'.temporary = op.temporary
  <2>1. op' = [op EXCEPT !.pc = "answered", !.answer = code] /\ IsCall(op)
    BY DEF GiveUp, Answers, FilesInv, CallType
  <2>2. /\ IsCall(op') /\ op'.pc = "answered" /\ op'.answer = code
        /\ op'.installed = op.installed /\ op'.temporary = op.temporary
    BY <2>1 DEF IsCall
  <2> QED
    BY <2>2 DEF FilesInv, InstalledByTheMove
<1>2. DOMAIN tree' = DOMAIN tree \ {op.temporary} /\ \A p \in DOMAIN tree' : tree'[p] = tree[p]
  BY WithoutIt DEF GiveUp
<1> QED
  BY <1>1, <1>2 DEF FilesInv, TreeHoldsNodes, CallType, InstalledByTheMove, FilePoints,
    InProgress, TemporaryIsOurs, SeenTwice, OnlyLateChangesAreLost, AnswersAreTrue, NoTemporaryLeft

LEMMA Resolves ==
  ASSUME FilesInv, ResolveTarget \/ ResolveParent
  PROVE  FilesInv'
<1>1. op.pc = "resolve" /\ UNCHANGED <<tree, late, lost>>
  BY DEF ResolveTarget, ResolveParent
<1>2. ASSUME NEW code, IsFault(code), Answers(code) PROVE FilesInv'
  <2>1. code # "written"
    BY <1>2 DEF IsFault
  <2> QED
    BY <1>1, <1>2, <2>1, AnswersEarly
<1>3. ASSUME NEW p \in {"load", "write"}, op'.pc = p, IsCall(op'), op'.request = op.request,
             op'.installed = op.installed, op'.temporary = op.temporary, ~is_protected(Target)
      PROVE  FilesInv'
  BY <1>1, <1>3 DEF FilesInv, TreeHoldsNodes, CallType, InstalledByTheMove, FilePoints, Target,
    InProgress, TemporaryIsOurs, SeenTwice, OnlyLateChangesAreLost, AnswersAreTrue, NoTemporaryLeft
<1>4. CASE ResolveTarget
  <2>1. CASE IsFault(resolve_existing(tree, Target, FALSE))
    BY <1>2, <1>4, <2>1 DEF ResolveTarget
  <2>2. CASE ~IsFault(resolve_existing(tree, Target, FALSE))
    <3>1. op' = [op EXCEPT !.pc = "load"] /\ ~is_protected(Target)
      BY <1>4, <2>2, ResolvedIsAllowed DEF ResolveTarget
    <3> QED
      <4>1. IsCall(op)
        BY DEF FilesInv, CallType
      <4>2. /\ IsCall(op') /\ op'.pc = "load" /\ op'.request = op.request
            /\ op'.installed = op.installed /\ op'.temporary = op.temporary
        BY <3>1, <4>1 DEF IsCall
      <4> QED
        BY <1>3, <3>1, <4>2
  <2> QED
    BY <2>1, <2>2
<1>5. CASE ResolveParent
  <2>1. CASE IsFault(resolve_parent(tree, Target))
    BY <1>2, <1>5, <2>1 DEF ResolveParent
  <2>2. CASE ~IsFault(resolve_parent(tree, Target)) /\ Answers("conflict")
    BY <1>2, <2>2 DEF IsFault
  <2>3. CASE ~IsFault(resolve_parent(tree, Target)) /\ ~Answers("conflict")
    <3>1. op' = [op EXCEPT !.pc = "write", !.made = op.request.content] /\ ~is_protected(Target)
      BY <1>5, <2>3, ResolvedIsAllowed DEF ResolveParent
    <3>2. /\ op'.pc = "write" /\ IsCall(op') /\ op'.request = op.request
          /\ op'.installed = op.installed /\ op'.temporary = op.temporary
      BY <3>1 DEF FilesInv, CallType, IsCall
    <3> QED
      BY <1>3, <3>1, <3>2
  <2> QED
    BY <2>1, <2>2, <2>3
<1> QED
  BY <1>4, <1>5

LEMMA Loads ==
  ASSUME FilesInv, LoadTarget
  PROVE  FilesInv'
<1>1. op.pc = "load" /\ UNCHANGED <<tree, late, lost>>
  BY DEF LoadTarget
<1>2. ASSUME NEW code, IsFault(code), Answers(code) PROVE FilesInv'
  <2>1. code # "written"
    BY <1>2 DEF IsFault
  <2> QED
    BY <1>1, <1>2, <2>1, AnswersEarly
<1>3. \/ \E code : IsFault(code) /\ Answers(code)
      \/ \E made : op' = [op EXCEPT !.pc = "write", !.made = made]
  BY DEF LoadTarget, IsFault
<1>4. ASSUME NEW made, op' = [op EXCEPT !.pc = "write", !.made = made] PROVE FilesInv'
  <2>1. /\ op'.pc = "write" /\ IsCall(op') /\ op'.request = op.request
        /\ op'.installed = op.installed /\ op'.temporary = op.temporary
    BY <1>4 DEF FilesInv, CallType, IsCall
  <2> QED
    BY <1>1, <2>1 DEF FilesInv, TreeHoldsNodes, CallType, InstalledByTheMove, FilePoints, Target,
      InProgress, TemporaryIsOurs, SeenTwice, OnlyLateChangesAreLost, AnswersAreTrue, NoTemporaryLeft
<1> QED
  BY <1>2, <1>3, <1>4

LEMMA WritesTemporary ==
  ASSUME FilesInv, NEW name \in Temps, WriteTemporary(name)
  PROVE  FilesInv'
<1> DEFINE temporary == Beside(Target, name)
<1>1. op.pc = "write" /\ UNCHANGED <<late, lost>>
  BY DEF WriteTemporary
<1>2. Target \in Seq(STRING) /\ ~is_protected(Target)
  BY <1>1 DEF FilesInv, CallType, InProgress, FilePoints, TemporaryIsOurs
<1>3. IsTemporary(temporary) /\ temporary # Target
  BY <1>2, BesideIsNew
<1> HIDE DEF temporary
<1>4. \/ Answers("io_error") /\ UNCHANGED tree
      \/ op' = [op EXCEPT !.tries = @ + 1] /\ UNCHANGED tree
      \/ /\ KindAt(tree, temporary) = "absent"
         /\ tree' = Put(tree, temporary, File(op.made))
         /\ op' = [op EXCEPT !.pc = IF Creates(op.request) THEN "install" ELSE "check",
                             !.temporary = temporary]
  BY DEF WriteTemporary, temporary
<1>5. CASE Answers("io_error") /\ UNCHANGED tree
  BY <1>1, <1>5, AnswersEarly
<1>6. CASE op' = [op EXCEPT !.tries = @ + 1] /\ UNCHANGED tree
  <2>1. /\ IsCall(op') /\ op'.pc = "write" /\ op'.request = op.request
        /\ op'.installed = op.installed /\ op'.temporary = op.temporary
    BY <1>1, <1>6 DEF FilesInv, CallType, IsCall
  <2> QED
    BY <1>1, <1>6, <2>1 DEF FilesInv, TreeHoldsNodes, CallType, InstalledByTheMove, FilePoints, Target,
      InProgress, TemporaryIsOurs, SeenTwice, OnlyLateChangesAreLost, AnswersAreTrue, NoTemporaryLeft
<1>7. CASE /\ KindAt(tree, temporary) = "absent"
           /\ tree' = Put(tree, temporary, File(op.made))
           /\ op' = [op EXCEPT !.pc = IF Creates(op.request) THEN "install" ELSE "check",
                               !.temporary = temporary]
  <2>1. /\ IsCall(op') /\ op'.pc = (IF Creates(op.request) THEN "install" ELSE "check")
        /\ op'.request = op.request /\ op'.installed = op.installed /\ op'.temporary = temporary
    BY <1>7 DEF FilesInv, CallType, IsCall
  <2>2. TreeHoldsNodes'
    BY <1>7, Nodes DEF Put, FilesInv, TreeHoldsNodes
  <2> QED
    BY <1>1, <1>2, <1>3, <2>1, <2>2 DEF FilesInv, CallType, InstalledByTheMove, FilePoints, Target,
      InProgress, TemporaryIsOurs, SeenTwice, OnlyLateChangesAreLost, AnswersAreTrue, NoTemporaryLeft
<1> QED
  BY <1>4, <1>5, <1>6, <1>7

LEMMA ChecksAgain ==
  ASSUME FilesInv, CheckAgain
  PROVE  FilesInv'
<1>1. op.pc = "check" /\ UNCHANGED lost
  BY DEF CheckAgain
<1>2. ASSUME NEW code, IsFault(code), GiveUp(code), UNCHANGED late PROVE FilesInv'
  <2>1. code # "written"
    BY <1>2 DEF IsFault
  <2> QED
    BY <1>1, <1>2, <2>1, GivesUp
<1>3. CASE GiveUp("io_error") /\ UNCHANGED late
  BY <1>2, <1>3 DEF IsFault
<1>4. CASE IsFault(Trustworthy) /\ GiveUp(Trustworthy) /\ UNCHANGED late
  BY <1>2, <1>4
<1>5. CASE /\ ~IsFault(Trustworthy)
           /\ op' = [op EXCEPT !.pc = "install"] /\ late' = FALSE /\ UNCHANGED tree
  <2>1. /\ IsCall(op') /\ op'.pc = "install" /\ op'.request = op.request
        /\ op'.installed = op.installed /\ op'.temporary = op.temporary
    BY <1>5 DEF FilesInv, CallType, IsCall
  <2>2. tree[Target] = File(op.request.expected)
    BY <1>5, TrustworthyIsSeen DEF FilesInv
  <2> QED
    BY <1>1, <1>5, <2>1, <2>2 DEF FilesInv, TreeHoldsNodes, CallType, InstalledByTheMove, FilePoints, Target,
      InProgress, TemporaryIsOurs, SeenTwice, OnlyLateChangesAreLost, AnswersAreTrue, NoTemporaryLeft
<1> QED
  BY <1>3, <1>4, <1>5 DEF CheckAgain

(* The move takes the temporary file away and puts the new text at the target. *)
LEMMA Moved ==
  ASSUME FilesInv, op.pc = "install", UNCHANGED late, lost' # "early",
         op' = [op EXCEPT !.pc = "reread", !.installed = TRUE],
         tree' = Put(Without(op.temporary), Target, File(op.made))
  PROVE  FilesInv'
<1>1. /\ IsCall(op') /\ op'.pc = "reread" /\ op'.request = op.request
      /\ op'.installed = TRUE /\ op'.temporary = op.temporary
  BY DEF FilesInv, CallType, IsCall
<1>2. IsTemporary(op.temporary) /\ op.temporary # Target
  BY DEF FilesInv, TemporaryIsOurs
<1> DEFINE rest == Without(op.temporary)
<1>3. DOMAIN rest = DOMAIN tree \ {op.temporary} /\ \A p \in DOMAIN rest : rest[p] = tree[p]
  BY WithoutIt
<1> HIDE DEF rest
<1>4. tree' = Put(rest, Target, File(op.made))
  BY DEF rest
<1>5. TreeHoldsNodes' /\ op.temporary \notin DOMAIN tree'
  BY <1>2, <1>3, <1>4, Nodes DEF Put, FilesInv, TreeHoldsNodes
<1> QED
  BY <1>1, <1>2, <1>5 DEF FilesInv, CallType, InstalledByTheMove, FilePoints, Target,
    InProgress, TemporaryIsOurs, SeenTwice, OnlyLateChangesAreLost, AnswersAreTrue, NoTemporaryLeft

LEMMA Installs ==
  ASSUME FilesInv, InstallOver \/ InstallNew
  PROVE  FilesInv'
<1>1. op.pc = "install" /\ UNCHANGED late
  BY DEF InstallOver, InstallNew
<1>2. CASE GiveUp("io_error") /\ UNCHANGED lost
  BY <1>1, <1>2, GivesUp
<1>3. CASE GiveUp("conflict") /\ UNCHANGED lost
  BY <1>1, <1>3, GivesUp
<1>4. CASE InstallOver /\ ~(GiveUp("io_error") /\ UNCHANGED lost)
  <2>1. /\ lost' = Losing /\ ~Creates(op.request)
        /\ tree' = Put(Without(op.temporary), Target, File(op.made))
        /\ op' = [op EXCEPT !.pc = "reread", !.installed = TRUE]
    BY <1>4 DEF InstallOver
  <2>2. lost' # "early"
    BY <1>1, <2>1 DEF Losing, FilesInv, SeenTwice, OnlyLateChangesAreLost
  <2> QED
    BY <1>1, <2>1, <2>2, Moved
<1>5. CASE InstallNew /\ ~(GiveUp("io_error") /\ UNCHANGED lost) /\ ~(GiveUp("conflict") /\ UNCHANGED lost)
  <2>1. ~Present /\ Creates(op.request) /\ lost' = Losing
    BY <1>5 DEF InstallNew
  <2>2. Target \notin DOMAIN tree
    BY <2>1, AbsentIsAbsent DEF FilesInv, Present
  <2>3. lost' # "early"
    BY <2>1, <2>2 DEF Losing, FilesInv, OnlyLateChangesAreLost
  <2>4. CASE host = "windows"
    <3>1. /\ tree' = Put(Without(op.temporary), Target, File(op.made))
          /\ op' = [op EXCEPT !.pc = "reread", !.installed = TRUE]
      BY <1>5, <2>4 DEF InstallNew
    <3> QED
      BY <1>1, <2>3, <3>1, Moved
  <2>5. CASE host # "windows"
    <3>1. /\ tree' = Put(Put(tree, op.temporary, Linked(op.made)), Target, Linked(op.made))
          /\ op' = [op EXCEPT !.pc = "unlink", !.installed = TRUE]
      BY <1>5, <2>5 DEF InstallNew
    <3>2. /\ IsCall(op') /\ op'.pc = "unlink" /\ op'.request = op.request
          /\ op'.installed = TRUE /\ op'.temporary = op.temporary
      BY <3>1 DEF FilesInv, CallType, IsCall
    <3>3. TreeHoldsNodes'
      <4> DEFINE both == Put(tree, op.temporary, Linked(op.made))
      <4>1. \A p \in DOMAIN both : IsNode(both[p])
        BY Nodes DEF Put, FilesInv, TreeHoldsNodes
      <4> HIDE DEF both
      <4>2. tree' = Put(both, Target, Linked(op.made))
        BY <3>1 DEF both
      <4> QED
        BY <4>1, <4>2, Nodes DEF Put, TreeHoldsNodes
    <3> QED
      BY <1>1, <2>3, <3>2, <3>3 DEF FilesInv, CallType, InstalledByTheMove, FilePoints, Target,
        InProgress, TemporaryIsOurs, SeenTwice, OnlyLateChangesAreLost, AnswersAreTrue, NoTemporaryLeft
  <2> QED
    BY <2>4, <2>5
<1> QED
  BY <1>2, <1>3, <1>4, <1>5

LEMMA Unlinks ==
  ASSUME FilesInv, UnlinkTemporary
  PROVE  FilesInv'
<1>1. op.pc = "unlink" /\ UNCHANGED <<late, lost>>
  BY DEF UnlinkTemporary
<1>2. CASE Answers("untrusted") /\ UNCHANGED tree
  <2>1. /\ IsCall(op') /\ op'.pc = "answered" /\ op'.answer = "untrusted"
    BY <1>2 DEF Answers, FilesInv, CallType, IsCall
  <2> QED
    BY <1>1, <1>2, <2>1 DEF FilesInv, TreeHoldsNodes, CallType, InstalledByTheMove, FilePoints, IsFault,
      InProgress, TemporaryIsOurs, SeenTwice, OnlyLateChangesAreLost, AnswersAreTrue, NoTemporaryLeft
<1>3. CASE ~(Answers("untrusted") /\ UNCHANGED tree)
  <2>1. /\ tree' = [p \in DOMAIN tree \ {op.temporary} |->
                      IF p = Target /\ tree[p] = Linked(op.made) THEN File(op.made) ELSE tree[p]]
        /\ op' = [op EXCEPT !.pc = "reread"]
    BY <1>3 DEF UnlinkTemporary
  <2>2. /\ IsCall(op') /\ op'.pc = "reread" /\ op'.request = op.request
        /\ op'.installed = op.installed /\ op'.temporary = op.temporary
    BY <2>1 DEF FilesInv, CallType, IsCall
  <2>3. TreeHoldsNodes' /\ op.temporary \notin DOMAIN tree'
    BY <2>1, Nodes DEF FilesInv, TreeHoldsNodes
  <2> QED
    BY <1>1, <2>2, <2>3 DEF FilesInv, CallType, InstalledByTheMove, FilePoints, Target,
      InProgress, TemporaryIsOurs, SeenTwice, OnlyLateChangesAreLost, AnswersAreTrue, NoTemporaryLeft
<1> QED
  BY <1>2, <1>3

LEMMA Rereads ==
  ASSUME FilesInv, Reread
  PROVE  FilesInv'
<1>1. op.pc = "reread" /\ UNCHANGED <<tree, late, lost>>
  BY DEF Reread
<1>2. PICK code : /\ Answers(code)
                  /\ \/ code \in {"untrusted", "written"}
                     \/ code = "limit_exceeded" /\ Shown(op.request) > MaxAnswerBytes
  BY DEF Reread
<1>3. /\ IsCall(op') /\ op'.pc = "answered" /\ op'.answer = code /\ op'.request = op.request
      /\ op'.installed = op.installed /\ op'.temporary = op.temporary
  BY <1>2 DEF Answers, FilesInv, CallType, IsCall
<1> QED
  BY <1>1, <1>2, <1>3 DEF FilesInv, TreeHoldsNodes, CallType, InstalledByTheMove, FilePoints, IsFault,
    InProgress, TemporaryIsOurs, SeenTwice, OnlyLateChangesAreLost, AnswersAreTrue, NoTemporaryLeft

(* The other program never touches a temporary file, and what it does to the       *)
(* target after the second look is remembered.                                     *)
LEMMA OthersEdit ==
  ASSUME FilesInv, NEW e \in Edits, Edit(e.path, e.node), op.pc \in InProgress
  PROVE  FilesInv'
<1>1. UNCHANGED <<op, lost>> /\ late' = (late \/ (op.pc = "install" /\ e.path = Target))
  BY DEF Edit
<1>2. ~IsTemporary(e.path)
  BY RequestsAndEdits DEF IsTemporary
<1>3. /\ DOMAIN tree' \subseteq DOMAIN tree \cup {e.path}
      /\ \A p \in DOMAIN tree' : IF p = e.path THEN IsNode(tree'[p]) ELSE tree'[p] = tree[p]
      /\ \A p \in DOMAIN tree : p # e.path => p \in DOMAIN tree'
  <2>1. CASE e.node = Gone
    BY <2>1, WithoutIt DEF Edit
  <2>2. CASE e.node # Gone
    <3>1. tree' = Put(tree, e.path, e.node) /\ IsNode(e.node)
      BY <2>2, RequestsAndEdits DEF Edit
    <3> QED
      BY <3>1 DEF Put
  <2> QED
    BY <2>1, <2>2
<1>4. TreeHoldsNodes'
  BY <1>3 DEF FilesInv, TreeHoldsNodes
<1> QED
  BY <1>1, <1>2, <1>3, <1>4 DEF FilesInv, CallType, InstalledByTheMove, FilePoints, Target, Creates,
    InProgress, TemporaryIsOurs, SeenTwice, OnlyLateChangesAreLost, AnswersAreTrue, NoTemporaryLeft

(* Nothing else touches what the file tools hold; the build tools make directories *)
(* when no file tool runs.                                                         *)
LEMMA OthersKeep ==
  ASSUME FilesInv, TreeHoldsNodes', UNCHANGED <<late, lost>>,
         op' = Idle \/ (op' = op /\ UNCHANGED tree)
  PROVE  FilesInv'
<1>1. CASE op' = Idle
  <2>1. IsCall(op') /\ op'.pc = "idle"
    BY <1>1 DEF Idle, IsCall
  <2> QED
    BY <2>1 DEF FilesInv, CallType, InstalledByTheMove, FilePoints,
      InProgress, TemporaryIsOurs, SeenTwice, OnlyLateChangesAreLost, AnswersAreTrue, NoTemporaryLeft
<1>2. CASE op' = op /\ UNCHANGED tree
  BY <1>2 DEF FilesInv, TreeHoldsNodes, CallType, InstalledByTheMove, FilePoints, Target,
    InProgress, TemporaryIsOurs, SeenTwice, OnlyLateChangesAreLost, AnswersAreTrue, NoTemporaryLeft
<1> QED
  BY <1>1, <1>2

LEMMA FilesNext ==
  ASSUME FilesInv, Alone, [Next]_toolVars
  PROVE  FilesInv'
<1>1. CASE \E request \in Requests : CallFileTool(request)
  BY <1>1, Begins DEF CallFileTool
<1>2. CASE \E request \in Builds : CallBuildTool(request)
  <2>1. op' = Idle /\ late' = FALSE /\ UNCHANGED <<tree, lost>>
    BY <1>2 DEF CallBuildTool
  <2>2. IsCall(op') /\ op'.pc = "idle"
    BY <2>1 DEF Idle, IsCall
  <2> QED
    BY <2>1, <2>2 DEF FilesInv, TreeHoldsNodes, CallType, InstalledByTheMove, FilePoints,
      InProgress, TemporaryIsOurs, SeenTwice, OnlyLateChangesAreLost, AnswersAreTrue, NoTemporaryLeft
<1>3. CASE FileToolStep
  BY <1>3, Resolves, Loads, WritesTemporary, ChecksAgain, Installs, Unlinks, Rereads
  DEF FileToolStep, FileStep
<1>4. CASE BuildToolStep
  <2>1. ASSUME NEW path, NEW from, NEW to, from \notin {"idle", "answered"},
               PrepareDirectory(path, from, to)
        PROVE  FilesInv'
    <3>1. op = Idle /\ UNCHANGED <<op, late, lost>>
      BY <2>1 DEF Alone, PrepareDirectory
    <3>2. tree' = tree \/ tree' = Put(tree, path, Directory)
      BY <2>1 DEF PrepareDirectory, Made
    <3>3. TreeHoldsNodes'
      BY <3>2, Nodes DEF Put, FilesInv, TreeHoldsNodes
    <3> QED
      BY <3>1, <3>3, OthersKeep
  <2>2. CASE PrepareDirectory(Control, "prepare", "inside") \/ PrepareDirectory(BuildDirectory, "inside", "run")
    BY <2>1, <2>2
  <2>3. CASE RunCommand \/ BuildReturns
    BY <2>3, OthersKeep DEF RunCommand, BuildReturns, fileVars, FilesInv, TreeHoldsNodes
  <2> QED
    BY <1>4, <2>2, <2>3 DEF BuildToolStep
<1>5. CASE ProgramDies
  BY <1>5, OthersKeep DEF ProgramDies, FilesInv, TreeHoldsNodes
<1>6. CASE AnotherProgram
  <2>1. op.pc \in InProgress
    BY <1>6 DEF AnotherProgram, InProgress, FilesInv, CallType
  <2> QED
    BY <1>6, <2>1, OthersEdit DEF AnotherProgram
<1>7. CASE RunnerStep \/ JobStep \/ UNCHANGED toolVars
  BY <1>7, OthersKeep DEF RunnerStep, JobStep, toolVars, fileVars, FilesInv, TreeHoldsNodes
<1> QED
  BY <1>1, <1>2, <1>3, <1>4, <1>5, <1>6, <1>7 DEF Next

(* A call begins when no other is in progress. *)
LEMMA AloneNext ==
  ASSUME FilesInv, Alone, [Next]_toolVars
  PROVE  Alone'
<1>1. CASE \E request \in Requests : CallFileTool(request)
  BY <1>1 DEF CallFileTool, Alone, IsBuild, NoBuild
<1>2. CASE \E request \in Builds : CallBuildTool(request)
  <2>1. PICK p, r, a : build' = [pc |-> p, request |-> r, answer |-> a] /\ op' = Idle
    BY <1>2 DEF CallBuildTool
  <2> QED
    BY <2>1 DEF Alone, IsBuild
<1>3. CASE FileToolStep
  <2>1. op.pc \notin {"idle", "answered"} /\ UNCHANGED build
    BY <1>3 DEF FileToolStep, FileStep, ResolveTarget, ResolveParent, LoadTarget, WriteTemporary,
      CheckAgain, InstallOver, InstallNew, UnlinkTemporary, Reread
  <2>2. op # Idle
    BY <2>1 DEF Idle
  <2> QED
    BY <2>1, <2>2 DEF Alone
<1>4. CASE BuildToolStep
  <2>1. op' = op /\ build.pc \notin {"idle", "answered"}
    BY <1>4 DEF BuildToolStep, PrepareDirectory, RunCommand, BuildReturns, fileVars
  <2>2. IsBuild(build')
    <3>1. PICK p, a : build' = [build EXCEPT !.pc = p] \/ build' = [build EXCEPT !.pc = p, !.answer = a]
      BY <1>4 DEF BuildToolStep, PrepareDirectory, RunCommand, BuildReturns
    <3> QED
      BY <3>1 DEF Alone, IsBuild
  <2> QED
    BY <2>1, <2>2 DEF Alone
<1>5. CASE ProgramDies
  BY <1>5 DEF ProgramDies, Alone, IsBuild, NoBuild
<1>6. CASE AnotherProgram
  BY <1>6 DEF AnotherProgram, Edit, Alone
<1>7. CASE RunnerStep \/ JobStep \/ UNCHANGED toolVars
  BY <1>7 DEF RunnerStep, JobStep, toolVars, fileVars, Alone
<1> QED
  BY <1>1, <1>2, <1>3, <1>4, <1>5, <1>6, <1>7 DEF Next

LEMMA FilesStart == Init => FilesInv /\ Alone
<1> SUFFICES ASSUME Init PROVE FilesInv /\ Alone
  OBVIOUS
<1>1. op = Idle /\ late = FALSE /\ lost = "nothing" /\ build = NoBuild /\ tree \in Trees
  BY DEF Init, FilesInit
<1>2. IsCall(op) /\ op.pc = "idle" /\ IsBuild(build)
  BY <1>1 DEF Idle, IsCall, NoBuild, IsBuild
<1> QED
  BY <1>1, <1>2, TreesHoldNodes DEF FilesInv, TreeHoldsNodes, CallType, InstalledByTheMove, FilePoints,
    InProgress, TemporaryIsOurs, SeenTwice, OnlyLateChangesAreLost, AnswersAreTrue, NoTemporaryLeft, Alone

(* ------------------------------ a run of a command ------------------------------ *)

JobType ==
  /\ job = [main |-> job.main, descendants |-> job.descendants, detached |-> job.detached]
  /\ job.descendants \in Nat /\ job.detached \in Nat

(* Only a run that waits, or is about to end its job, has anything alive. *)
AliveInARun == Alive => run \in {"waiting", "killing"}

(* What the job wrote is what the collector was given and what is in the pipe, and *)
(* the collecting thread ends when there is nothing there and nobody to write.     *)
NothingDropped ==
  /\ pipe \in Seq(Bytes) /\ written \in Seq(Bytes) /\ kept \in Seq(Bytes)
  /\ written = kept \o pipe
  /\ reading \in BOOLEAN /\ (~reading => pipe = <<>> /\ ~HoldsPipes)

(* What was returned was made of what the collector holds to the end. *)
MadeOfKept ==
  run = "returned" /\ output.kind = "output" =>
    /\ ~reading
    /\ output.text = normalized_utf8(Collected(kept)).text
    /\ output.truncated <=> Len(kept) > OutputBudget \/ normalized_utf8(Collected(kept)).truncated

RunInv == JobType /\ AliveInARun /\ NothingDropped /\ MadeOfKept

LEMMA RunNext ==
  ASSUME RunInv, [Next]_toolVars
  PROVE  RunInv'
<1> USE DEF RunInv
<1>1. ASSUME run' # "returned" \/ output'.kind # "output", job' = NoJob, pipe' = <<>>, written' = <<>>,
             kept' = <<>>, reading' = FALSE
      PROVE  RunInv'
  <2>1. /\ job'.main = "none" /\ job'.descendants = 0 /\ job'.detached = 0
        /\ job' = [main |-> job'.main, descendants |-> job'.descendants, detached |-> job'.detached]
    BY <1>1 DEF NoJob
  <2>2. ~HoldsPipes' /\ ~Alive'
    BY <2>1 DEF HoldsPipes, Alive
  <2> QED
    <3>1. <<>> \in Seq(Bytes) /\ <<>> = <<>> \o <<>>
      OBVIOUS
    <3>2. NothingDropped'
      BY <1>1, <2>2, <3>1 DEF NothingDropped
    <3>3. MadeOfKept'
      BY <1>1 DEF MadeOfKept
    <3> QED
      BY <2>1, <2>2, <3>2, <3>3 DEF JobType, AliveInARun
<1>2. CASE UNCHANGED processVars
  BY <1>2 DEF processVars, JobType, AliveInARun, NothingDropped, MadeOfKept, HoldsPipes, Alive
<1>3. CASE RunIsForgotten
  BY <1>1, <1>3 DEF RunIsForgotten
<1>4. CASE \E code : RefuseRun(code)
  <2>1. output'.kind # "output"
    BY <1>4 DEF RefuseRun, Failed
  <2> QED
    BY <1>1, <1>4, <2>1 DEF RefuseRun
<1>5. CASE StartRun
  <2>1. /\ job'.main = "running" /\ job'.descendants = 0 /\ job'.detached = 0
        /\ job' = [main |-> job'.main, descendants |-> job'.descendants, detached |-> job'.detached]
    BY <1>5 DEF StartRun, NoJob
  <2> QED
    BY <1>5, <2>1 DEF StartRun, JobType, AliveInARun, NothingDropped, MadeOfKept, HoldsPipes, Alive
<1>6. CASE WaitSeesExit \/ WaitFails \/ WaitTimesOut
  <2>1. run' = "killing" /\ UNCHANGED <<job, pipe, written, kept, reading, output>>
    BY <1>6 DEF WaitSeesExit, WaitFails, WaitTimesOut
  <2> QED
    BY <2>1 DEF JobType, AliveInARun, NothingDropped, MadeOfKept, HoldsPipes, Alive
<1>7. CASE KillJob
  <2>1. /\ job'.main # "running" /\ job'.descendants = 0 /\ job'.detached = 0
        /\ job' = [main |-> job'.main, descendants |-> job'.descendants, detached |-> job'.detached]
    BY <1>7 DEF KillJob, EndedJob, EndedMain, JobType
  <2> QED
    BY <1>7, <2>1 DEF KillJob, JobType, AliveInARun, NothingDropped, MadeOfKept, HoldsPipes, Alive
<1>8. CASE CollectOutput
  <2>1. /\ Append(kept, Head(pipe)) \in Seq(Bytes) /\ Tail(pipe) \in Seq(Bytes)
        /\ Append(kept, Head(pipe)) \o Tail(pipe) = kept \o pipe
    BY <1>8 DEF CollectOutput, NothingDropped
  <2> QED
    BY <1>8, <2>1 DEF CollectOutput, JobType, AliveInARun, NothingDropped, MadeOfKept, HoldsPipes, Alive
<1>9. CASE CollectorEnds \/ FeederEnds
  <2>1. /\ UNCHANGED <<run, job, pipe, written, kept, output>>
        /\ reading' = reading \/ (reading' = FALSE /\ pipe = <<>> /\ ~HoldsPipes)
    BY <1>9 DEF CollectorEnds, FeederEnds
  <2>2. CASE reading' = reading
    BY <2>1, <2>2 DEF JobType, AliveInARun, NothingDropped, MadeOfKept, HoldsPipes, Alive
  <2>3. CASE reading' = FALSE /\ pipe = <<>> /\ ~HoldsPipes
    BY <2>1, <2>3 DEF JobType, AliveInARun, NothingDropped, MadeOfKept, HoldsPipes, Alive
  <2> QED
    BY <2>1, <2>2, <2>3
<1>10. CASE ReturnFromRun
  <2>1. /\ run = "joining" /\ run' = "returned" /\ output' = RunOutput /\ ~reading
        /\ UNCHANGED <<job, pipe, written, kept, reading>>
    BY <1>10 DEF ReturnFromRun, Joined
  <2>2. MadeOfKept'
    <3> DEFINE text == normalized_utf8(Collected(kept))
    <3>1. CASE exit = "failed"
      BY <2>1, <3>1 DEF RunOutput, Failed, MadeOfKept
    <3>2. CASE exit # "failed"
      <4> HIDE DEF text
      <4>1. /\ output'.text = text.text
            /\ output'.truncated = (Len(kept) > OutputBudget \/ text.truncated)
        BY <2>1, <3>2 DEF RunOutput, text
      <4> QED
        BY <2>1, <4>1 DEF MadeOfKept, text
    <3> QED
      BY <3>1, <3>2
  <2> QED
    BY <2>1, <2>2 DEF JobType, AliveInARun, NothingDropped, HoldsPipes, Alive
<1>11. CASE \E byte \in Bytes : CommandWrites(byte)
  <2>1. PICK byte \in Bytes : CommandWrites(byte)
    BY <1>11
  <2>2. /\ Append(pipe, byte) \in Seq(Bytes) /\ Append(written, byte) \in Seq(Bytes)
        /\ kept \o Append(pipe, byte) = Append(kept \o pipe, byte)
    BY DEF NothingDropped
  <2> QED
    BY <2>1, <2>2 DEF CommandWrites, JobType, AliveInARun, NothingDropped, MadeOfKept, HoldsPipes, Alive
<1>12. CASE CommandReadsInput
  BY <1>12 DEF CommandReadsInput, JobType, AliveInARun, NothingDropped, MadeOfKept, HoldsPipes, Alive
<1>13. ASSUME UNCHANGED <<run, pipe, written, kept, reading, output>>, JobType', Alive, HoldsPipes' => HoldsPipes
       PROVE  RunInv'
  BY <1>13 DEF AliveInARun, NothingDropped, MadeOfKept
<1>14. CASE CommandForks
  BY <1>13, <1>14 DEF CommandForks, JobType, HoldsPipes, Alive
<1>15. CASE \E code \in ExitCodes : CommandExits(code)
  BY <1>13, <1>15 DEF CommandExits, JobType, HoldsPipes, Alive
<1>16. CASE DescendantExits
  BY <1>13, <1>16 DEF DescendantExits, JobType, HoldsPipes, Alive
<1>17. CASE ProcessStep \/ CommandStep
  BY <1>6, <1>7, <1>8, <1>9, <1>10, <1>11, <1>12, <1>14, <1>15, <1>16, <1>17 DEF ProcessStep, CommandStep
<1> QED
  BY <1>2, <1>3, <1>4, <1>5, <1>17 DEF Next, toolVars, CallFileTool, CallBuildTool, FileToolStep,
    BuildToolStep, PrepareDirectory, RunCommand, BuildReturns, RunnerStep, ProgramDies, AnotherProgram,
    JobStep, processVars

(* --------------------------- what a run hands back ------------------------------- *)

(* Every set of naturals that has an element has a least one. *)
LEMMA LeastElement ==
  ASSUME NEW T, T \subseteq Nat, T # {}
  PROVE  \E x \in T : \A y \in T : ~(y < x)
<1> DEFINE R == StrictSubsetOrdering(Nat)
           Fin == FiniteSubsetsOf(Nat)
           Below == {1..n : n \in T}
<1>1. IsWellFoundedOn(R, Fin)
  BY FS_StrictSubsetOrderingWellFounded
<1>2. Below \subseteq Fin /\ Below # {}
  <2>1. \A n \in Nat : IsFiniteSet(1..n)
    BY FS_Interval
  <2>2. \A n \in Nat : 1..n \in Fin
    BY <2>1 DEF FiniteSubsetsOf
  <2> QED
    BY <2>2
<1>3. \A m, n \in Nat : m < n => <<1..m, 1..n>> \in R
  <2> SUFFICES ASSUME NEW m \in Nat, NEW n \in Nat, m < n PROVE <<1..m, 1..n>> \in R
    OBVIOUS
  <2>1. n \in 1..n /\ n \notin 1..m /\ 1..m \subseteq 1..n /\ 1..n \subseteq Nat
    OBVIOUS
  <2>2. 1..m # 1..n
    BY <2>1
  <2> QED
    BY <2>1, <2>2 DEF StrictSubsetOrdering
<1> HIDE DEF R, Fin
<1>4. PICK X \in Below : \A Y \in Below : ~(<<Y, X>> \in R)
  BY <1>1, <1>2, WFMin
<1>5. PICK x \in T : X = 1..x
  OBVIOUS
<1>6. \A y \in T : ~(<<1..y, 1..x>> \in R)
  BY <1>4, <1>5
<1> QED
  BY <1>3, <1>6

(* Induction, for the members of a set: first order, so that it can be cited. *)
LEMMA SetInduction ==
  ASSUME NEW S, 0 \in S, \A n \in Nat : n \in S => n + 1 \in S
  PROVE  \A n \in Nat : n \in S
<1> SUFFICES ASSUME Nat \ S # {} PROVE FALSE
  OBVIOUS
<1>1. PICK x \in Nat \ S : \A y \in Nat \ S : ~(y < x)
  BY LeastElement
<1>2. x # 0 /\ x - 1 \in Nat /\ x - 1 < x /\ (x - 1) + 1 = x
  BY <1>1
<1>3. x - 1 \in S
  BY <1>1, <1>2
<1> QED
  BY <1>1, <1>2, <1>3

(* The recursive function of normalized_utf8. *)
IsSize(f, bytes, n) ==
  f = [i \in 0..n |-> IF i = 0 THEN 0 ELSE f[i - 1] + Cost(bytes[i])]

(* There is such a function for every number of bytes. *)
LEMMA SizeExists ==
  ASSUME NEW bytes, NEW N \in Nat
  PROVE  \E f : IsSize(f, bytes, N)
<1> DEFINE S == {n \in Nat : \E f : IsSize(f, bytes, n)}
<1>1. 0 \in S
  <2>1. IsSize([i \in 0..0 |-> 0], bytes, 0)
    BY DEF IsSize
  <2> QED
    BY <2>1
<1>2. ASSUME NEW n \in Nat, n \in S PROVE n + 1 \in S
  <2>1. PICK f : IsSize(f, bytes, n)
    BY <1>2
  <2> DEFINE g == [i \in 0..n + 1 |-> IF i = n + 1 THEN f[n] + Cost(bytes[n + 1]) ELSE f[i]]
  <2>2. \A i \in 0..n + 1 : g[i] = IF i = 0 THEN 0 ELSE g[i - 1] + Cost(bytes[i])
    <3> SUFFICES ASSUME NEW i \in 0..n + 1
                 PROVE g[i] = IF i = 0 THEN 0 ELSE g[i - 1] + Cost(bytes[i])
      OBVIOUS
    <3>1. CASE i = n + 1
      BY <3>1
    <3>2. CASE i \in 0..n
      <4>1. g[i] = f[i] /\ (i # 0 => g[i - 1] = f[i - 1])
        BY <3>2
      <4>2. f[i] = IF i = 0 THEN 0 ELSE f[i - 1] + Cost(bytes[i])
        BY <2>1, <3>2 DEF IsSize
      <4> QED
        BY <4>1, <4>2
    <3> QED
      BY <3>1, <3>2
  <2>3. g = [i \in 0..n + 1 |-> g[i]]
    OBVIOUS
  <2>4. IsSize(g, bytes, n + 1)
    <3> HIDE DEF g
    <3> QED
      BY <2>2, <2>3 DEF IsSize
  <2> QED
    BY <2>4
<1> HIDE DEF S
<1>3. N \in S
  BY <1>1, <1>2, SetInduction
<1> QED
  BY <1>3 DEF S

(* A bounded set of naturals that has an element has a greatest one. *)
LEMMA GreatestElement ==
  ASSUME NEW L \in Nat, NEW T, T \subseteq 0..L, T # {}
  PROVE  \E x \in T : \A y \in T : y <= x
<1> DEFINE Rest == {L - y : y \in T}
<1>1. Rest \subseteq Nat /\ Rest # {}
  <2>1. \A y \in T : L - y \in Nat
    OBVIOUS
  <2>2. PICK y \in T : TRUE
    OBVIOUS
  <2>3. L - y \in Rest
    OBVIOUS
  <2> QED
    BY <2>1, <2>3
<1>2. PICK r \in Rest : \A q \in Rest : ~(q < r)
  BY <1>1, LeastElement
<1>3. PICK x \in T : r = L - x
  BY <1>2 DEF Rest
<1>4. \A y \in T : ~(L - y < L - x)
  BY <1>2, <1>3
<1> QED
  BY <1>4

(* What fits the budget is some beginning of the output, and it says so when it is *)
(* not all of it.                                                                  *)
LEMMA CutIsABeginning ==
  ASSUME NEW bytes, Len(bytes) \in Nat
  PROVE  \E last \in 0..Len(bytes) :
           /\ normalized_utf8(bytes).text = SubSeq(bytes, 1, last)
           /\ normalized_utf8(bytes).truncated <=> last < Len(bytes)
<1> DEFINE size == CHOOSE f : IsSize(f, bytes, Len(bytes))
           Fitting == {n \in 0..Len(bytes) : size[n] <= OutputBudget}
           last == CHOOSE n \in Fitting : \A m \in Fitting : m <= n
<1>1. IsSize(size, bytes, Len(bytes))
  BY SizeExists
<1>2. normalized_utf8(bytes) = [text |-> SubSeq(bytes, 1, last), truncated |-> last < Len(bytes)]
  BY DEF normalized_utf8, IsSize
<1> HIDE DEF size
<1>3. size[0] = 0
  BY <1>1 DEF IsSize
<1>4. Fitting # {} /\ Fitting \subseteq 0..Len(bytes)
  <2>1. 0 \in Fitting
    BY <1>3, ProcessParameters
  <2> QED
    BY <2>1
<1> HIDE DEF Fitting
<1>5. \E n \in Fitting : \A m \in Fitting : m <= n
  BY <1>4, GreatestElement
<1>6. last \in 0..Len(bytes)
  BY <1>4, <1>5
<1> HIDE DEF last
<1> DEFINE text == SubSeq(bytes, 1, last)
           cut == last < Len(bytes)
<1>7. normalized_utf8(bytes) = [text |-> text, truncated |-> cut]
  BY <1>2
<1> HIDE DEF text, cut
<1>8. normalized_utf8(bytes).text = text /\ normalized_utf8(bytes).truncated = cut
  BY <1>7
<1> QED
  BY <1>6, <1>8 DEF text, cut

(* Nothing is lost of what the job wrote. *)
LEMMA WholeOutput ==
  ASSUME NothingDropped, MadeOfKept
  PROVE  OutputIsWhole
<1> SUFFICES ASSUME run = "returned", output.kind = "output"
             PROVE  /\ ~output.truncated => output.text = written
                    /\ output.truncated =>
                         \E n \in 0..Len(written) : output.text = SubSeq(Collected(written), 1, n)
  BY DEF OutputIsWhole
<1> DEFINE all == Collected(kept)
<1>1. written = kept /\ kept \in Seq(Bytes)
  BY DEF NothingDropped, MadeOfKept
<1>2. all \in Seq(Bytes) /\ Len(all) <= Len(kept) /\ (Len(kept) <= OutputBudget => all = kept)
  <2>1. CASE Len(kept) <= OutputBudget
    BY <1>1, <2>1 DEF Collected
  <2>2. CASE ~(Len(kept) <= OutputBudget)
    <3>1. HeadLimit \in Nat /\ HeadLimit <= OutputBudget /\ TailLimit = OutputBudget - HeadLimit
      BY ProcessParameters DEF HeadLimit, TailLimit
    <3> DEFINE head == SubSeq(kept, 1, HeadLimit)
               tail == SubSeq(kept, Len(kept) - TailLimit + 1, Len(kept))
    <3>2. all = head \o tail
      BY <2>2 DEF Collected
    <3>3. head \in Seq(Bytes) /\ Len(head) = HeadLimit
      BY <1>1, <2>2, <3>1, ProcessParameters
    <3>4. tail \in Seq(Bytes) /\ Len(tail) = TailLimit
      BY <1>1, <2>2, <3>1, ProcessParameters
    <3> HIDE DEF all, head, tail
    <3> QED
      BY <1>1, <2>2, <3>1, <3>2, <3>3, <3>4, ProcessParameters
  <2> QED
    BY <2>1, <2>2
<1>3. /\ output.text = normalized_utf8(all).text
      /\ output.truncated <=> Len(kept) > OutputBudget \/ normalized_utf8(all).truncated
  BY DEF MadeOfKept
<1> HIDE DEF all
<1>4. PICK last \in 0..Len(all) : /\ normalized_utf8(all).text = SubSeq(all, 1, last)
                                  /\ normalized_utf8(all).truncated <=> last < Len(all)
  BY <1>2, CutIsABeginning
<1>5. ASSUME ~output.truncated PROVE output.text = written
  <2>1. all = kept /\ last = Len(kept)
    BY <1>1, <1>2, <1>3, <1>4, <1>5, ProcessParameters
  <2> QED
    BY <1>1, <1>3, <1>4, <2>1
<1>6. last \in 0..Len(written)
  BY <1>1, <1>2
<1> QED
  BY <1>1, <1>3, <1>4, <1>5, <1>6 DEF all

LEMMA RunStart == Init => RunInv
<1> SUFFICES ASSUME Init PROVE RunInv
  OBVIOUS
<1>1. /\ job.main = "none" /\ job.descendants = 0 /\ job.detached = 0 /\ run = "idle"
      /\ job = [main |-> job.main, descendants |-> job.descendants, detached |-> job.detached]
      /\ pipe = <<>> /\ written = <<>> /\ kept = <<>> /\ reading = FALSE
  BY DEF Init, ProcessInit, NoJob
<1>2. <<>> \in Seq(Bytes) /\ <<>> = <<>> \o <<>>
  OBVIOUS
<1>3. ~HoldsPipes /\ ~Alive
  BY <1>1 DEF HoldsPipes, Alive
<1>4. NothingDropped
  BY <1>1, <1>2, <1>3 DEF NothingDropped
<1> QED
  BY <1>1, <1>3, <1>4 DEF RunInv, JobType, AliveInARun, MadeOfKept

(* ---------------------------------- theorems ------------------------------------ *)

ToolsInv == FilesInv /\ Alone /\ RunInv

(* Every reachable state of the tools satisfies the invariant: the temporary file  *)
(* is this call's from its creation to the move, the target has been looked at     *)
(* twice or has changed since, and nothing the command wrote is dropped.           *)
THEOREM ToolsInductive == Spec => []ToolsInv
<1>1. Init => ToolsInv
  BY FilesStart, RunStart DEF ToolsInv
<1>2. ToolsInv /\ [Next]_toolVars => ToolsInv'
  BY FilesNext, AloneNext, RunNext DEF ToolsInv
<1> QED
  BY <1>1, <1>2, PTL DEF Spec

(* replace_text and write_file never put their file over something their caller    *)
(* did not ask to replace, but for a change between the second look and the move.  *)
THEOREM OverwritesOnlyWhatWasSeen == Spec => []OnlyLateChangesAreLost
<1>1. ToolsInv => OnlyLateChangesAreLost
  BY DEF ToolsInv, FilesInv
<1> QED
  BY <1>1, ToolsInductive, PTL

(* What an answer says of the file is what happened to it. *)
THEOREM AnswersTellTheTruth == Spec => []AnswersAreTrue
<1>1. ToolsInv => AnswersAreTrue
  BY DEF ToolsInv, FilesInv
<1> QED
  BY <1>1, ToolsInductive, PTL

(* A call that was answered left no temporary file, unless the answer says that    *)
(* the result is not to be trusted.                                                *)
THEOREM TemporariesAreRemoved == Spec => []NoTemporaryLeft
<1>1. ToolsInv => NoTemporaryLeft
  BY DEF ToolsInv, FilesInv
<1> QED
  BY <1>1, ToolsInductive, PTL

(* Nothing of a command is alive when its run has returned, whatever it started    *)
(* and however it ended.                                                           *)
THEOREM RunsLeaveNothing == Spec => []NothingOutlivesTheRun
<1>1. ToolsInv => NothingOutlivesTheRun
  BY DEF ToolsInv, RunInv, AliveInARun, NothingOutlivesTheRun
<1> QED
  BY <1>1, ToolsInductive, PTL

(* The output a run returns is what the job wrote, or says that it is not all of   *)
(* it.                                                                             *)
THEOREM OutputSafety == Spec => []OutputIsWhole
<1>1. ToolsInv => OutputIsWhole
  BY WholeOutput DEF ToolsInv, RunInv
<1> QED
  BY <1>1, ToolsInductive, PTL
================================================================================
