------------------------------ MODULE MCToolGateways -------------------------------
EXTENDS ToolGateways, TLC

A == 97
B == 98

MCFolded(name) == IF name = ".GIT" THEN ".git" ELSE name

(* A file is created, replaced as a whole, and has a part replaced; the same with  *)
(* the hash of an older text, and below a protected directory.                     *)
MCRequests ==
  {Write(<<"new">>, <<B>>, TRUE, NoHash),
   Write(<<"old">>, <<B, B>>, FALSE, <<A>>),
   Write(<<".GIT", "x">>, <<B>>, TRUE, NoHash),
   Replace(<<"old">>, <<A>>, <<B>>, 1, <<A>>),
   Replace(<<"old">>, <<A>>, <<B>>, 2, <<A>>)}

MCEdits ==
  {[path |-> <<"new">>, node |-> File(<<B>>)]} \cup
  [path : {<<"old">>}, node : {File(<<B>>), Node("file", 2, <<A>>), Node("link", 1, <<>>), Gone}]

MCBuilds ==
  {[tool |-> "build_project", configuration |-> "Debug", option |-> "absent"],
   [tool |-> "configure_project", configuration |-> "Debug", option |-> "not allowed"]}

MCTrees == {(<<>> :> Directory) @@ (<<"old">> :> File(<<A>>))}
================================================================================
