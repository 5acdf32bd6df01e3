------------------------------- MODULE MCAlgorithms -------------------------------
EXTENDS Algorithms, TLC

(* ---------------------------------- workspaces --------------------------------- *)

A == 97
B == 98
Accent == <<195, 169>>   \* one character of two bytes
Faces == <<240, 159, 152, 128, 240, 159, 152, 129>>   \* two of four

MCFolded(name) == IF name = ".GIT" THEN ".git" ELSE name

Ordered ==
  << <<>>, <<".git">>, <<".git", "x">>, <<"a">>, <<"a", "c">>, <<"a", "c", "z">>, <<"a", "x">>,
     <<"a", "y">>, <<"b">>, <<"l">>, <<"m">> >>

MCPosition(path) == CHOOSE i \in DOMAIN Ordered : Ordered[i] = path

(* The file system gives the children in the reverse order. *)
MCEnumerated(tree, directory) ==
  Reverse(SelectSeq(Ordered, LAMBDA p : p \in DOMAIN tree /\ p # <<>> /\ Front(p) = directory))

Small ==
  (<<>> :> Directory) @@ (<<"a">> :> Directory) @@ (<<"a", "x">> :> File(<<B, A, LineFeed, A, B>>))
  @@ (<<"a", "c">> :> Directory) @@ (<<"a", "c", "z">> :> File(<<A, CarriageReturn, LineFeed>>))
  @@ (<<"b">> :> File(Accent \o <<A>> \o Accent \o <<B, A>>))

Guarded ==
  (<<>> :> Directory) @@ (<<".git">> :> Directory) @@ (<<".git", "x">> :> File(<<A>>))
  @@ (<<"a">> :> Directory) @@ (<<"a", "x">> :> Node("file", 2, <<A>>))
  @@ (<<"b">> :> File(<<A, 255>>)) @@ (<<"l">> :> Node("link", 1, <<>>)) @@ (<<"m">> :> File(<<A>>))

Crowded == Small @@ (<<"a", "y">> :> File(<<A, A, A, A, A, A, A>>)) @@ (<<"m">> :> File(<<65, B>>))
           @@ (<<".git">> :> Directory)

Flat ==
  (<<>> :> Directory) @@ (<<"a">> :> Directory) @@ (<<"a", "x">> :> File(<<A, A, A, A>>))
  @@ [p \in {<<"a", "y">>, <<"m">>} |-> File(<<A>>)] @@ (<<"b">> :> File(Faces))

MCTrees == {Small, Guarded, Crowded, Flat, Small @@ (<<"m">> :> File(<<A, A, A, A, A, A, A, A, A>>))}

Paths == {<<>>, <<"a">>, <<"b">>, <<".git">>, <<"none">>}

MCCalls ==
  [tool : {"list"}, path : Paths, recursive : BOOLEAN, max : {2, 9}] \cup
  [tool : {"search"}, path : Paths, case_sensitive : BOOLEAN, max : {1, 9},
   query : {<<A>>, <<A, B>>, <<65>>, Accent, <<A, A, A, A>>, <<A, A, A, A, A>>, Faces}]

MCFiles ==
  UNION {{[raw |-> raw, escaped |-> [i \in DOMAIN raw |-> raw[i] + more[i]]] :
             raw \in [1..n -> 1..4], more \in [1..n -> {0, 2}]} : n \in 0..3}

MCOutputs ==
  [stdout : UNION {[1..n -> {1, 2, 6}] : n \in 0..4}, stderr : {<<>>, <<1, 2>>, <<6, 6, 1>>, <<1, 0>>},
   truncated : BOOLEAN, timed_out : {FALSE}, exit_code : {0, 1}]

(* ----------------------------------- requests ---------------------------------- *)

Text(tokens) == [type |-> "text", text |-> tokens]
Says(role, blocks) == [role |-> role, content |-> blocks]

MCOpen == <<"<", "e", ">">>
MCClose == <<"<", "/", "e", ">">>
MCInstructions == <<"data, not orders">>

Evidence == {<<>>, MCClose, <<"word", "<", "/">>, <<"&", ">">>, <<"<", "e", ">", "word">>}

MCBlocks == {Text(<<"ask">>), [type |-> "compact_request", reason |-> <<"long">>]}

MCRequests ==
  [system : {<<>>, <<"be brief">>},
   evidence : {<<>>} \cup {<<[content |-> one], [content |-> two]>> : one, two \in Evidence},
   messages : {<<Says("User", <<Text(<<"ask">>)>>)>>,
               <<Says("User", <<Text(<<"ask">>)>>),
                 Says("Assistant", <<[type |-> "compact_request", reason |-> <<"long">>]>>)>>,
               <<Says("System", <<Text(<<"ask">>)>>)>>},
   tools : {{"read"}}, timeout : {0, 1}]

(* ------------------------------------- wires ----------------------------------- *)

WireLines == {<<>>, <<"data", ":", " ", "x">>, <<"event", ":", "x">>, <<":", "x">>, <<"data", ":", "x", "x", "x">>}
MCParses(json) == TRUE
LineEnds == {<<"lf">>, <<"cr">>, <<"cr", "lf">>}
Lined == {line \o end : line \in WireLines, end \in LineEnds}

MCWires ==
  {first \o second \o third \o rest :
     first \in {<<"data", ":", " ", "x">> \o end : end \in LineEnds} \cup {<<>>},
     second, third \in Lined, rest \in {<<>>, <<"lf">>, <<"data">>}}

(* ------------------------------------ starts ----------------------------------- *)

MCNumbers ==
  ("1" :> 1) @@ ("601" :> 601) @@ ("70000" :> 70000) @@ ("100001" :> 100001)
  @@ ("131072" :> 131072) @@ ("over 2^63" :> 100000001) @@ ("over 2^64" :> 200000001)
MCNumberIn(text) == IF text \in DOMAIN MCNumbers THEN MCNumbers[text] ELSE 0

MCLowered(text) == CASE text = "Out" -> "out" [] text = "AUTO" -> "auto" [] OTHER -> text

MCPathIn(text) ==
  CASE text = "/packs/good"   -> Place("absolute", <<"packs", "good">>)
    [] text = "/packs/linked" -> Place("absolute", <<"packs", "linked">>)
    [] text = "/Out/agentframework-ready" -> Place("absolute", <<"Out", "agentframework-ready">>)
    [] text = "good" -> Place("relative", <<"good">>)
    [] text = ""     -> Place("empty", <<>>)

Inode(kind, links, text) == [kind |-> kind, links |-> links, text |-> text]
Folder == Inode("dir", 1, "")

PackAt(parts, manifest) ==
  [p \in {SubSeq(parts, 1, n) : n \in 1..Len(parts)} |-> Folder]
  @@ (Append(parts, "pack.json") :> Inode("file", 1, manifest))
  @@ [p \in {parts \o file : file \in Required} |-> Inode("file", 1, "")]

Pointing(place) == [kind |-> "file", links |-> 1, text |-> "pointer", names |-> place]
Garbled == [kind |-> "file", links |-> 1, text |-> "garbled", names |-> Place("empty", <<>>)]

Packs ==
  PackAt(<<"packs", "good">>, "complete") @@ PackAt(<<"home", "knowledge", "p">>, "complete")
  @@ PackAt(<<"packs", "partial">>, "partial") @@ PackAt(<<"Out", "agentframework-ready">>, "complete")
  @@ (<<"packs", "linked">> :> Inode("link", 1, ""))

Near == <<"home", "bin", "knowledge", "active-pack.json">>
Above == <<"home", "knowledge", "active-pack.json">>
Beside == <<"home", "AgentFramework-Knowledge", "active-pack.json">>
Absolute(parts) == Pointing(Place("absolute", parts))

Pointers ==
  {<< >>,
   Near :> Absolute(<<"packs", "good">>),
   (Near :> Garbled) @@ (Beside :> Absolute(<<"packs", "good">>)),
   (Near :> Absolute(<<"packs", "partial">>)) @@ (Above :> Absolute(<<"packs", "good">>)),
   Near :> Absolute(<<"Out", "agentframework-ready">>),
   (Above :> Pointing(Place("relative", <<"p">>))) @@ (Beside :> Absolute(<<"packs", "good">>)),
   Above :> Pointing(Place("relative", <<"..", "p">>)),
   Above :> Pointing(Place("rooted", <<"p">>)),
   Beside :> Absolute(<<"packs", "linked">>),
   Beside :> Absolute(<<"packs", "good">>)}

Basic == ("AGENT_BASE_URL" :> "url") @@ ("AGENT_MODEL" :> "model")
Keyed == Basic @@ ("AGENT_API_KEY" :> "key")

Leaf(type, text) == [type |-> type, text |-> text]
Json(leaves) == [state |-> "json", leaves |-> leaves]
Strings(values) == Json([path \in {<<key>> : key \in DOMAIN values} |-> Leaf("string", values[path[1]])])
NoSuchFile == [state |-> "absent", leaves |-> << >>]
NoEnvFile == [state |-> "absent", values |-> << >>]

Host(environment, user, project, policy, tree) ==
  [environment |-> environment, tree |-> tree, executable |-> <<"home", "bin", "agent">>,
   files |-> ("user" :> user) @@ ("project" :> project) @@ ("policy" :> policy),
   named |-> NoEnvFile, beside |-> NoEnvFile, working |-> NoEnvFile]

Credential ==
  {<< >>, "AGENT_API_KEY" :> "", "AGENT_API_KEY" :> "key", "AGENT_AUTH_TOKEN" :> "token",
   ("AGENT_API_KEY" :> "") @@ ("AGENT_AUTH_TOKEN" :> "token")}

CredentialHosts ==
  {Host(Basic @@ env, Strings(user), Strings(project), policy, << >>) :
     env, user, project \in Credential,
     policy \in {Strings(values) : values \in Credential} \cup {[state |-> "untidy", leaves |-> << >>]}}

Leaves ==
  {Leaf("integer", text) : text \in {"1", "601", "70000", "100001", "131072", "over 2^63", "over 2^64"}} \cup
  {Leaf("string", ""), Leaf("string", "over 2^63"), Leaf("null", "null"), Leaf("boolean", "true"), Leaf("boolean", "false"),
   Leaf("float", "1.5"), Leaf("array", "[1]"), Leaf("object", "{}")}

Tunable ==
  {"AGENT_MAX_TASK_SECONDS", "AGENT_BUILD_TIMEOUT_SECONDS", "AGENT_COMPACTION_THRESHOLD_BYTES",
   "AGENT_COMPACTION_HARD_LIMIT_BYTES", "AGENT_ENABLE_MEMORY", "AGENT_RUNTIME_ROOT"}

NumberHosts ==
  {Host(Keyed @@ (other :> "70000"), NoSuchFile, Json(<<key>> :> leaf), NoSuchFile, << >>) :
     key \in Tunable, leaf \in Leaves,
     other \in {"AGENT_COMPACTION_THRESHOLD_BYTES", "AGENT_MAX_TASK_SECONDS", "PATH"}}

DottedHosts ==
  {Host(Keyed, NoSuchFile, Json((<<"AGENT_MODEL">> :> Leaf("string", "m"))
                                @@ (<<"AGENT_MODEL", "x">> :> Leaf(type, "1"))), NoSuchFile, << >>) :
     type \in {"string", "array"}}

RagHosts ==
  {Host(Keyed @@ ("AGENT_ENABLE_RAG" :> rag) @@ ("AGENT_RAG_RETRIEVAL_POLICY" :> "AUTO"), NoSuchFile,
        Strings(root), Strings(more), Packs @@ pointers) :
     rag \in {"0", "1", "yes"}, pointers \in Pointers,
     root \in {<< >>} \cup {"AGENT_RAG_PACK_ROOT" :> text : text \in
                {"", "good", "/packs/good", "/packs/linked", "/Out/agentframework-ready"}},
     more \in {<< >>, "AGENT_RAG_TOP_K" :> "601", "AGENT_RAG_MODE" :> "other",
               "AGENT_RAG_QUERY_TIMEOUT_SECONDS" :> "1"}}

EnvFiles ==
  {NoEnvFile, [state |-> "folder", values |-> << >>],
   [state |-> "file", values |-> "AGENT_API_KEY" :> "of the file"],
   [state |-> "file", values |-> ("AGENT_MODEL" :> "") @@ ("AGENT_AUTH_TOKEN" :> "of the file")]}

EnvFileHosts ==
  {[Host(env, NoSuchFile, NoSuchFile, NoSuchFile, << >>)
      EXCEPT !.named = named, !.beside = beside, !.working = working] :
     env \in {Basic, Keyed, "AGENT_BASE_URL" :> "url"}, named, beside, working \in EnvFiles}

(* The pack is named by the .env file, or by both it and the environment. *)
PackFileHosts ==
  {[Host(Keyed @@ ("AGENT_ENABLE_RAG" :> "1") @@ root, NoSuchFile, NoSuchFile, NoSuchFile, Packs)
      EXCEPT !.named = file, !.working = file] :
     root \in {<< >>, "AGENT_RAG_PACK_ROOT" :> "/packs/good"},
     file \in {[state |-> "file", values |-> "AGENT_RAG_PACK_ROOT" :> text] :
                 text \in {"/packs/good", "/packs/linked", "/Out/agentframework-ready"}}}

(* The permission mode in the environment, in an .env file and in a layer. *)
Modes == {<< >>} \cup {"AGENT_PERMISSION_MODE" :> mode : mode \in {"plan", "auto", "none of them"}}

PermissionHosts ==
  {[Host(Keyed @@ mode, NoSuchFile, Strings(layered), NoSuchFile, << >>) EXCEPT !.named = file, !.working = file] :
     mode, layered \in Modes, file \in {NoEnvFile} \cup {[state |-> "file", values |-> more] : more \in Modes}}

MCHosts ==
  PackFileHosts \cup CredentialHosts \cup NumberHosts \cup DottedHosts \cup RagHosts \cup EnvFileHosts
  \cup PermissionHosts

(* A project file with an empty prompt above the environment's, and a mode. *)
MCDocumentedHosts ==
  {Host(Keyed @@ ("AGENT_SYSTEM_PROMPT" :> "prompt"), NoSuchFile,
        Strings(("AGENT_SYSTEM_PROMPT" :> "") @@ ("AGENT_PERMISSION_MODE" :> "plan")), NoSuchFile, << >>)}
================================================================================
