------------------------------ MODULE Configuration ------------------------------
(* What the program is told before it starts: the layers of settings, the .env     *)
(* file, the checks of load_runtime_config and the search for the knowledge pack   *)
(* (src/src/config/setting_source.cpp, runtime_config.cpp and the start of         *)
(* main.cpp).                                                                      *)
(*                                                                                 *)
(* A text is a string; a path is the sequence of its parts.  What is read is given *)
(* as a host: the environment, the files that may be there, and where they are.    *)
EXTENDS Integers, Sequences, FiniteSets, SequencesExt

CONSTANTS
  NumberIn(_),   \* the number a text of digits spells; 0 when it spells none
  Lowered(_),    \* ascii lower case
  PathIn(_),     \* the path a text names: [kind, parts], kind as in Place
  MaxUnsigned,   \* 2^64 - 1
  MaxSigned      \* 2^63 - 1

ASSUME Widths == MaxSigned \in Nat /\ MaxUnsigned \in Nat /\ MaxSigned < MaxUnsigned

(* ----------------------------------- layers ------------------------------------ *)

(* From the weakest to the strongest. *)
Sources == <<"builtin", "env", "user", "project", "policy">>

(* An integer goes through int64_t: one that only fits an unsigned number comes out *)
(* negative, and one that fits neither has been read as a float.                   *)
IntegerText(text) ==
  CASE NumberIn(text) <= MaxSigned -> text
    [] NumberIn(text) \in MaxSigned + 1..MaxUnsigned -> "negative"
    [] NumberIn(text) > MaxUnsigned -> "fixed-point"

(* A JSON file is given by the leaves of its objects; the names on the way to a    *)
(* leaf are its path.  A leaf becomes a text, an array makes the file unusable.    *)
LeafText(leaf) ==
  CASE leaf.type = "string"  -> leaf.text
    [] leaf.type = "integer" -> IntegerText(leaf.text)
    [] leaf.type = "null"    -> ""
    [] leaf.type = "boolean" -> IF leaf.text = "true" THEN "1" ELSE "0"
    [] leaf.type = "object"  -> "{}"
    [] leaf.type = "float"   -> "fixed-point"

flatten_json(leaves) == [path \in DOMAIN leaves |-> LeafText(leaves[path])]

(* Anything else than a regular file of strict JSON within its size is passed over. *)
read_agentrc_json(file) ==
  IF file.state # "json" \/ \E path \in DOMAIN file.leaves : file.leaves[path].type = "array"
  THEN [ok |-> FALSE]
  ELSE [ok |-> TRUE, values |-> flatten_json(file.leaves)]

Layer(source, values) == [source |-> source, values |-> values]

FileLayer(files, source) ==
  LET Of(read) == IF read.ok THEN <<Layer(source, read.values)>> ELSE <<>>
  IN  IF source \in DOMAIN files THEN Of(read_agentrc_json(files[source])) ELSE <<>>

(* The settings the program knows; others of the environment are left out.         *)
Numbers ==
  [AGENT_MAX_TOKENS                  |-> [default |-> 4096,   limit |-> MaxSigned],
   AGENT_MAX_MODEL_ROUNDS            |-> [default |-> 16,     limit |-> MaxUnsigned],
   AGENT_MAX_TOOL_CALLS              |-> [default |-> 64,     limit |-> MaxUnsigned],
   AGENT_MAX_TASK_SECONDS            |-> [default |-> 1800,   limit |-> MaxSigned \div 1000],
   AGENT_MODEL_TIMEOUT_SECONDS       |-> [default |-> 120,    limit |-> MaxSigned \div 1000],
   AGENT_BUILD_TIMEOUT_SECONDS       |-> [default |-> 300,    limit |-> 600]]

BoundedSizes ==
  [AGENT_MEMORY_TOP_K                |-> [default |-> 5,      limit |-> 20],
   AGENT_MEMORY_MAX_INJECTED_BYTES   |-> [default |-> 4096,   limit |-> 1048576],
   AGENT_MEMORY_MAX_ENTRY_BYTES      |-> [default |-> 1024,   limit |-> 1048576],
   AGENT_COMPACTION_THRESHOLD_BYTES  |-> [default |-> 65536,  limit |-> 16777216],
   AGENT_COMPACTION_HARD_LIMIT_BYTES |-> [default |-> 131072, limit |-> 16777216],
   AGENT_COMPACTION_RETAIN_TURNS     |-> [default |-> 6,      limit |-> 10000],
   AGENT_COMPACTION_MAX_SUMMARY_BYTES |-> [default |-> 8192,  limit |-> 8192]]

RagNumbers ==
  [AGENT_RAG_TOP_K                   |-> [default |-> 6,      limit |-> 20],
   AGENT_RAG_MAX_TOTAL_BYTES         |-> [default |-> 32768,  limit |-> 32768],
   AGENT_RAG_STARTUP_TIMEOUT_SECONDS |-> [default |-> 120,    limit |-> 600],
   AGENT_RAG_QUERY_TIMEOUT_SECONDS   |-> [default |-> 30,     limit |-> 120]]

Flags ==
  [AGENT_ENABLE_BUILD_TOOLS |-> FALSE, AGENT_ENABLE_RAG |-> FALSE, AGENT_ENABLE_MEMORY |-> TRUE]

(* Two tables of settings in one; what the first one says stays. *)
Joint(first, second) ==
  [key \in DOMAIN first \cup DOMAIN second |->
     IF key \in DOMAIN first THEN first[key] ELSE second[key]]

known_setting_keys ==
  {"AGENT_BASE_URL", "AGENT_MODEL", "AGENT_API_KEY", "AGENT_AUTH_TOKEN",
   "AGENT_MAX_PARALLEL_TOOLS", "AGENT_RUNTIME_ROOT", "AGENT_SYSTEM_PROMPT", "AGENT_RAG_MODE",
   "AGENT_RAG_DEVICE", "AGENT_RAG_RETRIEVAL_POLICY", "AGENT_RAG_PACK_ROOT",
   "AGENT_PERMISSION_MODE", "AGENT_PERMISSION_RULES"}
  \cup DOMAIN Numbers \cup DOMAIN BoundedSizes \cup DOMAIN RagNumbers \cup DOMAIN Flags

EnvironmentValues(environment) ==
  [path \in {<<key>> : key \in DOMAIN environment \cap known_setting_keys} |-> environment[path[1]]]

(* The policy file is skipped like the others when it cannot be read. *)
build_layered_settings(environment, files) ==
     <<Layer("builtin", << >>), Layer("env", EnvironmentValues(environment))>>
  \o FileLayer(files, "user") \o FileLayer(files, "project") \o FileLayer(files, "policy")

(* The layers that have the key. *)
Holding(layers, key) == {i \in DOMAIN layers : <<key>> \in DOMAIN layers[i].values}

Unset == [set |-> FALSE]

Entry(layer, key) == [value |-> layer.values[<<key>>], source |-> layer.source]

Strongest(layers, held, key) ==
  IF held = {} THEN Unset ELSE [set |-> TRUE, entry |-> Entry(layers[Max(held)], key)]

(* Mutant: the layers are walked from the weakest one. *)
resolve_weakest(layers, key) ==
  Strongest(layers, {i \in Holding(layers, key) : i = Min(Holding(layers, key))}, key)

(* The strongest one decides, with an empty value too.                             *)
resolve(layers, key) == Strongest(layers, Holding(layers, key), key)

(* The report of --show-effective-config: per key the layers with a value that is  *)
(* not empty, the strongest first.  A key that is also the beginning of a dotted   *)
(* key cannot be nested, and the report fails.                                     *)
resolve_all(layers, key) ==
  LET hits[n \in 0..Len(layers)] ==
        IF n = 0 THEN <<>>
        ELSE IF n \in Holding(layers, key) /\ layers[n].values[<<key>>] # ""
          THEN <<Entry(layers[n], key)>> \o hits[n - 1]
        ELSE hits[n - 1]
  IN  hits[Len(layers)]

unflattens(values) == \A p, q \in DOMAIN values : p # q => ~IsPrefix(p, q)

render_layered_settings_json(layers) ==
  IF \A i \in DOMAIN layers : unflattens(layers[i].values)
  THEN [ok |-> TRUE, resolved |-> [key \in known_setting_keys |-> resolve_all(layers, key)]]
  ELSE [ok |-> FALSE]

(* -------------------------------- the pack's place ----------------------------- *)

(* Where the text of a path points: "absolute", "relative", "rooted" (neither) or  *)
(* "empty".  The parts of a relative one may be dots.                              *)
Place(kind, parts) == [kind |-> kind, parts |-> parts]

(* A tree maps paths to nodes; `links` counts the names of a file. *)
NodeKind(tree, parts) == IF parts \in DOMAIN tree THEN tree[parts].kind ELSE "absent"

trusted_path_components(tree, parts) ==
  \A i \in 1..Len(parts) : NodeKind(tree, SubSeq(parts, 1, i)) \notin {"link", "absent"}

PlainFile(tree, parts) == NodeKind(tree, parts) = "file" /\ tree[parts].links = 1

(* read_strict_json_file and manifest_is_complete. *)
manifest_is_complete(tree, parts) == PlainFile(tree, parts) /\ tree[parts].text = "complete"

Required == {<<"runtime", "python.exe">>, <<"sidecar", "agent_rag_cli.py">>}

trusted_pack_root(tree, place) ==
  /\ place.kind = "absolute"
  /\ trusted_path_components(tree, place.parts)
  /\ NodeKind(tree, place.parts) = "dir"
  /\ manifest_is_complete(tree, Append(place.parts, "pack.json"))
  /\ \A file \in Required : PlainFile(tree, place.parts \o file)

inside_ready_directory(parts) ==
  \E i \in 1..Len(parts) - 1 :
    Lowered(parts[i]) = "out" /\ Lowered(parts[i + 1]) = "agentframework-ready"

Up(directory) == IF directory = <<>> THEN <<>> ELSE Front(directory)

PointerLevels == 4

(* Where the pointer to the active pack may lie: below the executable's directory, *)
(* below the next three above it, and beside the directory above it.               *)
PointerPlaces(executable) ==
  LET above[level \in 1..PointerLevels] ==
        IF level = 1 THEN Up(executable) ELSE Up(above[level - 1])
  IN  [level \in 1..PointerLevels + 1 |->
         IF level <= PointerLevels THEN above[level] \o <<"knowledge", "active-pack.json">>
         ELSE Up(Up(executable)) \o <<"AgentFramework-Knowledge", "active-pack.json">>]

NoPack == [ok |-> TRUE, found |-> FALSE]
Rejected == [ok |-> FALSE]
Pack(parts) == [ok |-> TRUE, found |-> TRUE, root |-> parts]

(* The path a pointer names: relative to the pointer unless it is absolute. *)
Supplied(pointer, place) ==
  IF place.kind = "relative" THEN Place("absolute", Front(pointer) \o place.parts) ELSE place

(* Mutant: a pointer that cannot be used is passed over for the next one. *)
discover_pack_passing_over(tree, executable) ==
  LET places == PointerPlaces(executable)
      Usable == {i \in DOMAIN places :
                   /\ PlainFile(tree, places[i])
                   /\ tree[places[i]].text = "pointer"
                   /\ trusted_pack_root(tree, Supplied(places[i], tree[places[i]].names))}
  IN  IF Usable = {} THEN NoPack
      ELSE Pack(Supplied(places[Min(Usable)], tree[places[Min(Usable)]].names).parts)

(* What the pointer at hand and the path it names lead to. *)
Pointed(tree, pointer, named, place) ==
  IF \/ named.kind \in {"empty", "rooted"}
     \/ named.kind = "relative" /\ {".", ".."} \cap ToSet(named.parts) # {}
     \/ ~trusted_pack_root(tree, place)
     \/ inside_ready_directory(place.parts)
  THEN Rejected ELSE Pack(place.parts)

(* The first pointer that exists decides, whatever it says.  (A path without links  *)
(* and dots is its own canonical path.)                                            *)
discover_rag_pack_root(tree, executable) ==
  LET places == PointerPlaces(executable)
      There == {i \in DOMAIN places : NodeKind(tree, places[i]) # "absent"}
      First(pointer) ==
        IF ~PlainFile(tree, pointer) \/ tree[pointer].text # "pointer" THEN Rejected
        ELSE Pointed(tree, pointer, tree[pointer].names, Supplied(pointer, tree[pointer].names))
  IN  IF There = {} THEN NoPack ELSE First(places[Min(There)])

(* -------------------------------- load_runtime_config -------------------------- *)

ValueOr(layers, key, default) ==
  LET Of(got) == IF got.set THEN got.entry.value ELSE default
  IN  Of(resolve(layers, key))

Nonempty(layers, key) == ValueOr(layers, key, "") # ""

(* positive_integer: 0 stands for its failure, which no limit admits. *)
NumberFor(layers, key, default) ==
  LET Parsed(value) == IF value \in 1..MaxUnsigned THEN value ELSE 0
      Of(got) == IF got.set THEN Parsed(NumberIn(got.entry.value)) ELSE default
  IN  Of(resolve(layers, key))

Within(numbers, table) == \A key \in DOMAIN table : numbers[key] \in 1..table[key].limit

NumbersOf(layers, table) ==
  [key \in DOMAIN table |-> NumberFor(layers, key, table[key].default)]

FlagHolds(layers, key) == ValueOr(layers, key, "1") \in {"0", "1"}
FlagFor(layers, key) == ValueOr(layers, key, IF Flags[key] THEN "1" ELSE "0") = "1"

Credentials(layers) == {key \in {"AGENT_API_KEY", "AGENT_AUTH_TOKEN"} : Nonempty(layers, key)}

(* The pack: the one that is named, or else the one a pointer leads to. *)
PackRoot(layers, tree, executable) ==
  LET Accepted(found) ==
        IF found.ok /\ found.found /\ ~inside_ready_directory(found.root) THEN found ELSE Rejected
      Named(place) == IF trusted_pack_root(tree, place) THEN Pack(place.parts) ELSE Rejected
      Of(named) == IF named.set THEN Named(PathIn(named.entry.value)) ELSE discover_rag_pack_root(tree, executable)
  IN  Accepted(Of(resolve(layers, "AGENT_RAG_PACK_ROOT")))

(* Looked at only when retrieval is enabled. *)
Rag(layers, pack) ==
  [mode |-> ValueOr(layers, "AGENT_RAG_MODE", "dense"),
   device |-> ValueOr(layers, "AGENT_RAG_DEVICE", "auto"),
   policy |-> Lowered(ValueOr(layers, "AGENT_RAG_RETRIEVAL_POLICY", "auto")),
   numbers |-> NumbersOf(layers, RagNumbers),
   pack |-> pack]

RagHolds(rag) ==
  /\ rag.mode \in {"hybrid", "dense", "lexical"} /\ rag.device \in {"auto", "cuda", "cpu"}
  /\ rag.policy \in {"auto", "always", "off"}
  /\ Within(rag.numbers, RagNumbers) /\ rag.pack.ok

(* Four parallel calls whatever AGENT_MAX_PARALLEL_TOOLS says. *)
load_runtime_config(layers, tree, executable) ==
  LET Loaded(rag, numbers, credentials) ==
        IF /\ Nonempty(layers, "AGENT_BASE_URL") /\ Nonempty(layers, "AGENT_MODEL")
           /\ Cardinality(credentials) = 1
           /\ Within(numbers, Numbers) /\ Within(numbers, BoundedSizes)
           /\ \A key \in DOMAIN Flags : FlagHolds(layers, key)
           /\ numbers["AGENT_COMPACTION_HARD_LIMIT_BYTES"] > numbers["AGENT_COMPACTION_THRESHOLD_BYTES"]
           /\ ValueOr(layers, "AGENT_RUNTIME_ROOT", "runtime_data") # ""
           /\ \A i \in DOMAIN rag : RagHolds(rag[i])
        THEN [ok |-> TRUE, parallel |-> 4,
              url |-> ValueOr(layers, "AGENT_BASE_URL", ""),
              model |-> ValueOr(layers, "AGENT_MODEL", ""),
              credential |-> [kind  |-> CHOOSE key \in credentials : TRUE,
                              value |-> ValueOr(layers, CHOOSE key \in credentials : TRUE, "")],
              numbers |-> numbers,
              flags |-> [key \in DOMAIN Flags |-> FlagFor(layers, key)],
              runtime_root |-> ValueOr(layers, "AGENT_RUNTIME_ROOT", "runtime_data"),
              system_prompt |-> ValueOr(layers, "AGENT_SYSTEM_PROMPT", "default prompt"),
              rag |-> rag]
        ELSE Rejected
  IN  Loaded(IF FlagFor(layers, "AGENT_ENABLE_RAG")
               THEN <<Rag(layers, PackRoot(layers, tree, executable))>> ELSE <<>>,
             NumbersOf(layers, Joint(Numbers, BoundedSizes)), Credentials(layers))

(* ------------------------------------ the start -------------------------------- *)

PermissionModes == {"default", "acceptEdits", "plan", "bypassPermissions", "auto"}

(* parse_permission_mode; a text that names no mode is the default. *)
parse_permission_mode(text) == IF text \in PermissionModes THEN text ELSE "default"

(* The permission is made of the environment alone, whatever the layers say. *)
PermissionOf(environment) ==
  IF "AGENT_PERMISSION_MODE" \in DOMAIN environment
  THEN parse_permission_mode(environment["AGENT_PERMISSION_MODE"]) ELSE "default"

Started(config, environment) ==
  IF config.ok THEN [ok |-> TRUE, config |-> config, permission |-> PermissionOf(environment)]
  ELSE Rejected

(* dotenv with Preserve: what the environment has already stays. *)
preserving(environment, file) == Joint(environment, file.values)

NoEnvValues == [ok |-> TRUE, values |-> << >>]

(* Beside the executable first, then in the working directory; one that exists and *)
(* is no regular file ends the start.                                              *)
discover_interactive_env_file(host) ==
  LET First(file) ==
        CASE file.state = "absent" -> NoEnvValues
          [] file.state = "file"   -> [ok |-> TRUE, values |-> file.values]
          [] OTHER -> Rejected
  IN  First(IF host.beside.state # "absent" THEN host.beside ELSE host.working)

(* The .env file of a start; only one that is named must be there. *)
EnvFile(host, start) ==
  CASE start = "explicit" ->
         IF host.named.state = "file" THEN [ok |-> TRUE, values |-> host.named.values] ELSE Rejected
    [] start = "interactive" -> discover_interactive_env_file(host)
    [] start \in {"command", "report"} -> NoEnvValues

(* The report is made before any .env file is read. *)
run_agent(host, start) ==
  LET Load(layers, environment) ==
        IF start = "report" THEN render_layered_settings_json(layers)
        ELSE Started(load_runtime_config(layers, host.tree, host.executable), environment)
      In(environment) == Load(build_layered_settings(environment, host.files), environment)
      With(file) == IF file.ok THEN In(preserving(host.environment, file)) ELSE Rejected
  IN  With(EnvFile(host, start))
================================================================================
