-------------------------------- MODULE Algorithms --------------------------------
(* The parts of the program that keep no state: the scans of the workspace, the    *)
(* output a build tool shows, the request to the model, the events of its answer   *)
(* and the settings of a start.  A question is asked once and the code's answer to *)
(* it is compared with what the answer has to be.                                  *)
EXTENDS WorkspaceScan, BuildOutput, ModelRequest, ModelStream, Configuration

CONSTANTS
  Trees,      \* workspaces
  Calls,      \* calls of list_files and search_text
  Files,      \* files to be read page by page: the lengths of the lines, raw and escaped
  Outputs,    \* what a command has written
  Requests,   \* requests of the runtime
  Blocks,     \* what messages are made of
  Wires,      \* what a provider may stream
  Hosts,      \* what a start finds
  PageLines, PageBytes  \* the bounds of a page

ASSUME RequestsAreMessages ==
  \A request \in Requests :
    /\ request.system \in Seq(STRING)
    /\ request.evidence \in Seq([content : Seq(STRING)])
    /\ request.messages \in Seq([role : {"User", "Assistant", "System"}, content : Seq(Blocks)])

ASSUME WiresAreBytes == Wires \subseteq Seq(STRING)

ASSUME FilesAreLines ==
  /\ PageLines \in Nat \ {0} /\ PageBytes \in Nat /\ MaxResultBytes \in Nat
  /\ \A file \in Files :
       file.raw \in Seq(Nat) /\ file.escaped \in Seq(Nat) /\ Len(file.escaped) = Len(file.raw)

ASSUME OutputsAreTexts ==
  \A output \in Outputs :
    output.stdout \in Seq(Nat) /\ output.stderr \in Seq(Nat) /\ output.truncated \in BOOLEAN

(* While a tree stands still, its directories give each of their children once. *)
ASSUME TreesAreListed ==
  \A tree \in Trees :
    /\ IsFiniteSet(DOMAIN tree) /\ DOMAIN tree \subseteq Seq(STRING)
    /\ \A p, q \in DOMAIN tree : Position(p) \in Nat /\ (Position(p) = Position(q) => p = q)
    /\ \A p \in DOMAIN tree :
         /\ Enumerated(tree, p) \in Seq(DOMAIN tree) /\ IsInjective(Enumerated(tree, p))
         /\ ToSet(Enumerated(tree, p)) = {q \in DOMAIN tree : q # <<>> /\ Front(q) = p}

ASSUME ScanLimits ==
  {MaxTraversalEntries, MaxTextFileBytes, MaxSearchFiles, MaxSearchBytes} \subseteq Nat

ASSUME TextsAreBytes ==
  \A tree \in Trees : \A p \in NodesOf(tree, "file") : tree[p].text \in Seq(Nat)

ASSUME CallsNameTools ==
  \A call \in Calls :
    /\ call.tool \in {"list", "search"} /\ call.max \in Nat
    /\ call.tool = "list" => call.recursive \in BOOLEAN
    /\ call.tool = "search" => call.query \in Seq(Nat) /\ call.case_sensitive \in BOOLEAN

VARIABLES
  asked,      \* the question
  answer      \* what the code says, Open until it did

vars == <<asked, answer>>

Unanswered == [done |-> FALSE]
Answer(value) == [done |-> TRUE, value |-> value]

Posed ==
  \/ \E tree \in Trees, call \in Calls : asked = [on |-> call.tool, tree |-> tree, call |-> call]
  \/ \E file \in Files : asked = [on |-> "read", file |-> file]
  \/ \E output \in Outputs : asked = [on |-> "build", output |-> output]
  \/ \E request \in Requests, stream \in BOOLEAN :
       asked = [on |-> "model", request |-> request, stream |-> stream]
  \/ \E wire \in Wires : \E cut \in 0..Len(wire) : asked = [on |-> "wire", wire |-> wire, cut |-> cut]
  \/ \E host \in Hosts, start \in {"report", "explicit", "interactive", "command"} :
       asked = [on |-> "start", host |-> host, start |-> start]

Init == answer = Unanswered /\ Posed

Asked(what) == asked.on = what /\ ~answer.done

ListFiles ==
  /\ Asked("list")
  /\ answer' = Answer(bounded_list_json(list(asked.tree, asked.call.path,
                                             asked.call.recursive, asked.call.max)))
  /\ UNCHANGED asked

SearchText ==
  /\ Asked("search")
  /\ answer' = Answer(bounded_search_json(search(asked.tree, asked.call.path, asked.call.query,
                                                 asked.call.case_sensitive, asked.call.max)))
  /\ UNCHANGED asked

(* A caller who follows `next` from the first line; the pages it gets. *)
PagesOf(file) ==
  LET from[start \in 1..Len(file.raw) + 1] ==
        LET page == read_page(file.raw, file.escaped, start, PageLines, PageBytes)
        IN  IF page.fault # "" \/ page.next = NoLine THEN <<page>> ELSE <<page>> \o from[page.next]
  IN  from[1]

ReadFile ==
  /\ Asked("read")
  /\ answer' = Answer(PagesOf(asked.file))
  /\ UNCHANGED asked

ShowOutput ==
  /\ Asked("build")
  /\ answer' = Answer(bounded_process_result(asked.output))
  /\ UNCHANGED asked

MakeRequest ==
  /\ Asked("model")
  /\ answer' = Answer(make_request(asked.request, asked.stream))
  /\ UNCHANGED asked

(* The bytes come in two chunks, cut anywhere.                                     *)
DecodeWire ==
  /\ Asked("wire")
  /\ answer' = Answer(feed(feed(NewDecoder, SubSeq(asked.wire, 1, asked.cut)),
                           SubSeq(asked.wire, asked.cut + 1, Len(asked.wire))))
  /\ UNCHANGED asked

StartProgram ==
  /\ Asked("start")
  /\ answer' = Answer(run_agent(asked.host, asked.start))
  /\ UNCHANGED asked

Next == ListFiles \/ SearchText \/ ReadFile \/ ShowOutput \/ MakeRequest \/ DecodeWire \/ StartProgram

Spec == Init /\ [][Next]_vars
--------------------------------------------------------------------------------
Answered(what) == asked.on = what /\ answer.done

(* ------------------------------------ scans ------------------------------------ *)

(* What a traversal may show: what lies below the named directory with nothing but *)
(* directories a tool may enter on the way.                                        *)
Below(tree, path) ==
  {p \in DOMAIN tree :
     /\ Len(p) > Len(path) /\ IsPrefix(path, p)
     /\ Visible(tree, p)
     /\ \A n \in Len(path) + 1..Len(p) - 1 :
          Visible(tree, SubSeq(p, 1, n)) /\ KindAt(tree, SubSeq(p, 1, n)) = "dir"}

Listed(tree, call) ==
  {p \in Below(tree, call.path) : call.recursive \/ Len(p) = Len(call.path) + 1}

(* A list that does not say it was cut is everything a tool may see, each entry    *)
(* once and in order; one that was cut shows nothing else, and says why.           *)
ListIsWhole ==
  Answered("list") /\ answer.value.fault = "" =>
    LET out == answer.value.output
        Shown == Listed(asked.tree, asked.call)
    IN  /\ ToSet(out.entries) \subseteq Shown
        /\ \A i, j \in DOMAIN out.entries : i < j => Position(out.entries[i]) < Position(out.entries[j])
        /\ out.truncated = "" => ToSet(out.entries) = Shown

(* Every place where the query begins in the text of a file, by line. *)
Occurs(line, at, query, exactly) ==
  /\ at + Len(query) - 1 <= Len(line)
  /\ \A i \in 1..Len(query) :
       IF exactly THEN line[at + i - 1] = query[i]
       ELSE ascii_fold(line[at + i - 1]) = ascii_fold(query[i])

Searched(tree, path) ==
  IF KindAt(tree, path) = "file" THEN {path}
  ELSE {p \in Below(tree, path) : KindAt(tree, p) = "file"}

(* A search that does not say it was cut has a match in every line that has one,   *)
(* of every file it may read and could; what it shows of a line is text and holds  *)
(* the match, or a part of one that is longer than what can be shown.              *)
SearchIsWhole ==
  Answered("search") /\ answer.value.fault = "" =>
    LET found == ToSet(answer.value.matches)
        LinesOf(p) == TextLines(asked.tree[p].text)
        Readable(p) == /\ Len(asked.tree[p].text) <= MaxTextFileBytes
                       /\ is_strict_utf8_text(asked.tree[p].text)
        Holds(p, n) == \E at \in DOMAIN LinesOf(p)[n] :
                         Occurs(LinesOf(p)[n], at, asked.call.query, asked.call.case_sensitive)
    IN  /\ \A m \in found :
             LET line == LinesOf(m.path)[m.line]
             IN  /\ m.path \in Searched(asked.tree, asked.call.path) /\ Readable(m.path)
                 /\ is_strict_utf8_text(SubSeq(line, m.shown.first, m.shown.last))
                 /\ \E at \in DOMAIN line :
                      LET end == at + Len(asked.call.query) - 1
                      IN  /\ Occurs(line, at, asked.call.query, asked.call.case_sensitive)
                          /\ m.column = utf8_column(line, at)
                          /\ IF Len(asked.call.query) <= MaxFragmentBytes
                             THEN m.shown.first <= at /\ end <= m.shown.last
                             ELSE m.shown.first <= end /\ at <= m.shown.last
        /\ answer.value.truncated = "" =>
             \A p \in Searched(asked.tree, asked.call.path) : Readable(p) =>
               \A n \in DOMAIN LinesOf(p) :
                 Holds(p, n) => \E m \in found : m.path = p /\ m.line = n

(* The pages of a file, one after the other, are its lines, each once and whole;   *)
(* only a line that fits no answer stops them.                                     *)
PagesAreWhole ==
  Answered("read") =>
    LET pages == answer.value
        stop  == Last(pages)
        whole == IF stop.fault = "" THEN pages ELSE Front(pages)
        reached == IF whole = <<>> THEN 0 ELSE Last(whole).end
    IN  /\ \A i \in DOMAIN whole :
             /\ whole[i].fault = ""
             /\ whole[i].start = IF i = 1 THEN 1 ELSE whole[i - 1].end + 1
        /\ IF stop.fault = "" THEN reached = Len(asked.file.raw)
           ELSE \/ asked.file.raw[reached + 1] > PageBytes
                \/ asked.file.escaped[reached + 1] > MaxResultBytes

(* A first and a last part of a text, the same character never twice. *)
IsExtract(shown, text) ==
  \E n \in 0..Len(shown) :
    /\ IsPrefix(SubSeq(shown, 1, n), text) /\ IsSuffix(SubSeq(shown, n + 1, Len(shown)), text)
    /\ Len(shown) <= Len(text)

(* Both streams of a command fit their answer; a stream that is not shown as it    *)
(* was written is an extract of it and called truncated, and one that needs no     *)
(* more than half of the room is never cut for the other's sake.                   *)
OutputIsShown ==
  Answered("build") /\ answer.value.ok =>
    LET Stream(shown, text) ==
          /\ IsExtract(shown.text, text)
          /\ shown.text # text => shown.truncated
          /\ encoded_payload_size(text) < MaxContent \div 2 => shown.text = text
    IN  /\ Stream(answer.value.stdout, asked.output.stdout)
        /\ Stream(answer.value.stderr, asked.output.stderr)
        /\ encoded_payload_size(answer.value.stdout.text)
             + encoded_payload_size(answer.value.stderr.text) <= MaxContent

(* The four together: what a tool shows is all there is, or it says what is cut.   *)
ToolAnswersAreWhole == ListIsWhole /\ SearchIsWhole /\ PagesAreWhole /\ OutputIsShown

(* ----------------------------------- request ----------------------------------- *)

Marked(text, mark) == {i \in DOMAIN text : i + Len(mark) - 1 <= Len(text)
                                           /\ SubSeq(text, i, i + Len(mark) - 1) = mark}

(* Whatever the evidence says, it stays between the marks that set it apart: they  *)
(* occur once each, at its two ends, in a first message of the user, of which the  *)
(* model is told; nothing of what was asked or answered is lost behind it.         *)
EvidenceStaysQuoted ==
  Answered("model") /\ answer.value.ok =>
    LET sent == answer.value
        items == asked.request.evidence
        text == sent.messages[1].content[1].text
        ahead == IF items = <<>> THEN 0 ELSE 1
    IN  /\ items # <<>> =>
             /\ sent.messages[1].role = "User"
             /\ Marked(text, Open) = {1} /\ Marked(text, Close) = {Len(text) - Len(Close) + 1}
             /\ IsSuffix(Instructions, sent.system)
        /\ Len(sent.messages) = Len(asked.request.messages) + ahead
        /\ \A i \in DOMAIN asked.request.messages :
             /\ sent.messages[i + ahead].role = asked.request.messages[i].role
             /\ Len(sent.messages[i + ahead].content) = Len(asked.request.messages[i].content)
             /\ \A b \in DOMAIN sent.messages[i + ahead].content :
                  sent.messages[i + ahead].content[b].type # "compact_request"

(* The numbers of a set up to n, in order. *)
Places(S, n) ==
  LET upto[k \in 0..n] ==
        IF k = 0 THEN <<>> ELSE IF k \in S THEN Append(upto[k - 1], k) ELSE upto[k - 1]
  IN  upto[n]

(* Where a stretch that reaches to k begins, when the set has the ends of those    *)
(* before it.                                                                      *)
Since(S, k) == 1 + Max({0} \cup {j \in S : j < k})

(* The lines of a wire that were ended; a carriage return and a line feed after it *)
(* are one end.                                                                    *)
Breaks(wire) == {i \in DOMAIN wire : wire[i] \in {"cr", "lf"}}
SecondHalves(wire) == {i \in Breaks(wire) : i > 1 /\ wire[i] = "lf" /\ wire[i - 1] = "cr"}

EndedLines(wire) ==
  LET ends == Places(Breaks(wire) \ SecondHalves(wire), Len(wire))
  IN  [k \in DOMAIN ends |-> SubSeq(wire, Since(Breaks(wire), ends[k]), ends[k] - 1)]

(* What the lines from `first` to `last` say in a field. *)
ValuesOf(lines, first, last, field) ==
  LET held == Places({i \in first..last : FieldOf(lines[i]).field = field}, last)
  IN  [i \in DOMAIN held |-> FieldOf(lines[held[i]]).value]

Blanks(lines) == {k \in DOMAIN lines : lines[k] = <<>>}

(* What an event has been told when line k is reached; the pieces of data apart.   *)
ToldAt(lines, k) ==
  [pieces |-> ValuesOf(lines, Since(Blanks(lines), k), k - 1, <<"data">>),
   names  |-> ValuesOf(lines, Since(Blanks(lines), k), k - 1, <<"event">>)]

EventEnds(lines) == {k \in Blanks(lines) : ToldAt(lines, k).pieces # <<>>}

EventsOf(lines) ==
  LET ends == Places(EventEnds(lines), Len(lines))
  IN  [e \in DOMAIN ends |-> ToldAt(lines, ends[e])]

Joined(pieces) == FlattenSeq([i \in DOMAIN pieces |-> IF i = 1 THEN pieces[i] ELSE <<"lf">> \o pieces[i]])

(* The last name counts. *)
NameOf(names) == IF names = <<>> THEN <<>> ELSE Last(names)

LimitExceeded(wire, lines) ==
  \/ Len(wire) > MaxWireBytes
  \/ \E i \in 1..Len(wire) - MaxLineBytes : (i..i + MaxLineBytes) \cap Breaks(wire) = {}
  \/ \E k \in DOMAIN lines :
       LET pieces == ToldAt(lines, k + 1).pieces
       IN  pieces # <<>> /\ Len(Joined(pieces)) + 1 > MaxEventBytes

(* After the last empty line there is neither data nor a name, nor half a line.    *)
Complete(wire, lines) ==
  LET rest == ToldAt(lines, Len(lines) + 1)
  IN  /\ wire = <<>> \/ Len(wire) \in Breaks(wire)
      /\ rest.pieces = <<>> /\ NameOf(rest.names) = <<>>

(* However the wire is cut into chunks and its lines are ended, between a carriage *)
(* return and its line feed too, the events that come out are those of its lines:  *)
(* all of them, or as many as came before a limit was exceeded.  And the stream    *)
(* may end where nothing was begun, nowhere else.                                  *)
EventsAreWhole ==
  Answered("wire") =>
    LET lines == EndedLines(asked.wire)
        events == EventsOf(lines)
        out == answer.value.out
    IN  /\ Len(out) <= Len(events)
        /\ \A i \in DOMAIN out :
             /\ out[i].data = Joined(events[i].pieces)
             /\ out[i].name = NameOf(events[i].names)
        /\ IF answer.value.error THEN LimitExceeded(asked.wire, lines)
           ELSE /\ Len(out) = Len(events)
                /\ Framed(answer.value) <=> Complete(asked.wire, lines)

(* What is sent to the model and what comes back keep their frames.                *)
ModelTalkIsFramed == EvidenceStaysQuoted /\ EventsAreWhole

(* ----------------------------------- settings ---------------------------------- *)

(* The layers without what a stronger one overrides. *)
Stripped(layers) ==
  [i \in DOMAIN layers |->
     LET Overridden == UNION {DOMAIN layers[j].values : j \in i + 1..Len(layers)}
     IN  [layers[i] EXCEPT !.values =
            [path \in DOMAIN @ \ Overridden |-> layers[i].values[path]]]]

(* What the program is told when it starts like this: the environment, with what   *)
(* an .env file adds to it, and the files of settings.                             *)
StartEnvironment == preserving(asked.host.environment, EnvFile(asked.host, asked.start))
StartLayers == build_layered_settings(StartEnvironment, asked.host.files)

(* Known keys that no configuration is made of. *)
Unread == {"AGENT_MAX_PARALLEL_TOOLS", "AGENT_PERMISSION_MODE", "AGENT_PERMISSION_RULES"}

(* Of every setting the configuration is made of, the strongest layer that has it  *)
(* decides alone: what weaker layers say changes neither the configuration nor     *)
(* which start is refused, and a value in force that is not empty heads the report *)
(* (setting_source.cpp:27).  The permission mode follows no layer: it is the       *)
(* environment's.                                                                  *)
StrongestLayerDecides ==
  /\ Answered("start") /\ asked.start # "report" /\ EnvFile(asked.host, asked.start).ok =>
       answer.value = Started(load_runtime_config(Stripped(StartLayers), asked.host.tree, asked.host.executable),
                              StartEnvironment)
  /\ Answered("start") /\ asked.start = "report" /\ answer.value.ok =>
       \A key \in known_setting_keys \ Unread :
         Nonempty(Stripped(StartLayers), key) =>
           answer.value.resolved[key][1] = resolve(Stripped(StartLayers), key).entry

(* The layers without their empty values. *)
Filled(layers) ==
  [i \in DOMAIN layers |->
     [layers[i] EXCEPT !.values = [path \in {p \in DOMAIN @ : @[p] # ""} |-> @[path]]]]

(* What two comments say of the settings of an accepted start, and the code does   *)
(* not do (the run that checks it expects a violation): a key has "the first       *)
(* non-empty value found by walking layers" (setting_source.h:49), and the         *)
(* permission mode can be given "via .agentrc.json" (main.cpp:321).                *)
FirstValueDecides ==
  Answered("start") /\ asked.start # "report" /\ answer.value.ok =>
    LET told == Filled(StartLayers)
    IN  /\ answer.value.config = load_runtime_config(told, asked.host.tree, asked.host.executable)
        /\ answer.value.permission
             = parse_permission_mode(ValueOr(told, "AGENT_PERMISSION_MODE", "default"))

(* A start that is not refused has what the engine relies on: times that fit their *)
(* width in milliseconds, a threshold of compaction below its limit, a single      *)
(* credential, and a pack that is trusted and not the program's own, namely the    *)
(* one that is named or the one of the pointer nearest to the executable.          *)
AcceptedStartIsSound ==
  Answered("start") /\ asked.start # "report" /\ answer.value.ok =>
    LET config == answer.value.config
        places == PointerPlaces(asked.host.executable)
        tree == asked.host.tree
    IN  /\ config.credential.value # "" /\ config.url # "" /\ config.runtime_root # ""
        /\ \A key \in DOMAIN config.numbers : config.numbers[key] >= 1
        /\ \A key \in {"AGENT_MAX_TASK_SECONDS", "AGENT_MODEL_TIMEOUT_SECONDS"} :
             config.numbers[key] * 1000 <= MaxSigned
        /\ config.numbers["AGENT_COMPACTION_THRESHOLD_BYTES"]
             < config.numbers["AGENT_COMPACTION_HARD_LIMIT_BYTES"]
        /\ config.rag # <<>> =>
             LET root == config.rag[1].pack.root
             IN  /\ trusted_pack_root(tree, Place("absolute", root)) /\ ~inside_ready_directory(root)
                 /\ \/ \E i \in DOMAIN places :
                         /\ NodeKind(tree, places[i]) = "file"
                         /\ Supplied(places[i], tree[places[i]].names).parts = root
                         /\ \A j \in 1..i - 1 : NodeKind(tree, places[j]) = "absent"
                    \/ \E layer \in ToSet(StartLayers) :
                         /\ <<"AGENT_RAG_PACK_ROOT">> \in DOMAIN layer.values
                         /\ PathIn(layer.values[<<"AGENT_RAG_PACK_ROOT">>]).parts = root
================================================================================
