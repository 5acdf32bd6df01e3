------------------------------- MODULE WorkspaceScan -------------------------------
(* list_files, search_text and the bounds on what a workspace tool returns         *)
(* (src/src/adapters/workspace/workspace_file_ops.cpp, workspace_tool_gateway.cpp).*)
(* Each is computed over a tree that does not change meanwhile.                    *)
EXTENDS WorkspacePaths, WorkspaceText, Functions

CONSTANTS
  MaxTextFileBytes,     \* kMaxTextFileBytes
  MaxTraversalEntries,  \* kMaxTraversalEntries
  MaxSearchFiles,       \* kMaxSearchFiles
  MaxSearchBytes,       \* kMaxSearchBytes
  MaxResultBytes,       \* kMaxResultBytes, in shown entries
  Enumerated(_, _),     \* a directory's children in the order the file system gives them
  Position(_)           \* the place of a path in the order of the path texts

(* Each path is put before the first one that comes later. *)
InOrder(paths) ==
  LET Placed(sorted, path) ==
        InsertAt(sorted, Min({i \in DOMAIN sorted : Position(path) < Position(sorted[i])}
                               \cup {Len(sorted) + 1}), path)
      ordered[n \in 0..Len(paths)] == IF n = 0 THEN <<>> ELSE Placed(ordered[n - 1], paths[n])
  IN  ordered[Len(paths)]

(* Those of the paths that are in the set. *)
Those(paths, set) ==
  LET those[n \in 0..Len(paths)] ==
        IF n = 0 THEN <<>>
        ELSE IF paths[n] \in set THEN Append(those[n - 1], paths[n]) ELSE those[n - 1]
  IN  those[Len(paths)]

NodesOf(tree, kind) == {p \in DOMAIN tree : tree[p].kind = kind}

(* A child of a directory a tool may see. *)
Visible(tree, child) ==
  /\ parse(child).ok
  /\ KindAt(tree, child) \in {"dir", "file"}
  /\ resolve_existing(tree, child, KindAt(tree, child) = "dir") = "found"

mark_truncated(output, reason) ==
  IF output.truncated = "" THEN [output EXCEPT !.truncated = reason] ELSE output

(* One directory of a traversal: its children up to the entry budget, in order.    *)
Inspect(tree, output, directory) ==
  LET children == Enumerated(tree, directory)
      room  == MaxTraversalEntries - output.inspected
      cut   == Len(children) > room
      kept  == InOrder(IF cut THEN SubSeq(children, 1, room) ELSE children)
      shown == Those(kept, {c \in ToSet(kept) : Visible(tree, c)})
      counted == [output EXCEPT !.inspected = @ + Len(kept),
                                !.omitted = @ + Len(kept) - Len(shown)]
  IN [output |-> IF cut THEN mark_truncated(counted, "entry_budget") ELSE counted,
      shown |-> shown, cut |-> cut, directories |-> Those(shown, NodesOf(tree, "dir"))]

(* What it adds to the entries and to the directories still to be read. *)
Step(tree, o, directory, rest, wanted, recursive) ==
  LET at == Inspect(tree, o, directory)
  IN [at.output EXCEPT
        !.entries = @ \o Those(at.shown, wanted),
        !.pending = IF at.cut THEN <<>> ELSE IF recursive THEN rest \o at.directories ELSE rest]

NoOutput == [entries |-> <<>>, inspected |-> 0, omitted |-> 0, truncated |-> "", pending |-> <<>>]

(* As many rounds as there can be directories. *)
Rounds(tree, step(_), start) ==
  LET round[n \in 0..Cardinality(DOMAIN tree)] == IF n = 0 THEN start ELSE step(round[n - 1])
  IN round[Cardinality(DOMAIN tree)]

(* The directories still to be read are a stack. *)
ListStep(tree, recursive, o) ==
  IF o.pending = <<>> THEN o
  ELSE Step(tree, o, Last(o.pending), Front(o.pending), DOMAIN tree, recursive)

list(tree, path, recursive, max_results) ==
  LET fault  == resolve_existing(tree, path, TRUE)
      all    == Rounds(tree, LAMBDA o : ListStep(tree, recursive, o),
                       [NoOutput EXCEPT !.pending = <<path>>])
      sorted == InOrder(all.entries)
  IN IF IsFault(fault) THEN [fault |-> fault]
     ELSE [fault |-> "", output |->
             IF Len(sorted) <= max_results THEN [all EXCEPT !.entries = sorted]
             ELSE mark_truncated([all EXCEPT !.entries = SubSeq(sorted, 1, max_results)],
                                 "max_results")]

(* Mutant: entries are dropped and nobody is told. *)
bounded_list_silently(listed) ==
  IF listed.fault # "" \/ Len(listed.output.entries) <= MaxResultBytes THEN listed
  ELSE [listed EXCEPT !.output.entries = SubSeq(@, 1, MaxResultBytes)]

(* Entries are dropped from the end until the answer is small enough. *)
bounded_list_json(listed) ==
  LET out == listed.output
  IN IF listed.fault # "" \/ Len(out.entries) <= MaxResultBytes THEN listed
     ELSE [listed EXCEPT !.output =
             mark_truncated([out EXCEPT !.entries = SubSeq(@, 1, MaxResultBytes)], "output_bytes")]

(* ------------------------------------- search ---------------------------------- *)

(* Here the directories are a queue and the files the entries. *)
SearchStep(tree, o) ==
  IF o.pending = <<>> THEN o
  ELSE Step(tree, o, Head(o.pending), Tail(o.pending), NodesOf(tree, "file"), TRUE)

LineFeed == 10
CarriageReturn == 13

(* The lines of a text without their ends; a text that ends with a line feed has   *)
(* no empty last line.                                                             *)
TextLines(text) ==
  LET Stripped(from, end) == IF end > from /\ text[end - 1] = CarriageReturn THEN end - 2 ELSE end - 1
      lines[from \in 1..Len(text) + 2] ==
        LET Line(end) == <<SubSeq(text, from, Stripped(from, end))>> \o lines[end + 1]
        IN  IF from > Len(text) THEN <<>>
            ELSE Line(Min({i \in from..Len(text) : text[i] = LineFeed} \cup {Len(text) + 1}))
  IN lines[1]

(* The matches of a file, in order: line, column and the part of the line shown.   *)
MatchesOf(path, text, query, case_sensitive) ==
  LET In(line, n, places) ==
        [k \in DOMAIN places |-> [path |-> path, line |-> n, column |-> utf8_column(line, places[k]),
                                  shown |-> line_fragment(line, places[k], Len(query))]]
      All(lines) ==
        FlattenSeq([n \in DOMAIN lines |->
                      In(lines[n], n, literal_matches(lines[n], query, case_sensitive))])
  IN All(TextLines(text))

NoMatches(o) == [matches |-> <<>>, files |-> 0, bytes |-> 0, omitted |-> o.omitted,
                 truncated |-> o.truncated, done |-> FALSE, fault |-> ""]

Ended(s, reason) == [mark_truncated(s, reason) EXCEPT !.done = TRUE]

(* A file that cannot be read is omitted, unless it is the one that was named. *)
Unreadable(s, direct, fault) ==
  IF direct THEN [s EXCEPT !.fault = fault, !.done = TRUE] ELSE [s EXCEPT !.omitted = @ + 1]

ScanFile(s, path, text, direct, query, case_sensitive, max_results) ==
  LET Size == Len(text)
      read == [s EXCEPT !.bytes = @ + Size, !.files = @ + 1]
      Matched(found, room) ==
        IF Len(found) > room
        THEN Ended([read EXCEPT !.matches = @ \o SubSeq(found, 1, room)], "max_results")
        ELSE [read EXCEPT !.matches = @ \o found]
  IN IF s.done THEN s
     ELSE IF s.files >= MaxSearchFiles THEN Ended(s, "file_budget")
     ELSE IF Size > MaxTextFileBytes THEN Unreadable(s, direct, "limit_exceeded")
     ELSE IF Size > MaxSearchBytes - s.bytes THEN Ended(s, "byte_budget")
     ELSE IF ~is_strict_utf8_text(text) THEN Unreadable(read, direct, "unsupported_file")
     ELSE Matched(MatchesOf(path, text, query, case_sensitive), max_results - Len(s.matches))

search(tree, path, query, case_sensitive, max_results) ==
  LET Scanned(found, candidates, direct) ==
        LET scanned[n \in 0..Len(candidates)] ==
              IF n = 0 THEN NoMatches(found)
              ELSE ScanFile(scanned[n - 1], candidates[n], tree[candidates[n]].text, direct,
                            query, case_sensitive, max_results)
        IN  scanned[Len(candidates)]
      In(found, direct) == Scanned(found, InOrder(found.entries), direct)
      Named(fault) == IF IsFault(fault) THEN [fault |-> fault]
                      ELSE In([NoOutput EXCEPT !.entries = <<path>>], TRUE)
      Resolved(fault) ==
        IF fault = "unsupported_file" THEN Named(resolve_existing(tree, path, FALSE))
        ELSE IF IsFault(fault) THEN [fault |-> fault]
        ELSE In(Rounds(tree, LAMBDA o : SearchStep(tree, o),
                       [NoOutput EXCEPT !.pending = <<path>>]), FALSE)
  IN IF query = <<>> \/ ~is_strict_utf8_text(query) THEN [fault |-> "invalid_arguments"]
     ELSE Resolved(resolve_existing(tree, path, TRUE))

bounded_search_json(found) ==
  IF found.fault # "" \/ Len(found.matches) <= MaxResultBytes THEN found
  ELSE mark_truncated([found EXCEPT !.matches = SubSeq(@, 1, MaxResultBytes)], "output_bytes")

(* ------------------------------- the pages of a file --------------------------- *)

(* bounded_read_json: an answer is longer than the text it holds, because of the   *)
(* bytes JSON escapes, and whole lines are dropped from its end until it fits.     *)
(* Encoded is the length of each line once escaped.                                *)
bounded_read_json(page, encoded) ==
  LET size[end \in page.start - 1..page.end] ==
        IF end < page.start THEN 0 ELSE size[end - 1] + encoded[end]
      Fitting == {end \in page.start..page.end : size[end] <= MaxResultBytes}
  IN IF page.end < page.start \/ size[page.end] <= MaxResultBytes THEN page
     ELSE IF Fitting = {} THEN PageFault("limit_exceeded")
     ELSE Page(page.start, CHOOSE end \in Fitting : \A e \in Fitting : e <= end, page.total)

(* read_file of a file whose lines have these lengths, raw and escaped. *)
read_page(lines, encoded, start, max_lines, budget) ==
  LET page == line_page(lines, start, max_lines, budget)
  IN IF page.fault # "" THEN page ELSE bounded_read_json(page, encoded)
================================================================================
