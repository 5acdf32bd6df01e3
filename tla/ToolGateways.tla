-------------------------------- MODULE ToolGateways -------------------------------
(* The tools as main.cpp wires them: a composite gateway over the workspace tools  *)
(* and the build tools, which run CMake and CTest by DirectProcessRunner           *)
(* (src/src/adapters/tools/composite_tool_gateway.cpp,                             *)
(* adapters/build/cmake_tool_gateway.cpp).  The runtime engine runs one tool that  *)
(* changes something at a time.                                                    *)
EXTENDS WorkspaceFiles, DirectProcess

CONSTANTS
  Trees,     \* what the workspace may hold when the program starts
  Builds,    \* calls of the build tools
  MaxCalls   \* bound: tool calls

ASSUME TreesHoldNodes == \A t \in Trees : \A path \in DOMAIN t : IsNode(t[path])

VARIABLES
  build,  \* the call of a build tool, while it is the last call
  calls

toolVars == <<fileVars, processVars, build, calls>>

Control == <<".agent">>
BuildDirectory == <<".agent", "cmake-build">>

NoBuild == [pc |-> "idle", request |-> NoRequest, answer |-> "none"]

Init ==
  /\ tree \in Trees
  /\ FilesInit /\ ProcessInit
  /\ build = NoBuild /\ calls = 0

Free == op.pc \in {"idle", "answered"} /\ build.pc \in {"idle", "answered"}

FileTools == {"replace_text", "write_file"}
BuildTools == {"configure_project", "build_project", "run_tests"}

(* The composite gateway: a name leads to the gateway that defines it. *)
Route(name) ==
  IF name \in FileTools THEN "workspace" ELSE IF name \in BuildTools THEN "build" ELSE "none"

(* exact_keys, valid_configuration, valid_target and the bounds of a test name:    *)
(* `option` is the target or the test name, "absent" when there is none.           *)
ValidBuild(request) ==
  /\ request.configuration \in {"Debug", "Release"}
  /\ request.tool = "configure_project" => request.option = "absent"
  /\ request.option # "not allowed"

CallFileTool(request) ==
  /\ Free /\ calls < MaxCalls /\ Route(request.tool) = "workspace"
  /\ Begin(request)
  /\ calls' = calls + 1 /\ build' = NoBuild
  /\ UNCHANGED processVars

CallBuildTool(request) ==
  /\ host = "windows"   \* the process runner is built there only
  /\ Free /\ calls < MaxCalls /\ Route(request.tool) = "build"
  /\ build' = IF ValidBuild(request)
              THEN [pc |-> "prepare", request |-> request, answer |-> "none"]
              ELSE [pc |-> "answered", request |-> request, answer |-> "invalid_arguments"]
  /\ calls' = calls + 1 /\ op' = Idle /\ late' = FALSE
  /\ UNCHANGED <<host, tree, lost, edits, kills, processVars>>

(* create_or_validate_directory, for .agent and then for the directory inside it. *)
Made(path) ==
  IF KindAt(tree, path) = "absent" THEN Put(tree, path, Directory) ELSE tree

PrepareDirectory(path, from, to) ==
  /\ build.pc = from
  /\ IF KindAt(Made(path), path) = "dir" /\ KindAt(tree, Front(path)) = "dir"
     THEN tree' = Made(path) /\ build' = [build EXCEPT !.pc = to]
     ELSE tree' = tree /\ build' = [build EXCEPT !.pc = "answered", !.answer = "access_denied"]
  /\ UNCHANGED <<host, op, late, lost, edits, kills, processVars, calls>>

RunCommand ==
  /\ build.pc = "run"
  /\ build' = [build EXCEPT !.pc = "running"]
  /\ StartRun \/ RefuseRun("start")
  /\ UNCHANGED <<fileVars, calls>>

(* A command that failed, or was ended, is an error of the tool that shows its     *)
(* output; a run that gave no result is "process_unavailable".                     *)
BuildAnswer ==
  IF output.kind = "error" THEN "process_unavailable"
  ELSE IF output.timed_out \/ output.exit_code # "0" THEN "failed"
  ELSE "passed"

(* What a run keeps is local to run_native. *)
RunIsForgotten ==
  /\ run' = "idle" /\ job' = NoJob /\ pipe' = <<>> /\ written' = <<>> /\ kept' = <<>>
  /\ reading' = FALSE /\ feeding' = FALSE /\ exit' = "none" /\ output' = NoOutput

BuildReturns ==
  /\ build.pc = "running" /\ run = "returned"
  /\ build' = [build EXCEPT !.pc = "answered", !.answer = BuildAnswer]
  /\ RunIsForgotten
  /\ UNCHANGED <<fileVars, calls>>

(* The program is killed: the job object is closed with it and ends the job. *)
ProgramDies ==
  /\ kills < MaxKills /\ ~Free
  /\ op' = Idle /\ build' = NoBuild /\ kills' = kills + 1
  /\ RunIsForgotten
  /\ UNCHANGED <<host, tree, late, lost, edits, calls>>

FileToolStep == FileStep /\ UNCHANGED <<processVars, build, calls>>

BuildToolStep ==
  \/ PrepareDirectory(Control, "prepare", "inside")
  \/ PrepareDirectory(BuildDirectory, "inside", "run")
  \/ RunCommand
  \/ BuildReturns

RunnerStep == ProcessStep /\ UNCHANGED <<fileVars, build, calls>>

(* Only the file tools look at these files: a change made between two of their     *)
(* calls is as good as one made when the second has just begun.                    *)
AnotherProgram ==
  /\ op.pc \notin {"idle", "answered"}
  /\ \E e \in Edits : Edit(e.path, e.node)
  /\ UNCHANGED <<processVars, build, calls>>

JobStep == CommandStep /\ UNCHANGED <<fileVars, build, calls>>

Next ==
  \/ \E request \in Requests : CallFileTool(request)
  \/ \E request \in Builds : CallBuildTool(request)
  \/ FileToolStep
  \/ BuildToolStep
  \/ RunnerStep
  \/ ProgramDies
  \/ AnotherProgram
  \/ JobStep

(* The calling thread goes on, the operating system runs the collecting and the    *)
(* feeding thread, and a wait with a limit ends.  Nothing is assumed of the        *)
(* command: it may write and live for ever.                                        *)
Fairness ==
  /\ WF_toolVars(FileToolStep)
  /\ WF_toolVars(BuildToolStep)
  /\ WF_toolVars(RunnerStep)

Spec == Init /\ [][Next]_toolVars /\ Fairness

(* -------------------------------- properties ----------------------------------- *)

(* Every call of a tool is answered, whatever the command does, what it started    *)
(* does, and the other program does to the files.                                  *)
EveryToolCallReturns == ~Free ~> Free
================================================================================
