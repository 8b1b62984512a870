-------------------------------- MODULE Output --------------------------------
(***************************************************************************)
(* What main does with the lowered module: the files LowerToObjectFile,    *)
(* LowerToExecutableFile and the text output write, on a platform where    *)
(* clang links.  The steps of LLVM, clang and the file system succeed or   *)
(* fail as they like.                                                      *)
(***************************************************************************)
EXTENDS FrontendErrors

CONSTANT EmitModes \* modes main may be called in, a subset of AllEmitModes

VARIABLES
  mode,          \* emit_mode
  step,          \* the next thing to do with the module
  output,        \* the file at output_path, as far as this run wrote it
  temporary,     \* the object file LowerToExecutableFile links; "left": it was to be removed
  linker,        \* whether findProgramByName finds clang
  exit           \* how the process ended: its exit code, "aborted", or not yet

outputVars == <<mode, step, output, temporary, linker, exit>>

AllEmitModes == {"executable", "llvm", "object"}
ASSUME EmitModesAssumption == EmitModes \subseteq AllEmitModes

InitOutput ==
  /\ mode \in EmitModes /\ linker \in BOOLEAN
  /\ step = "none"
  /\ output = "untouched" /\ temporary = "absent"
  /\ exit = "running"

StartOutput ==
  step' = CASE mode = "executable" -> "create temporary"
            [] mode = "object" -> "target"
            [] mode = "llvm" -> "open text"

\* FileRemover, when LowerToExecutableFile is left: nobody hears of a file that cannot be
\* removed.
RemoveTemporary ==
  temporary' \in IF temporary = "absent" THEN {"absent"} ELSE {"absent", "left"}

\* An exception, from a function that holds no file or that holds the temporary one.
Fail ==
  /\ Throw(Internal)
  /\ RemoveTemporary
  /\ step' = "none"
  /\ UNCHANGED <<mode, linker, exit>>

At(s) == exit = "running" /\ thrown = NoException /\ step = s
Go(s) == step' = s /\ UNCHANGED <<errorVars, mode, linker, exit>>
Finish == exit' = "0" /\ step' = "none" /\ UNCHANGED <<errorVars, mode, linker>>

-----------------------------------------------------------------------------
(* -emit-llvm *)

OpenText ==
  /\ At("open text")
  /\ \/ Fail /\ UNCHANGED output
     \/ output' = "opened" /\ Go("write text") /\ UNCHANGED temporary

\* Nobody looks at the stream again: a failed write ends like any other.
WriteText ==
  /\ At("write text")
  /\ output' \in {"opened", "written"}
  /\ Finish /\ UNCHANGED temporary

-----------------------------------------------------------------------------
(* LowerToObjectFile, to output_path or to the temporary file *)

ToTemporary == mode = "executable"

CreateTargetMachine ==
  /\ At("target")
  /\ UNCHANGED output
  /\ \/ Fail
     \/ Go("open object") /\ UNCHANGED temporary

\* The file is opened before it is known whether the target can emit it.
OpenObject ==
  /\ At("open object")
  /\ \/ Fail /\ UNCHANGED output
     \/ /\ Go("emit")
        /\ IF ToTemporary THEN temporary' = "opened" /\ UNCHANGED output
                          ELSE output' = "opened" /\ UNCHANGED temporary

Emit ==
  /\ At("emit")
  /\ \/ Fail /\ UNCHANGED output
     \/ IF ToTemporary
          THEN temporary' = "written" /\ UNCHANGED output /\ Go("link")
          ELSE output' = "written" /\ UNCHANGED temporary /\ Finish

\* LLVM ends the process, exit(1), when a stream is destroyed that could not be written: no
\* handler of main sees it, and FileRemover does not run.
EmitFails ==
  /\ At("emit")
  /\ exit' = "1"
  /\ UNCHANGED <<errorVars, mode, step, output, temporary, linker>>

-----------------------------------------------------------------------------
(* LowerToExecutableFile *)

CreateTemporaryFile ==
  /\ At("create temporary")
  /\ UNCHANGED output
  /\ \/ Fail
     \/ temporary' = "opened" /\ Go("target")

\* LinkExecutableWithClang: without clang a message is printed and that is all; a clang
\* that fails meets an assertion, and nothing is removed.
Link ==
  /\ At("link")
  /\ IF linker
       THEN output' = "written" /\ RemoveTemporary /\ Finish
       ELSE UNCHANGED output /\ RemoveTemporary /\ Finish

LinkFails ==
  /\ At("link") /\ linker
  /\ exit' = "aborted"
  /\ output' \in {"untouched", "absent"}
  /\ UNCHANGED <<errorVars, mode, step, temporary, linker>>

WriteOutput ==
  \/ OpenText \/ WriteText
  \/ CreateTargetMachine \/ OpenObject \/ Emit \/ EmitFails
  \/ CreateTemporaryFile \/ Link \/ LinkFails
=============================================================================
