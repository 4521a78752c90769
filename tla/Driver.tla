-------------------------------- MODULE Driver --------------------------------
(***************************************************************************)
(* The driver script (src/tool/taffo/taffo.sh): it runs the passes one     *)
(* after another on files in a temporary directory, with -feedback in a    *)
(* loop that lets the estimators judge the result and picks other options  *)
(* for the data type allocation.  Any program it calls may fail.           *)
(*                                                                         *)
(* A file is abstracted to the option its contents were made with, which   *)
(* is Initial, the default of the pass, where none has been chosen.        *)
(***************************************************************************)
EXTENDS FeedbackEstimator

CONSTANTS
    Missing,    \* no file
    Old         \* a file left by an earlier run that shared -temp-dir

Stage == {"init", "vra", "dta", "conv", "err", "float", "perf"}

VARIABLES
    feedback, errorprop, vra,   \* the command line, never changed
    pc,         \* what the script does next
    file,       \* what each stage wrote
    fe,         \* the state file of the feedback estimator
    flags,      \* dta_flags, the option in it
    stop,       \* feedback_stop
    output,     \* the output file
    rc,         \* the exit status
    used,       \* the options of the data type allocations so far
    failed      \* the programs that failed

settings == <<feedback, errorprop, vra>>
vars == <<settings, pc, file, fe, flags, stop, output, rc, used, failed>>

FileT == Option \cup {Missing, Old}
ASSUME FileAssumption == Missing \notin Option /\ Old \notin Option

Label == Stage \cup {"frontend", "fe_init", "loop", "again", "fe", "backend",
                     "cleanup", "exit"}

\* State files of another program's search, and none.
OldStates == {Missing, [option |-> 0, previous |-> {Initial}, stop |-> FALSE]}

Init ==
    /\ feedback \in BOOLEAN /\ errorprop \in BOOLEAN /\ vra \in BOOLEAN
    /\ pc = "frontend"
    /\ \E reused \in BOOLEAN :
          /\ file = [s \in Stage |-> IF reused THEN Old ELSE Missing]
          /\ fe \in IF reused THEN OldStates ELSE {Missing}
    /\ flags = Initial /\ stop = FALSE
    /\ output = Missing /\ rc = 0
    /\ used = {} /\ failed = {}

\* A program p fails and || exit $? ends the script.
ExitBy(p) ==
    /\ failed' = failed \cup {p}
    /\ rc' = 1
    /\ pc' = "exit"
    /\ UNCHANGED <<settings, file, fe, flags, stop, output, used>>

\* Stage s writes its file and the script goes on at next.
Write(s, next) ==
    /\ file' = [file EXCEPT ![s] = flags]
    /\ pc' = next
    /\ UNCHANGED <<settings, fe, flags, stop, output, rc, used, failed>>

Continue(next) ==
    /\ pc' = next
    /\ UNCHANGED <<settings, file, fe, flags, stop, output, rc, used, failed>>

\* clang and llvm-link, or the failure of either.
Frontend ==
    /\ pc = "frontend"
    /\ Continue("init") \/ ExitBy("frontend")

Initialize ==
    /\ pc = "init"
    /\ Write("init", "vra") \/ ExitBy("init")

\* With -disable-vra the file is copied; nothing looks whether cp succeeds.
RangeAnalysis ==
    /\ pc = "vra"
    /\ LET next == IF feedback THEN "fe_init" ELSE "loop" IN
       \/ Write("vra", next)
       \/ vra /\ ExitBy("vra")
       \/ /\ ~vra
          /\ failed' = failed \cup {"cp"}
          /\ pc' = next
          /\ UNCHANGED <<settings, file, fe, flags, stop, output, rc, used>>

\* taffo-fe --init, in a command substitution whose status nothing looks at.
InitFeedback ==
    /\ pc = "fe_init"
    /\ pc' = "loop"
    /\ \/ fe' = NewState /\ flags' = NewState.option /\ UNCHANGED failed
       \/ failed' = failed \cup {"fe_init"} /\ UNCHANGED <<fe, flags>>
    /\ UNCHANGED <<settings, file, stop, output, rc, used>>

\* while [[ $feedback_stop -eq 0 ]]
Loop ==
    /\ pc = "loop"
    /\ Continue(IF stop THEN "backend" ELSE "dta")

\* opt fails without its input.
DataTypeAlloc ==
    /\ pc = "dta"
    /\ \/ /\ file["vra"] # Missing
          /\ file' = [file EXCEPT !["dta"] = IF file["vra"] = Old THEN Old ELSE flags]
          /\ used' = used \cup {flags}
          /\ pc' = "conv"
          /\ UNCHANGED <<settings, fe, flags, stop, output, rc, failed>>
       \/ ExitBy("dta")

\* What opt -flttofix and the passes behind it make of the file of stage s.
Pass(s, from, next) ==
    /\ file' = [file EXCEPT ![s] = file[from]]
    /\ pc' = next
    /\ UNCHANGED <<settings, fe, flags, stop, output, rc, used, failed>>

AfterConversion == IF errorprop \/ feedback THEN "err" ELSE "again"

Conversion_Unchecked ==
    /\ pc = "conv"
    /\ Pass("conv", "dta", AfterConversion) \/ Continue(AfterConversion)
Conversion ==
    /\ pc = "conv"
    /\ Pass("conv", "dta", AfterConversion) \/ ExitBy("conv")

ErrorPropagation_Unchecked ==
    /\ pc = "err"
    /\ Pass("err", "conv", "again") \/ Continue("again")
ErrorPropagation ==
    /\ pc = "err"
    /\ Pass("err", "conv", "again") \/ ExitBy("err")

\* Without -feedback the loop is left here.
Again ==
    /\ pc = "again"
    /\ Continue(IF feedback THEN "float" ELSE "backend")

BuildFloat ==
    /\ pc = "float"
    /\ Write("float", "perf") \/ ExitBy("float")

PerformanceEstimation ==
    /\ pc = "perf"
    /\ Pass("perf", "conv", "fe") \/ ExitBy("perf")

\* newflgs=$(taffo-fe ... || exit $?): exit leaves the subshell only, and an
\* empty answer ends the loop as STOP does.
FeedbackEstimate ==
    /\ pc = "fe"
    /\ pc' = "loop"
    /\ \/ /\ fe # Missing
          /\ \E pe \in Prediction, ok \in BOOLEAN : \E t \in Advance(fe, pe, ok) :
                /\ fe' = t
                /\ stop' = t.stop
                /\ flags' = IF t.stop THEN flags ELSE t.option
          /\ UNCHANGED failed
       \/ /\ stop' = TRUE
          /\ failed' = failed \cup {"fe"}
          /\ UNCHANGED <<fe, flags>>
    /\ UNCHANGED <<settings, file, output, rc, used>>

\* The last compilation; with -S or -emit-llvm an unchecked cp.
Backend ==
    /\ pc = "backend"
    /\ \/ /\ output' = file["conv"] /\ pc' = "cleanup"
          /\ UNCHANGED <<settings, file, fe, flags, stop, rc, used, failed>>
       \/ /\ failed' = failed \cup {"cp"} /\ pc' = "cleanup"
          /\ UNCHANGED <<settings, file, fe, flags, stop, output, rc, used>>
       \/ ExitBy("backend")

\* The float program is compiled where -float-output asks for it, and the
\* files are not used any more.
Cleanup ==
    /\ pc = "cleanup"
    /\ Continue("exit") \/ ExitBy("float")

Step ==
    \/ Frontend \/ Initialize \/ RangeAnalysis \/ InitFeedback
    \/ Loop \/ DataTypeAlloc \/ Conversion \/ ErrorPropagation \/ Again
    \/ BuildFloat \/ PerformanceEstimation \/ FeedbackEstimate
    \/ Backend \/ Cleanup

Next == Step \/ (pc = "exit" /\ UNCHANGED vars)

\* The script runs on, and the programs it calls return or fail.
Spec == Init /\ [][Next]_vars /\ WF_vars(Step)

-----------------------------------------------------------------------------
(* Properties.                                                             *)

TypeOK ==
    /\ feedback \in BOOLEAN /\ errorprop \in BOOLEAN /\ vra \in BOOLEAN
    /\ pc \in Label
    /\ file \in [Stage -> FileT]
    /\ fe \in StateT \cup {Missing}
    /\ flags \in Option
    /\ stop \in BOOLEAN
    /\ output \in FileT
    /\ rc \in {0, 1}
    /\ used \subseteq Option
    /\ failed \subseteq Label \cup {"cp"}

(***************************************************************************)
(* No round of the feedback loop allocates types with an option that an    *)
(* earlier round has tried, provided the search began with its own state.  *)
(***************************************************************************)
FreshOption == pc = "dta" /\ "fe_init" \notin failed => flags \notin used

(***************************************************************************)
(* When the feedback estimator is called, both estimates are of the        *)
(* program that was converted last, made with the options of this round,   *)
(* whichever programs have failed.  Left out is the one failure after      *)
(* which it is false: with -disable-vra, that of the cp (taffo.sh:395)     *)
(* over the file of an earlier run, which all rounds then go on with.      *)
(***************************************************************************)
EstimatesCurrent ==
    pc = "fe" /\ file["vra"] # Old =>
        /\ flags \in used
        /\ file["conv"] = flags /\ file["err"] = flags /\ file["perf"] = flags

(***************************************************************************)
(* When the script succeeds, and no copying of a file has failed, whose    *)
(* status nothing looks at, the output is the program that was converted   *)
(* last; without -feedback, with the options given.                        *)
(***************************************************************************)
OutputCurrent ==
    pc = "exit" /\ rc = 0 /\ "cp" \notin failed =>
        /\ output = flags /\ flags \in used
        /\ ~feedback => flags = Initial

(***************************************************************************)
(* What makes FreshOption inductive: in a round of its own search the      *)
(* options used are those of the previous states and, from the allocation  *)
(* on, the current one; without -feedback there is one round only.         *)
(***************************************************************************)
Early == {"frontend", "init", "vra", "fe_init"}
Converting == {"conv", "err", "again", "float", "perf", "fe"}
Round == {"loop", "dta"} \cup Converting

OneRound ==
    /\ pc \in Early => used = {} /\ ~stop
    /\ ~feedback =>
          /\ pc \notin {"fe_init", "float", "perf", "fe"}
          /\ pc \in {"loop", "dta"} => used = {}
          /\ flags = Initial
    /\ stop => pc \notin {"dta"} \cup Converting

OwnSearch ==
    feedback /\ "fe_init" \notin failed /\ pc \in Round /\ ~stop =>
        /\ fe \in StateT
        /\ flags = fe.option /\ fe.option \notin fe.previous
        /\ used \subseteq fe.previous \cup {fe.option}
        /\ pc \in {"loop", "dta"} => fe.option \notin used

(***************************************************************************)
(* What makes EstimatesCurrent and OutputCurrent inductive: how far the    *)
(* options of this round have come.                                        *)
(***************************************************************************)
Made(s) == file[s] = flags

FilesCurrent ==
    /\ file["vra"] # Old =>
        /\ pc \in Converting => Made("dta") /\ flags \in used
        /\ pc \in {"err", "again", "float", "perf", "fe"} => Made("conv")
        /\ pc \in {"again", "float", "perf", "fe"} /\ feedback => Made("err")
        /\ pc = "fe" => Made("perf")
        /\ (pc = "loop" /\ stop) \/ pc = "backend" => Made("conv") /\ flags \in used
    /\ "cp" \notin failed =>
        /\ pc \in {"fe_init", "backend"} \cup Round => file["vra"] \in Option
        /\ pc = "cleanup" => output = flags /\ flags \in used
        /\ pc = "exit" /\ rc = 0 => output = flags /\ flags \in used

(***************************************************************************)
(* The script ends, whatever the estimators say and whichever programs     *)
(* fail.                                                                   *)
(***************************************************************************)
Terminates == <>(pc = "exit")
=============================================================================
