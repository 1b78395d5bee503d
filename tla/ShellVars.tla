----------------------------- MODULE ShellVars ------------------------------
(***************************************************************************)
(* The shell's variables (exec/frame_stack.rs) while it runs lines         *)
(* (shell/mod.rs): plain assignments, assignments for one command, export  *)
(* and unset, through scripts, sourced scripts and pipelines.  A frame has *)
(* one value for each name; a variable set for one command is saved first  *)
(* and put back when the command is done, whatever happened to it.         *)
(*                                                                         *)
(* run_line_inner is one recursive function: its activations are the       *)
(* stack.  Streams and open files are in ShellExec.                        *)
(***************************************************************************)
EXTENDS Naturals, Sequences, SequencesExt

CONSTANTS
    Name,           \* names of variables
    Literal,        \* values that words spell out
    Blank,          \* the empty value, what a variable that is not set expands to
    Unset,          \* no variable
    MaxAssign,      \* bound: assignments of a segment
    MaxLines,       \* bound: lines of a script
    MaxStages,      \* bound: stages of a pipeline
    MaxDepth        \* MAX_SCRIPT_DEPTH

ASSUME ShellVarsAssumption ==
    /\ {MaxAssign, MaxLines, MaxStages, MaxDepth} \subseteq Nat
    /\ Unset \notin [value : Literal \cup {Blank}, exported : BOOLEAN]

Value == Literal \cup {Blank}
Var == [value : Value, exported : BOOLEAN]
Env == [Name -> Var \cup {Unset}]
Saved == [name : Name, was : Var \cup {Unset}]
Before == UNION {[N -> Var \cup {Unset}] : N \in SUBSET Name}

Activation ==
    [kind : {"segment", "source", "script", "pipe", "stage"},
     level : Nat \ {0},     \* the frame it runs against
     depth : Nat,           \* how many scripts it is in
     left : Nat,            \* what it may still run: lines, stages, assignments, a command
     command : BOOLEAN,     \* a segment: whether its words came out as a command
     phase : {"assign", "run", "export", "unset", "restore"},
     saved : Seq(Saved),    \* a segment: what its assignments replaced
     first : Before]
                            \* a segment: what each name it assigned was when it began (history)

VARIABLES
    frames,     \* the variables of every frame of FRAMES
    stack       \* activations

vars == <<frames, stack>>

Init ==
    /\ frames = << [n \in Name |-> Unset] >>
    /\ stack = << >>

TypeOK ==
    /\ frames \in Seq(Env) /\ frames # << >>
    /\ stack \in Seq(Activation)

-----------------------------------------------------------------------------
(* Variables (ShellFrame).                                                 *)

Here == Last(frames)
IsExported(n) == Here[n] # Unset /\ Here[n].exported
SetHere(n, what) == frames' = [frames EXCEPT ![Len(frames)][n] = what]

SetVar(n, value) == SetHere(n, [value |-> value, exported |-> IsExported(n)])
ExportVar(n, value) == SetHere(n, [value |-> value, exported |-> TRUE])

\* A word: a literal, or $NAME.
Words == Literal \cup Name
Expanded(word) ==
    IF word \in Literal THEN word
    ELSE IF Here[word] = Unset THEN Blank ELSE Here[word].value

\* Mutant of PushChild: the script is forked and not executed.
PushCopy == frames' = Append(frames, Here)

PushChild ==
    frames' = Append(frames, [n \in Name |-> IF IsExported(n) THEN Here[n] ELSE Unset])
PushSubshell == frames' = Append(frames, Here)
Pop == frames' = Front(frames)

-----------------------------------------------------------------------------
(* Activations.                                                            *)

Top == Last(stack)
In(kinds) == stack # << >> /\ Top.kind \in kinds
Running(phases) == In({"segment"}) /\ Top.phase \in phases

\* Where the next line or segment runs: at the prompt, in a script, in a stage.
MayRun(kinds) == stack = << >> \/ (In(kinds) /\ Top.left > 0)
Spent == IF stack = << >> THEN << >> ELSE [stack EXCEPT ![Len(stack)].left = @ - 1]

Depth == IF stack = << >> THEN 0 ELSE Top.depth
Begun(kind, level, depth, left) ==
    [kind |-> kind, level |-> level, depth |-> depth, left |-> left, command |-> FALSE,
     phase |-> "run", saved |-> << >>, first |-> [n \in {} |-> Unset]]

Return == stack' = Front(stack)

\* run_segment_with: the words are expanded first, and may come out as no command.
RunSegment ==
    /\ MayRun({"source", "script", "stage"})
    /\ \E command \in BOOLEAN :
         stack' = Append(Spent, [Begun("segment", Len(frames), Depth, MaxAssign)
                                 EXCEPT !.command = command, !.phase = "assign"])
    /\ UNCHANGED frames

RunPipeline ==
    /\ MayRun({"source", "script"})
    /\ stack' = Append(Spent, Begun("pipe", Len(frames), Depth, MaxStages))
    /\ UNCHANGED frames

\* with_subshell: a stage, the last one included, runs against a copy of the frame.
RunStage ==
    /\ In({"pipe"}) /\ Top.left > 0
    /\ PushSubshell
    /\ stack' = Append(Spent, Begun("stage", Len(frames) + 1, Depth, 1))

EndStage == In({"stage"}) /\ Top.left = 0 /\ Pop /\ Return

\* After the last stage, or when one cannot be set up.
EndPipeline == In({"pipe"}) /\ Return /\ UNCHANGED frames

-----------------------------------------------------------------------------
(* Segments.                                                               *)

\* Segment a with what n is saved, before one more assignment for its command.
Saving(a, n) ==
    [a EXCEPT !.left = @ - 1,
              !.saved = Append(@, [name |-> n, was |-> Here[n]]),
              !.first = [m \in DOMAIN @ \cup {n} |-> IF m \in DOMAIN @ THEN @[m] ELSE Here[n]]]

Assignment ==
    /\ Running({"assign"}) /\ Top.left > 0
    /\ \E n \in Name, word \in Words :
         IF Top.command
         THEN /\ ExportVar(n, Expanded(word))
              /\ stack' = [stack EXCEPT ![Len(stack)] = Saving(@, n)]
         ELSE SetVar(n, Expanded(word)) /\ stack' = Spent

\* run_command: nothing, one of the builtins that change variables, or another command.
RunCommand ==
    /\ Running({"assign"})
    /\ \E phase \in IF Top.command THEN {"run", "export", "unset"} ELSE {"restore"} :
         stack' = [stack EXCEPT ![Len(stack)] = [@ EXCEPT !.phase = phase, !.left = 1]]
    /\ UNCHANGED frames

\* An operand of export: NAME or NAME=VALUE.
Export ==
    /\ Running({"export"})
    /\ \E n \in Name :
         \/ Here[n] # Unset /\ ExportVar(n, Here[n].value)
         \/ \E word \in Words : ExportVar(n, Expanded(word))
    /\ UNCHANGED stack

UnsetVar ==
    /\ Running({"unset"})
    /\ \E n \in Name : SetHere(n, Unset)
    /\ UNCHANGED stack

\* The command is a script: source runs it here, sh and ./script against a child's frame.
Source ==
    /\ Running({"run"}) /\ Top.left > 0 /\ Top.depth < MaxDepth
    /\ stack' = Append(Spent, Begun("source", Len(frames), Top.depth + 1, MaxLines))
    /\ UNCHANGED frames

RunScript ==
    /\ Running({"run"}) /\ Top.left > 0 /\ Top.depth < MaxDepth
    /\ PushChild
    /\ stack' = Append(Spent, Begun("script", Len(frames) + 1, Top.depth + 1, MaxLines))

EndSource == In({"source"}) /\ Return /\ UNCHANGED frames
EndScript == In({"script"}) /\ Pop /\ Return

\* The script is done, or the command was one that leaves the variables alone: a program, cd.
CommandEnds ==
    /\ Running({"run", "export", "unset"})
    /\ stack' = [stack EXCEPT ![Len(stack)].phase = "restore"]
    /\ UNCHANGED frames

\* Mutant of RestoreAssignment: first first.
RestoreForward ==
    /\ Running({"restore"}) /\ Top.saved # << >>
    /\ SetHere(Head(Top.saved).name, Head(Top.saved).was)
    /\ stack' = [stack EXCEPT ![Len(stack)].saved = Tail(@)]

\* restore_assignments: last first.
RestoreAssignment ==
    /\ Running({"restore"}) /\ Top.saved # << >>
    /\ SetHere(Last(Top.saved).name, Last(Top.saved).was)
    /\ stack' = [stack EXCEPT ![Len(stack)].saved = Front(@)]

EndSegment ==
    /\ Running({"restore"}) /\ Top.saved = << >>
    /\ Return
    /\ UNCHANGED frames

Next ==
    \/ RunSegment \/ RunPipeline \/ RunStage \/ EndStage \/ EndPipeline
    \/ Assignment \/ RunCommand \/ Export \/ UnsetVar
    \/ Source \/ RunScript \/ EndSource \/ EndScript
    \/ CommandEnds \/ RestoreAssignment \/ EndSegment

Spec == Init /\ [][Next]_vars

-----------------------------------------------------------------------------
(* What must hold.                                                         *)

(***************************************************************************)
(* When a command is done, each variable that was set for it is what it    *)
(* was before, its exported flag included, in the frame it was set in      *)
(* (frame_stack.rs:11-12, 139-141; shell/mod.rs:295: "a name assigned      *)
(* twice ends as it began"): through sourced scripts that assign, export   *)
(* or unset the same names, and whatever frames were pushed meanwhile.     *)
(***************************************************************************)
AssignmentsUndone ==
    Running({"restore"}) /\ Top.saved = << >> =>
        /\ Len(frames) = Top.level
        /\ \A n \in DOMAIN Top.first : Here[n] = Top.first[n]

\* What is saved of n, and what n was when it was saved first.
Keeps(saved, n) == \E k \in DOMAIN saved : saved[k].name = n
IsFirst(k, saved, n) ==
    /\ k \in DOMAIN saved /\ saved[k].name = n
    /\ \A l \in 1 .. k - 1 : saved[l].name # n
FirstKept(saved, n) == saved[CHOOSE k \in DOMAIN saved : IsFirst(k, saved, n)].was

\* What activation i of the stack, or the prompt (0), sees as n on its frame.
LevelOf(i) == IF i = 0 THEN 1 ELSE stack[i].level
Keepers(i, n) ==
    {j \in i + 1 .. Len(stack) : stack[j].level = LevelOf(i) /\ Keeps(stack[j].saved, n)}
SeenAt(i, n) ==
    IF Keepers(i, n) = {} THEN frames[LevelOf(i)][n]
    ELSE FirstKept(stack[CHOOSE j \in Keepers(i, n) : \A k \in Keepers(i, n) : j <= k].saved, n)

(***************************************************************************)
(* Why they are undone.  Activations follow the frames: one that pushed a  *)
(* frame runs one level above the one below it, and the last against the   *)
(* top frame.  Only the last can be anywhere but in the middle of its      *)
(* command.  And what a name was is the first thing saved of it, until it  *)
(* is put back.                                                            *)
(***************************************************************************)
Pushes(a) == IF a.kind \in {"script", "stage"} THEN 1 ELSE 0
Nested ==
    /\ \A i \in DOMAIN stack : stack[i].level = LevelOf(i - 1) + Pushes(stack[i])
    /\ Len(frames) = LevelOf(Len(stack))

Orderly ==
    \A i \in DOMAIN stack :
        /\ i < Len(stack) => stack[i].phase = "run"
        /\ stack[i].kind # "segment" =>
               stack[i].phase = "run" /\ stack[i].saved = << >> /\ DOMAIN stack[i].first = {}

KeptOrBack ==
    \A i \in DOMAIN stack :
        /\ \A n \in Name : Keeps(stack[i].saved, n) => n \in DOMAIN stack[i].first
        /\ \A n \in DOMAIN stack[i].first :
               IF Keeps(stack[i].saved, n)
               THEN FirstKept(stack[i].saved, n) = stack[i].first[n]
               ELSE stack[i].phase = "restore" /\ Here[n] = stack[i].first[n]

\* The names an activation has bindings of its own for.
Bound(i) ==
    IF i = 0 \/ stack[i].kind \in {"script", "stage"} THEN Name
    ELSE {n \in Name : Keeps(stack[i].saved, n)}

\* A segment that puts its variables back has given them up.
Open == IF Running({"restore"}) THEN Len(stack) - 1 ELSE Len(stack)

KindOf(i) ==
    IF i = 0 \/ stack[i].kind = "script" THEN "process"
    ELSE IF stack[i].kind = "stage" THEN "subshell" ELSE "local"

ScopesNow ==
    [i \in 1 .. Open + 1 |->
         [kind |-> KindOf(i - 1), of |-> [n \in Bound(i - 1) |-> SeenAt(i - 1, n)]]]

Promise == INSTANCE DynamicScope WITH scopes <- ScopesNow

(***************************************************************************)
(* Saving and putting back on one flat frame implements scopes with        *)
(* bindings of their own: no order of assignments, scripts and pipelines   *)
(* can tell the difference.                                                *)
(***************************************************************************)
ImplementsDynamicScope == Promise!Spec
=============================================================================
