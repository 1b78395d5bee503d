----------------------------- MODULE ShellExec ------------------------------
(***************************************************************************)
(* How the shell runs a line (shell/mod.rs): pipelines whose stages are    *)
(* joined by temp files, redirections, scripts that run lines of their     *)
(* own, and programs -- and who holds which open file meanwhile.  The      *)
(* shell is one recursive function; its activations are the stack here.    *)
(*                                                                         *)
(* An open file lives as long as a reference to it: in a frame's streams,  *)
(* in the streams with_stdio has set aside, or in the program's fd table.  *)
(* When the last one goes the file is closed, and only that commits what   *)
(* was written to it (fs/files.rs).                                        *)
(***************************************************************************)
EXTENDS Naturals, Sequences, SequencesExt, FiniteSets

CONSTANTS
    Slot,           \* open files: MAX_OPEN_FILES of them
    UserPath,       \* paths that redirections and programs name; those of Temp are temp names
    TakenTemp,      \* temp names that files of the user's have from the start
    MaxCounter,     \* bound: PIPE_COUNTER
    Attempts,       \* MAX_PIPE_NAME_ATTEMPTS
    MaxStages,      \* bound: stages of a pipeline
    MaxLines,       \* bound: lines of a script
    MaxRedirs,      \* bound: redirections of a segment
    MaxDepth,       \* MAX_SCRIPT_DEPTH
    MountsTmp,      \* whether programs mount a volume on /tmp
    Default, Closed

Temp == 0 .. MaxCounter
Node == {"root", "over"} \X (Temp \cup UserPath)
Content == {"none", "empty", "full", "user"}
OpenFile == [node : Node, mode : {"r", "w"}, sees : Content]

ASSUME ShellExecAssumption ==
    /\ {MaxCounter, MaxStages, MaxLines, MaxRedirs, MaxDepth} \subseteq Nat
    /\ Attempts \in Nat \ {0}
    /\ UserPath \subseteq Nat /\ TakenTemp \subseteq Temp
    /\ MountsTmp \in BOOLEAN
    /\ Default \notin Slot /\ Closed \notin OpenFile

Stream == 1 .. 3            \* stdin, stdout, stderr
Stdio == [Stream -> Slot \cup {Default}]

VARIABLES
    stack,      \* the activations: script, pipe, segment, program
    frames,     \* the streams of every frame of FRAMES
    fds,        \* FD_TABLE: <<stream, file>>, or <<0, file>> for a file the program opened
    files,      \* every OpenFile: where it is, its mode, what a reader sees
    disk,       \* the contents of every file on disk
    counter,    \* PIPE_COUNTER
    tmpMounted  \* whether a volume is mounted on /tmp

vars == <<stack, frames, fds, files, disk, counter, tmpMounted>>

DefaultStdio == [s \in Stream |-> Default]

Init ==
    /\ stack = << >>
    /\ frames = <<DefaultStdio>>
    /\ fds = {}
    /\ files = [f \in Slot |-> Closed]
    /\ disk = [n \in Node |-> IF n[1] = "root" /\ n[2] \in TakenTemp THEN "user" ELSE "none"]
    /\ counter = 0
    /\ tmpMounted = FALSE

Top == Last(stack)
NodeOf(path) == <<IF tmpMounted /\ path \in Temp THEN "over" ELSE "root", path>>

-----------------------------------------------------------------------------
(* Open files (fs/files.rs).                                               *)

FilesIn(stdio) == {stdio[s] : s \in Stream} \ {Default}

\* Everything that holds a reference.
Held(stk, frs, table) ==
    {fd[2] : fd \in table}
          \cup (UNION {FilesIn(frs[i]) : i \in DOMAIN frs})
          \cup (UNION {FilesIn(stk[i].saved) : i \in {j \in DOMAIN stk : stk[j].type = "segment"}})

\* Mutant of Committed: a dropped writer is not finished.
Uncommitted(fs, dk, gone) == dk

\* OpenFile's drop: a writer's size reaches the disk.
Committed(fs, dk, gone) ==
    [n \in Node |-> IF dk[n] = "empty" /\ \E f \in gone : fs[f].mode = "w" /\ fs[f].node = n
                    THEN "full" ELSE dk[n]]

\* The references as they are after a step, and the files that lost their last one.
Release(stk, frs, table, fs, dk) ==
    LET gone == {f \in Slot : fs[f] # Closed /\ f \notin Held(stk, frs, table)}
    IN  /\ stack' = stk /\ frames' = frs /\ fds' = table
        /\ files' = [f \in Slot |-> IF f \in gone THEN Closed ELSE fs[f]]
        /\ disk' = Committed(fs, dk, gone)

\* files::open.  EMFILE when every slot is taken; a second writer is refused.
MayOpen(at, path, mode) ==
    /\ \E f \in Slot : at.files[f] = Closed
    /\ mode = "r" => at.disk[NodeOf(path)] # "none"
    /\ mode = "w" => ~\E f \in Slot : /\ at.files[f] # Closed
                                      /\ at.files[f].mode = "w"
                                      /\ at.files[f].node = NodeOf(path)

\* What a created or truncated file is: a pipe's, empty until it is committed, or the user's.
Open(at, path, mode, content) ==
    LET f == CHOOSE x \in Slot : at.files[x] = Closed
        n == NodeOf(path)
        dk == IF mode = "w" THEN [at.disk EXCEPT ![n] = content] ELSE at.disk
    IN  [files |-> [at.files EXCEPT ![f] = [node |-> n, mode |-> mode, sees |-> at.disk[n]]],
         disk |-> dk, id |-> f]

Now == [files |-> files, disk |-> disk, id |-> Default]

-----------------------------------------------------------------------------
(* Lines.                                                                  *)

\* The depth at which the next line runs: at the prompt, or in a script.
LineDepth == IF stack = << >> THEN 0 ELSE Top.depth + 1
AtLine == stack # << >> => (Top.type = "script" /\ Top.left > 0)
Rest == IF stack = << >> THEN << >>
        ELSE Append(Front(stack), [Top EXCEPT !.left = @ - 1])

Segment(level, depth, saved, sub) ==
    [type |-> "segment", level |-> level, depth |-> depth, saved |-> saved, sub |-> sub,
     redirs |-> 0, ran |-> FALSE]

\* run_segment: a single command, under with_stdio.
RunSegment ==
    /\ AtLine
    /\ Release(Append(Rest, Segment(Len(frames), LineDepth, Last(frames), FALSE)),
               frames, fds, files, disk)
    /\ UNCHANGED <<counter, tmpMounted>>

\* cleanup_temps: unlink does not look at who has a file open.
Cleaned(dk, temps) ==
    [n \in Node |-> IF \E i \in DOMAIN temps : n = NodeOf(temps[i]) THEN "none" ELSE dk[n]]

Taken(k) == k \in Temp /\ disk[NodeOf(k)] # "none"

\* Mutant of CounterStart: every pipeline numbers its own temp files.
RestartedCounter == 0

CounterStart == counter

\* The names that PIPE_COUNTER has still to give, after those of `names`.
Ahead(names) == {k \in Temp : CounterStart <= k /\ \A i \in DOMAIN names : names[i] < k}

\* The ones next_pipe_path looks up.
Tried(names) == {k \in Ahead(names) : Cardinality({j \in Ahead(names) : j < k}) < Attempts}

\* Mutant of NextPipePath: the name is not looked up first.
AnyName(names) == {k \in Tried(names) : \A j \in Tried(names) : k <= j}

\* The first that is unused, if there is one.
NextPipePath(names) == {k \in Tried(names) : ~Taken(k) /\ \A j \in Tried(names) : j < k => Taken(j)}

\* The temp names of n pipes, all taken before any stage runs.
PipePaths(n) ==
    {names \in [1 .. n -> Temp] : \A i \in 1 .. n : names[i] \in NextPipePath(SubSeq(names, 1, i - 1))}

Pipe(names) ==
    [type |-> "pipe", level |-> Len(frames), depth |-> LineDepth, temps |-> names, at |-> 1]

\* A pipeline of n stages.
RunPipeline(n) ==
    /\ AtLine
    /\ \E names \in PipePaths(n - 1) :
         /\ counter' = names[n - 1] + 1
         /\ Release(Append(Rest, Pipe(names)), frames, fds, files, disk)
    /\ UNCHANGED tmpMounted

\* No unused name was found for one of the pipes.
RefusePipeline(n) ==
    /\ AtLine
    /\ \E m \in 0 .. n - 2 : \E names \in PipePaths(m) :
         /\ NextPipePath(names) = {} /\ Cardinality(Tried(names)) = Attempts
         /\ \E k \in Tried(names) : (\A j \in Tried(names) : j <= k) /\ counter' = k + 1
         /\ Release(Rest, frames, fds, files, Cleaned(disk, names))
    /\ UNCHANGED tmpMounted

\* The files a stage is bound to, or ok = FALSE when one cannot be opened.
StageFiles(pipe) ==
    LET i == pipe.at
        last == Len(pipe.temps) + 1
        mayRead == i > 1 => MayOpen(Now, pipe.temps[i - 1], "r")
        in == IF i > 1 THEN Open(Now, pipe.temps[i - 1], "r", "none") ELSE Now
        mayWrite == i < last => MayOpen(in, pipe.temps[i], "w")
        out == IF i < last THEN Open(in, pipe.temps[i], "w", "empty") ELSE [in EXCEPT !.id = Default]
    IN  IF ~mayRead THEN [ok |-> FALSE]
        ELSE IF ~mayWrite THEN [ok |-> FALSE]
        ELSE [ok |-> TRUE, in |-> in.id, out |-> out.id, files |-> out.files, disk |-> out.disk]

IsPipe == stack # << >> /\ Top.type = "pipe"
StagesLeft == Top.at <= Len(Top.temps) + 1

\* One stage: a subshell's frame, the pipe's bindings over its streams.
RunStage ==
    /\ IsPipe /\ StagesLeft
    /\ LET bound == StageFiles(Top)
           outer == Last(frames)
           inner == [s \in Stream |->
                        IF s = 1 /\ bound.in # Default THEN bound.in
                        ELSE IF s = 2 /\ bound.out # Default THEN bound.out ELSE outer[s]]
       IN  /\ bound.ok
           /\ Release(Append(Append(Front(stack), [Top EXCEPT !.at = @ + 1]),
                             Segment(Top.level + 1, Top.depth, outer, TRUE)),
                      Append(frames, inner), fds, bound.files, bound.disk)
    /\ UNCHANGED <<counter, tmpMounted>>

\* Mutant of AbortPipeline: a failed setup returns without cleaning up.
AbortLeaving ==
    /\ IsPipe /\ StagesLeft /\ ~StageFiles(Top).ok
    /\ Release(Front(stack), frames, fds, files, disk)
    /\ UNCHANGED <<counter, tmpMounted>>

\* Mutant of AbortPipeline: a failed setup is tried again.
AbortRetries ==
    /\ IsPipe /\ StagesLeft /\ ~StageFiles(Top).ok
    /\ UNCHANGED vars

\* A setup failure aborts the rest of the pipeline.
AbortPipeline ==
    /\ IsPipe /\ StagesLeft /\ ~StageFiles(Top).ok
    /\ Release(Front(stack), frames, fds, files, Cleaned(disk, Top.temps))
    /\ UNCHANGED <<counter, tmpMounted>>

EndPipeline ==
    /\ IsPipe /\ ~StagesLeft
    /\ Release(Front(stack), frames, fds, files, Cleaned(disk, Top.temps))
    /\ UNCHANGED <<counter, tmpMounted>>

-----------------------------------------------------------------------------
(* Segments: run_segment_with.                                             *)

InSegment == stack # << >> /\ Top.type = "segment" /\ ~Top.ran
TopStdio(stdio) == Append(Front(frames), stdio)

\* apply_redirect: a file, opened and bound; or a stream bound like another.
Redirect ==
    /\ InSegment /\ Top.redirs < MaxRedirs
    /\ LET stk == Append(Front(stack), [Top EXCEPT !.redirs = @ + 1])
       IN  \/ \E path \in UserPath, io \in {<<"r", 1>>, <<"w", 2>>} :
                /\ MayOpen(Now, path, io[1])
                /\ LET new == Open(Now, path, io[1], "user")
                   IN  Release(stk, TopStdio([Last(frames) EXCEPT ![io[2]] = new.id]), fds,
                               new.files, new.disk)
           \/ Release(stk, TopStdio([Last(frames) EXCEPT ![3] = Last(frames)[2]]), fds, files, disk)
    /\ UNCHANGED <<counter, tmpMounted>>

Done == Append(Front(stack), [Top EXCEPT !.ran = TRUE])

\* A redirection that fails, a builtin, a command that is not found.
RunNothing ==
    /\ InSegment
    /\ Release(Done, frames, fds, files, disk)
    /\ UNCHANGED <<counter, tmpMounted>>

\* run_script_content: refused at MAX_SCRIPT_DEPTH; a scoped one gets a frame.
RunScript ==
    /\ InSegment
    /\ Top.depth < MaxDepth
    /\ \E scoped \in BOOLEAN, lines \in 1 .. MaxLines :
        Release(Append(Done, [type |-> "script", level |-> IF scoped THEN Top.level + 1 ELSE Top.level,
                              depth |-> Top.depth, scoped |-> scoped, left |-> lines]),
                IF scoped THEN Append(frames, Last(frames)) ELSE frames, fds, files, disk)
    /\ UNCHANGED <<counter, tmpMounted>>

\* Mutant of EndScript: with_scope does not pop its frame.
EndScriptKeepsFrame ==
    /\ stack # << >> /\ Top.type = "script" /\ Top.left = 0
    /\ Release(Front(stack), frames, fds, files, disk)
    /\ UNCHANGED <<counter, tmpMounted>>

EndScript ==
    /\ stack # << >> /\ Top.type = "script" /\ Top.left = 0
    /\ Release(Front(stack), IF Top.scoped THEN Front(frames) ELSE frames, fds, files, disk)
    /\ UNCHANGED <<counter, tmpMounted>>

\* The end of with_stdio, and of with_subshell around a stage.
EndSegment ==
    /\ stack # << >> /\ Top.type = "segment" /\ Top.ran
    /\ Release(Front(stack), IF Top.sub THEN Front(frames) ELSE TopStdio(Top.saved), fds, files, disk)
    /\ UNCHANGED <<counter, tmpMounted>>

-----------------------------------------------------------------------------
(* Programs.                                                               *)

\* prepare's reset_for_launch: the table shares the frame's streams.
Launch ==
    /\ InSegment
    /\ Release(Append(Done, [type |-> "program", level |-> Top.level]), frames,
               {<<s, Last(frames)[s]>> : s \in {t \in Stream : Last(frames)[t] # Default}}, files, disk)
    /\ UNCHANGED <<counter, tmpMounted>>

IsProgram == stack # << >> /\ Top.type = "program"

ProgramOpen ==
    /\ IsProgram
    /\ \E path \in UserPath, mode \in {"r", "w"} :
        /\ MayOpen(Now, path, mode)
        /\ LET new == Open(Now, path, mode, "user")
           IN  Release(stack, frames, fds \cup {<<0, new.id>>}, new.files, new.disk)
    /\ UNCHANGED <<counter, tmpMounted>>

ProgramClose ==
    /\ IsProgram
    /\ \E fd \in fds : Release(stack, frames, fds \ {fd}, files, disk)
    /\ UNCHANGED <<counter, tmpMounted>>

\* mount of a volume on /tmp: the open files are not looked at.
ProgramMountsTmp ==
    /\ IsProgram /\ MountsTmp /\ ~tmpMounted
    /\ tmpMounted' = TRUE
    /\ UNCHANGED <<stack, frames, fds, files, disk, counter>>

\* Mutant of EndLaunch: the table keeps what the program left open.
EndLaunchKeeping(table) == table

EndLaunch(table) == {}

\* exit, or a fault: end_launch.
ProgramEnds ==
    /\ IsProgram
    /\ Release(Front(stack), frames, EndLaunch(fds), files, disk)
    /\ UNCHANGED <<counter, tmpMounted>>

-----------------------------------------------------------------------------
Line == RunSegment \/ \E n \in 2 .. MaxStages : RunPipeline(n) \/ RefusePipeline(n)

Prompt == stack = << >> /\ Line

Shell ==
    \/ stack # << >> /\ Line
    \/ RunStage \/ AbortPipeline \/ EndPipeline
    \/ Redirect \/ RunNothing \/ RunScript \/ EndScript \/ EndSegment \/ Launch

Program == ProgramOpen \/ ProgramClose \/ ProgramMountsTmp

Next == Prompt \/ Shell \/ Program \/ ProgramEnds

Spec == Init /\ [][Next]_vars

(* The shell goes on with the line it is running; a program is assumed to  *)
(* end, which the code does not force, and nothing is assumed of the user. *)
FairSpec == Spec /\ WF_vars(Shell) /\ WF_vars(ProgramEnds)

-----------------------------------------------------------------------------
(* Properties.                                                             *)

ProgramActivation == [type : {"program"}, level : Nat \ {0}]
ScriptActivation ==
    [type : {"script"}, level : Nat \ {0}, depth : 0 .. MaxDepth - 1, scoped : BOOLEAN,
     left : 0 .. MaxLines]
PipeActivation ==
    [type : {"pipe"}, level : Nat \ {0}, depth : 0 .. MaxDepth, temps : Seq(Temp), at : Nat \ {0}]
SegmentActivation ==
    [type : {"segment"}, level : Nat \ {0}, depth : 0 .. MaxDepth, saved : Stdio, sub : BOOLEAN,
     redirs : 0 .. MaxRedirs, ran : BOOLEAN]
Activation == ProgramActivation \cup ScriptActivation \cup PipeActivation \cup SegmentActivation

\* Activations follow the frames: one that pushed a frame runs one level above
\* the one below it, and the last against the top frame.
LevelOf(i) == IF i = 0 THEN 1 ELSE stack[i].level
Scopes(a) == (a.type = "segment" /\ a.sub) \/ (a.type = "script" /\ a.scoped)
Nested ==
    /\ \A i \in DOMAIN stack :
           stack[i].level = LevelOf(i - 1) + (IF Scopes(stack[i]) THEN 1 ELSE 0)
    /\ Len(frames) = LevelOf(Len(stack))

\* Types, script depth included; a reference never outlives its file, nor a
\* file its last reference; and the frames are the shell's own and one for
\* each scope still running (frame_stack.rs:234-248).
TypeOK ==
    /\ stack \in Seq(Activation)
    /\ frames \in Seq(Stdio) /\ Nested
    /\ files \in [Slot -> OpenFile \cup {Closed}]
    /\ \A f \in Slot : files[f] # Closed <=> f \in Held(stack, frames, fds)
    /\ disk \in [Node -> Content]
    /\ fds \subseteq (0 .. 3) \X Slot
    /\ counter \in 0 .. MaxCounter + 1 /\ tmpMounted \in BOOLEAN

Temps == UNION {{<<i, j>> : j \in DOMAIN stack[i].temps} :
                    i \in {k \in DOMAIN stack : stack[k].type = "pipe"}}
TempAt(ij) == stack[ij[1]].temps[ij[2]]

(***************************************************************************)
(* No two pipes of the pipelines that are running share a temp file,       *)
(* however they are nested in scripts: a name is taken long before its     *)
(* file exists (mod.rs:433-438, 481).                                      *)
(***************************************************************************)
TempsUnique == \A p, q \in Temps : TempAt(p) = TempAt(q) => p = q

(***************************************************************************)
(* A file of the user's is never written to or removed by a pipeline, even *)
(* one that has a temp file's name (mod.rs:443-448).                       *)
(***************************************************************************)
UserFilesKept ==
    [][\A n \in Node : disk[n] = "user" => disk'[n] = "user"]_vars

(***************************************************************************)
(* A stage reads everything the stage before it wrote: the file it was     *)
(* bound to had been committed by then, whatever ran in between            *)
(* (mod.rs:482-483).                                                       *)
(***************************************************************************)
StageSeesCommitted ==
    \A f \in Slot :
        (files[f] # Closed /\ files[f].mode = "r" /\ files[f].node[2] \in Temp)
            => files[f].sees = "full"

(***************************************************************************)
(* "Temp paths are ... removed on every exit from this function"           *)
(* (mod.rs:481), unless a volume was mounted over them meanwhile.          *)
(***************************************************************************)
TempsRemoved ==
    stack = << >> /\ ~tmpMounted => \A n \in Node : disk[n] \in {"none", "user"}

(***************************************************************************)
(* Back at the prompt nothing is left of the line, however it ended: no    *)
(* open file, no fd, no temp file, no frame but the shell's own, its       *)
(* streams the default ones (mod.rs:302-312, fd.rs:76-81).                 *)
(***************************************************************************)
PromptClean ==
    /\ TempsRemoved
    /\ stack = << >> => /\ \A f \in Slot : files[f] = Closed
                       /\ fds = {}
                       /\ frames = <<DefaultStdio>>

(***************************************************************************)
(* Every line comes back to the prompt once its programs end, whatever     *)
(* fails on the way: a full table of files, a script that runs itself.     *)
(***************************************************************************)
LinesEnd == (stack # << >>) ~> (stack = << >>)

-----------------------------------------------------------------------------
(***************************************************************************)
(* Why these hold.  What runs inside a pipeline runs on a frame above the  *)
(* pipeline's, only a program has an fd table, and the first segment on    *)
(* the shell's own frame set the default streams aside.                    *)
(***************************************************************************)
StagesAbove ==
    \A i, j \in DOMAIN stack :
        i < j /\ stack[i].type = "pipe" => stack[i].level < stack[j].level

FdsAreThePrograms == fds # {} => stack # << >> /\ Top.type = "program"

OnShellFrame(a) == a.type = "segment" /\ ~a.sub /\ a.level = 1
DefaultSetAside ==
    /\ (\A i \in DOMAIN stack : ~OnShellFrame(stack[i])) => frames[1] = DefaultStdio
    /\ \A i \in DOMAIN stack :
           OnShellFrame(stack[i]) /\ (\A j \in 1 .. i - 1 : ~OnShellFrame(stack[j]))
               => stack[i].saved = DefaultStdio

(***************************************************************************)
(* A file that is not committed has a writer, and no pipe's file is        *)
(* written before its name was taken.                                      *)
(***************************************************************************)
Writes(f, path) == files[f] # Closed /\ files[f].mode = "w" /\ files[f].node[2] = path

EmptyHasWriter ==
    \A n \in Node : disk[n] = "empty" => \E f \in Slot : Writes(f, n[2]) /\ files[f].node = n

WritersNumbered == \A f \in Slot, k \in Temp : Writes(f, k) => k < counter
=============================================================================
