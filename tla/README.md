# TLA+ models of the qemu_lab kernel

qemu_lab builds, stage by stage, a small AArch64 kernel for QEMU's `virt` board. The last stage,
`src/rust/r20_editor`, is the whole system: one CPU, no threads, a shell inside the kernel, user programs
run one at a time at EL0, a virtio keyboard, GPU and block devices, FAT volumes. This directory models that
stage, and the one user program with a state machine of its own, the editor `edit`
(`src/rust/user/progs_r20`). The stages before it are near copies of one another (`r01_hello` ...
`r19_mounts`) and are not modelled apart. Paths below are relative to `src/rust/r20_editor/src`, those of
the editor to `src/rust/user/progs_r20/src`.

Contents: [parts of the system](#parts-of-the-system), [modules](#modules), [runs](#runs),
[disagreements found](#disagreements-between-code-and-documentation), [proofs](#proofs),
[what is not modelled](#what-is-not-modelled), [plan](#plan).

## Parts of the system

| Part | State it keeps | Operations | Talks to |
|---|---|---|---|
| Interrupt handler (`main.rs` `irq_handler`, `arch/vectors.s`) | ELR_EL1, SPSR_EL1, DAIF | take, acknowledge, drain, end | keyboard device, block device, token queue |
| Token queue (`keyboard/queue.rs`, `ring_buffer.rs`) | `TOKENS`, `OVERFLOW_NOTED` | `drain_keyboard`, `pop`, `wait_for_token` | filled by the interrupt handler or by a blocked read, popped by the shell's loop, `read(0)`, `CONSOLE_READ_KEY` |
| Key state (`events.rs`, `tokens.rs`, `keymap.rs`) | `KEY_STATE`, `LOCK_STATE` | `token_for`, `set`, `apply`, `emit`, `admits` | only from a drain |
| Readers (`stdin.rs`, `line_discipline.rs`, `line.rs`, `history.rs`) | `PENDING`, the line being edited, the history | `read`, `read_key`, `handle`, `recall_prev/next` | token queue, console |
| Program entry (`exec/process.rs`, `arch/context.s`, `syscall/mod.rs`) | `KERNEL_CTX`, the masks | `prepare`, `run`, `enter_el0`, `resume_kernel` | fd table, interrupt handler |
| Mount table (`fs/mounttable.rs`, `fs/mounts.rs`) | `TABLE`, `VOLS` | `mount`, `umount`, `resolve` | asked by every path operation; asks the frames' working directories and `OPEN_ON` |
| File layer (`fs/files.rs`) | open files (reference counted), `LIVE_FILES`, `OPEN_ON` | `open`, `close`, `mkdir`, `unlink`, `rename`, ... | hadris-fat volumes |
| Frame stack (`exec/frame_stack.rs`, `shell_state.rs`) | per frame: working directory, three streams, variables | `with_scope`, `with_subshell`, `with_stdio`, `chdir` | holds references to open files |
| Line execution (`shell/mod.rs`, `builtins.rs`, `launch.rs`) | `PIPE_COUNTER`, its own recursion | `run_line`, `run_pipeline`, `run_segment_with`, `run_script_content`, `launch` | all of the above |
| fd table (`syscall/fd.rs`) | `FD_TABLE` | `reset_for_launch`, `open`, `close`, `end_launch` | shares open files with the frames |
| Shell language (`lexer.rs`, `syntax.rs`, `expand.rs`, `environment.rs`, `path_search.rs`, `fstab.rs`) | none | pure functions over strings | |
| Loader and memory (`exec/elf.rs`, `usermem.rs`, `argplan.rs`, `arch/mmu.rs`) | user window, program break | load, `brk`, argument block | |
| Block device (`drivers/virtio/blk.rs`, `fs/blkio.rs`) | a request in flight | blocking read and write | interrupt handler |
| Console (`console/*`, GPU) | cells, cursor, saved screen, UTF-8 decoder | draw | written by programs and the shell |
| Editor's text (`buffer.rs`, `region.rs`, `search.rs`) | lines, cursor, the modified flag | edits, moves, cut and paste, find | called by the key loop |
| Editor's key loop (`bin/edit.rs`) | overlay, mark, cut buffer and its run, last search, file name | one key after the other | files by system calls, the text |
| Editor's view (`layout.rs`, `scroll.rs`, `render.rs`, `width.rs`) | the view's top, the preferred column, the gutter | wrap, scroll, draw | `CONSOLE_DRAW` |

**What is hard here.** There is one CPU and no thread, yet two contexts: the keyboard's interrupt arrives
between any two instructions that run unmasked, and the same queue is filled from inside system calls,
where it cannot. The masks, the check before `wfi`, the acknowledge before the poll, and the registers an
interrupt overwrites before an `eret` are each right only in one order. Reference counts decide when a
written file reaches the disk, and the references are spread over every frame of the shell, the streams a
running command has set aside, and the program's fd table. `umount` must see all of them. A pipeline runs
through temp files whose names are chosen before they exist, nests through scripts, and can fail at any
stage because thirteen open files are shared by everything. Variables live on one flat frame, and what a
command sets is saved and put back around whatever else the command does to them. The editor keeps positions
of a text that every key may change, computes the same line breaks in five functions, and is asked to lose
nothing though any save can fail half-way. `PROJECT.json` lists each of these hazards at its line with the
properties that watch it.

**What makes each part correct.** The queue: every key once, in order, true to the moment it was pressed,
no wakeup lost. Entry: an `eret` always lands in the program; interrupts are on again however it ended.
Mounts: no path resolves to a volume that is gone, a volume in use stays, a path means what a walk along it
would find. Lines: whatever fails, the prompt comes back with nothing left open, no temp file on the disk,
and no file of the user's touched; a stage reads what the stage before it wrote. Variables: saving and
putting back is indistinguishable from nested scopes. Editor: mark and cursor are positions of the text,
cutting and pasting are inverse, an unmodified text is the file's, every key leaves the cursor on the
screen and on its character.

## Modules

| Module | Models | Notes |
|---|---|---|
| `RingBuffer` | `keyboard/ring_buffer.rs` | operators on a buffer record (`slots`, `head`, `len`), for any size `N` and items `Item` |
| `BoundedQueue` | what the ring buffer promises | abstract: a sequence of at most `N` items; a full one refuses the newest |
| `RingBufferSpec` | a ring buffer under any calls | `INSTANCE BoundedQueue` with `Contents(ring)` as the queue |
| `Keyboard` | the path of a key: device, interrupt handler, queue, its three readers, program entry and exit | uses `RingBuffer` through `INSTANCE` |
| `Mounts` | mount table, mount and umount, working directories, open files, directory operations | |
| `ShellExec` | running a line: pipelines, redirections, scripts, programs, open files and the disk | |
| `LineEditor` | the line being typed (`keyboard/line.rs`) and the history (`history.rs`) | operators on records, no state of its own |
| `LineDiscipline` | `keyboard/line_discipline.rs`, the two that wait for a line (the prompt, `read(0)`), and the screen it is drawn on | uses `LineEditor` |
| `DynamicScope` | what the shell promises about variables | abstract: a stack of scopes with bindings of their own |
| `ShellVars` | the frames' variables while lines run | `INSTANCE DynamicScope` with `ScopesNow` as the scopes |
| `TextBuffer` | the editor's text: buffer, regions, search | operators on a buffer record |
| `Editor` | the editor's key loop and its files | uses `TextBuffer` |
| `Layout` | soft wrap, scrolling, rows as cells | operators; uses `TextBuffer` |
| `EditorView` | the editor's screen after every key | uses `Layout` |
| `RingBufferProofs`, `KeyboardProofs`, `MountsProofs`, `ShellExecProofs`, `LineDisciplineProofs`, `ShellVarsProofs`, `LayoutProofs`, `EditorProofs` | theorems | see [Proofs](#proofs) |
| `MC*` | instances for TLC | each with one or more `.cfg` |

Next to a definition that a defect might plausibly change stands a variant of it, named and marked
"Mutant of": `PROJECT.json` pairs each property with the one that it must refute.

### Keyboard

Two program counters: `pc` is the main context (the shell's loop, a system call, a program), `irqPc` the
interrupt handler, which the main one cannot preempt (`At` is FALSE for every main step while the handler
runs). One action is what runs between two points at which the handler or the device could be seen, so
`pop` is `PopEnter` (mask), `PopRead`, `PopWrite` (store, unmask): if it were not masked, the handler would
run between the two halves. That TOKENS is read and written non-atomically is how an unmasked pop would
behave; the mutant `KeepMask` shows the loss.

- *Device* (external): keys go down, come up, repeat (tagged 2 or resent as 1, as `events.rs:14` observes),
  at any time. The device queues events while it has room; `line` is its level-triggered line, lowered by
  `ack_interrupt` and raised by an event. `history` remembers what was true when the key moved, which is what
  `TruthfulTokens` compares with. Events the device has no room for are in `lost`; the properties about
  the fate of a press hold as long as it is empty.
- *Drain* (`DrainPoll`): one turn of `drain_keyboard`'s loop: `token_for`, `admits`, `push`, the note.
- *Readers*: the shell pops, handles and, with nothing left, waits (`WaitMask`, `WaitCheck`, `Wfi`,
  `WaitUnmask`); `read_key` and `read_line` drain, pop and `wfi` inside the system call, masked throughout. A
  masked pending interrupt still wakes `wfi`. Other interrupts (a disk's) would only wake it more often, and
  leaving them out makes the liveness properties harder to satisfy.
- *Programs*: `RunMask`, `SetElr`, `Eret`; `elr` is overwritten by `IrqEntry`. A program computes, reads,
  exits or faults whenever it likes.
- *Abstracted*: a token is the press it came from plus shift, caps and repeat. One class of keys stands for
  Shift, Ctrl and Alt, one lock for Caps, Num and Scroll. What a token types, and `PENDING`, are not here.

### Mounts

A path is its sequence of components (every path reaches this code absolute and normalized). A volume is the
set of its directories. `files` holds the device of each open file and `openOn` the counters the code keeps;
the invariant ties the two. An operation the code refuses changes nothing, so each action is the accepted
case with all its checks as guards, except `Rename`, which may fail after deleting the destination: both
outcomes are there. `displaced` records that a directory above a mount point was renamed; see below.
`Walk` is an independent definition of what a path means, one component at a time, crossing into a mount
where its hidden directory is met; `ResolveAgreesWithWalk` compares it with the longest-match rule.

### ShellExec

The shell is a recursive function: `run_line` runs a pipeline or a segment, a segment runs a builtin, a
script or a program, a script runs lines. Its activations are `stack`, each with what its Rust frame holds:
a segment the streams `with_stdio` saved, a pipeline its temp names and the stage it is at, a script the
lines left; and with the shell frame it runs on (`level`). `frames` is the streams of each shell frame, `fds` the fd table (`<<stream, file>>` for the
standard ones, `<<0, file>>` for files the program opened). `Release` is every step's last part: whatever
file lost its last reference is closed, and a closed writer is committed to `disk`.

- `disk` keeps per path `none`, `empty` (a pipe file created, not committed), `full` (committed) or `user`.
  A volume mounted on `/tmp` gives every temp path a second node, `over`.
- `RunNothing` stands for a builtin other than a script, a command not found or a redirection that failed:
  what they share is that nothing changes and the segment is over.
- A line of a script that is empty or does not parse behaves as a segment that runs nothing.
- All names of a pipeline are taken before its first stage (`PipePaths`). `RunPipeline` is one that finds them,
  `RefusePipeline` one that does not: `Attempts` names in a row are taken, the line ends, and what the
  names found before stand for is removed.
- Which slot an open file takes is of no consequence, so the first free one is taken.

### LineEditor and LineDiscipline

`LineEditor` has the pure part: a line is a sequence of characters and a cursor, `Feed` is what one key does to
it, and the history is its lines, the place shown while browsing (`at`, 0 for none) and the pending line.
`LineDiscipline` has the state: `stage` says who runs (the shell between lines, its prompt, a program, a
program inside `read(0)`), `mode`, `prefix`, `buffer`, `row`, `height` and `history` are the fields of the struct,
`pending` is `PENDING` with `PENDING_POS`, and `screen` is the console's cursor, the cells drawn inverted and the rows
that show the line. A key is one action, redraw and scrolling included: `Edit`, `Move`, `Recall`, and the ways
a line ends (`EnterCommand`, `EnterLine`, `PartialLine`, `EndOfFile`). `ReadLine` is a read that finds nothing left
and blocks, `ReadRest` one that does not; `Launch` forgets what is left (`stdin::reset`). `Output` stands for
everything else that writes on the console, and leaves its cursor anywhere.

`entered` (the lines entered), `draft` (what was typed when browsing began) and `owed` (what was typed for the
running program and not read) are history variables: the properties compare the code's state with them.

- *Characters*: the code's byte offsets stay on character boundaries and are counted in characters here; of a
  character its class (word, punctuation, blank) matters. Only ASCII can be typed (`keymap.rs`), so a typed
  character takes one cell. Of a prompt its width is kept.
- *Keys*: keys with the same effect are one key (Ctrl+A and Home, and so on). A key that changes nothing is not
  a step, nor is a held Ctrl+D, which `handle` ignores.
- *Left out*: the alternate screen, `clear` from inside the editor, colours.
- `row` is a `usize` in the code and an integer here. The code's subtraction goes below zero only in the case of
  the second disagreement below.

### ShellVars and DynamicScope

`run_line_inner` again, with another part of its state: `frames` is for each shell frame a value for each name,
and `stack` the activations, each with the assignments it saved (`saved`) and, for the properties only, what
each name was before the first of them (`first`). Segments assign (`Assignment`, for good or for the command),
run a command and put the variables back, last first (`RestoreAssignment`, one name at a time). The command may
be `export` or `unset` (any number of operands), a sourced script, which runs on the same frame, a script of its
own, which gets a frame with what is exported, or anything that leaves the variables alone. A stage of a
pipeline runs on a copy of the frame. Streams, files and failures to open them are in `ShellExec`; a failed
redirection is a segment that does not assign.

`DynamicScope` knows nothing of saving. It has a stack of scopes; a command's assignments are bindings of a
scope of its own, a name means its innermost binding, and what is assigned, exported or unset is changed there.
`ScopesNow` reads the scopes off the implementation: the scope of an activation binds the names it has saved,
and what an outer scope holds of a name is the first value that a scope above it on the same frame saved.
`ImplementsDynamicScope` says that every step of the shell is a step on these scopes, which is what makes
`source` of a script that assigns, exports and unsets the very names its command was given come out right.

The order of the variables (what `env` prints) and `$?` are left out. A program gets the exported names of the
frame as they are when it is launched; it cannot change them.

### TextBuffer and Editor

A column is a number of characters; the code's byte offsets stay on character boundaries because every one
of them comes from a character's length. A text is the nonempty sequence of its lines, a file's and the cut
buffer's the sequence of pieces that `split('\n')` gives. Each function of `buffer.rs`, `region.rs` and
`search.rs` is one operator. `Editor` has one action for each kind of key and each overlay; a key that edits
drops the mark and ends the run of line cuts exactly where the code does. `disk` holds the files: a save
empties the file, writes and closes, and `SaveFails` is any of the three failing, which leaves the old text
or the start of the new one. With `ReadFaults` a read may fail part-way while a file is loaded. `torn` and
`origin` are history variables: whether a failed save hit the file of an unmodified text, and the lines before
the run of line cuts. `VerticalKey` may reach any position: which one is the view's business. The text typed at
a prompt is chosen when Enter ends it.

### Layout and EditorView

`Layout` has wrapping, the conversions between positions and cells, scrolling and the rendering of a row. The
code computes line breaks in several places (`wrap_line`, `row_count`, the two conversions, `render_row`);
the model keeps the computations apart where the code does, since that they agree is what the properties are
about. A loop of the code is a recursive function over the characters, lines or turns it goes through
(`at` in `WrapLine`, `rows` in `RowsOf`, `after` in `Paged`), with an operator for one turn of its body (`Placed`,
`Counted`, `ColumnAfter`, `DrawnAfter`, `CellAccepted`): TLC evaluates these and the proofs can take their equations.
A state of `EditorView` is what is on the screen after a key: an action is the key together with the
scrolling that starts the next turn of the loop. `RowAccepted` is the kernel's side, the first pass of
`draw_frame` (`syscall/fd.rs`), which refuses a frame as a whole.

## Runs

Every run finishes within about two minutes; every bound is a CONSTANT or named in the `.cfg`.

| Run | Question | Bounds | Result |
|---|---|---|---|
| `ring_buffer` | does the ring behave as a bounded queue under any calls? | 3 slots, 2 items | passes |
| `keyboard` | exclusion, order, no loss, truthful tokens, masks, entry | queue of 2, device of 3, 5 events, a letter, a modifier and a lock | passes, 1.9 million states |
| `keyboard_live` | is every key read, is the device always emptied? | queue of 1, device of 2, 3 events | passes |
| `mounts` | table, volumes, pins, working directories, walk | 3 devices, 2 names, paths of 2, 2 frames, 6 directories, 1 open file | passes, 81 thousand states up to symmetry |
| `mounts_hidden` | does a hidden directory stay? | as `mounts` | violated |
| `shell_exec` | is everything released, committed, unique, and does every line end? | 3 open files, 3 stages, scripts 1 deep, 1 redirection a segment, volumes mounted on `/tmp` at any point | passes |
| `shell_vars` | does saving and putting back implement scopes? | one name of two values, 2 assignments a segment, scripts of 2 lines, 2 stages, scripts 1 deep | passes, 0.26 million states |
| `line_discipline` | is a line delivered once and in order, the history right, and is it drawn where the code thinks, inside the screen, with one cursor? | history of 2, 3 lines entered, 2 prompts on 3 rows of 2, reads of 1 or 2 bytes | passes |
| `line_prompt` | does a recalled line stay in view under any prompt? | 2 prompts, 3 rows of 2 | violated |
| `editor` | mark and cursor, cut and paste, search | texts of 3 characters and breaks, of two kinds of character, 2 lines in the cut buffer, two terms, one of which overlaps itself | passes |
| `editor_files` | does the modified flag tell the truth, is nothing lost? | two names, texts of 2, 2 saves, each of which can fail | passes |
| `editor_view` | is the screen right after every key? | 4 rows of 5, texts of 4, a wide character and a tab of 2, a gutter that widens at the third line | passes |

Why the bounds are enough for the questions. Five key events with a queue of two let the queue fill, refuse
a key, drain and refuse again, and let a modifier be pressed, held across a press and released. Three open
files are one less than a stage with both pipe ends, a redirection and a file of the program's needs, so the
table runs full at every point where the code opens a file. Two temp names are taken by files of
the user's and a name search gives up after two attempts, so pipelines also skip names and are refused. Paths of two components
and three devices allow a mount inside a mounted volume, which is where the longest match matters. With a history of two, three entered
lines evict one; on three rows of two a line wraps, ends exactly at the edge, makes the screen scroll and is refused
when it would fill it. Lines typed need no bound of their own: `FitsOnScreen` is one.
Variables of different names meet only when one is copied into the other, which is an assignment of a value, so one
name with two values shows what there is; two assignments of it to one command are the case that needs the reverse order, and
a sourced script of two lines can assign, export and unset it in between. Texts of three characters have regions within a
line, across lines, empty ones and ones that end at a line's end or in an empty line; three rows of
text and five columns wrap, break early at a wide character and have lines taller than the view. The
theorems cover every size of queue, device table, path, line, history, console, text and script where the properties are
proved.

`MCKeyboard` switches deadlock checking off because a keyboard nobody touches any more, with the shell
asleep, is a legitimate end, and the `MCEditor*` ones because the editor ends (`running`), or because a text that has
reached `MaxSize` with nothing left to do is the model's bound. Every other run checks for deadlock.

**What the properties say**, in the order of the configurations:

- `RepresentationInv`, `ImplementsQueue`: the ring's fields always describe one window of occupied slots;
  the ring is a FIFO that refuses the newest.
- `ExclusiveAccess`: the handler never runs inside `pop` or a system call. `QueueConsistent` (types, and the note
  about a full queue re-armed), `InOrder`, `NoPressVanishes`, `TruthfulTokens`, `NoRepeatBacklog`: the fate of key
  presses. `EntryAndExit`: an `eret` finds the program's registers, and interrupts are on again however it ended.
  `KeysAreRead`, `DeviceDrained`: liveness.
- `TableMatchesVolumes`, `OpenFilesPinVolumes`, `UmountKeepsWorkingDirs`, `ResolveAgreesWithWalk`.
- `TempsUnique` (all pipelines alive at once, nested ones included), `UserFilesKept` (as a step property),
  `StageSeesCommitted`, `PromptClean` (with `TempsRemoved`, for lines during which nothing was mounted on `/tmp`),
  `LinesEnd`.
- `AssignmentsUndone`, `ImplementsDynamicScope`.
- `StdinInOrder`: reads neither lose, repeat nor reorder a byte, nor give one program's line to the next.
  `CanonicalCursorAtEnd`, `NothingLeftTyped`: what makes Ctrl+U, Ctrl+D and the missing clear in `begin` right.
  `HistoryIsRecent`, `DraftComesBack`: the history against the lines entered. `LineOnScreen`: the screen against the
  line. It has two conditions. `RecallsFit` is about now: the prompt and the lines that can be recalled under it leave a
  row free; then the line is in view and where the code thinks it is. `outgrown` is about the past: whether a line was
  ever drawn that did not. While it was not, there is also exactly one inverted cell, the cursor's.
- `PositionsInText`: cursor and mark. `RegionInverse`, `CutsRestored`: cutting and pasting. `NotFoundOnlyAcross`: the
  search. `CleanIsSaved`, `NoSilentLoss`, `SavesAreWhole`: the files.
- `ScreenRight`: the cursor's row is on the screen, the view starts inside a line only if it must, the kernel accepts the
  frame, and the cursor is on the character that the next key acts on. `HighlightExact`, `ThereAndBack` (Up undoes Down
  where both rows have the column), `NoNeedlessScroll`.

**Fairness.** `Keyboard`: weak fairness of the kernel's own steps and of the handler's (a CPU goes on with
what it is in the middle of), strong fairness of taking an interrupt (it is taken at the next unmasked
instruction, but masking disables it in between). Nothing is assumed of the user or of the program; hence
`KeysAreRead` allows a program that neither reads nor ends. `ShellExec`: weak fairness of the shell's steps
while a line runs and of the program ending. The second is an assumption about programs, not something the
kernel forces; without it a line need not end. The prompt is not fair: nobody has to type.

## Disagreements between code and documentation

Those with a run are listed in `PROJECT.json` under `findings`. The others have a configuration here that shows them
(run `tlc -config X.cfg` on the module it is named after; TLC reports a violation), but are not among the runs.

1. **A hidden directory can be taken away** (run `mounts_hidden`). `rename` refuses a mount point itself
   (`fs/files.rs:479`) but not a directory above one: after `mkdir /a`, `mkdir /a/a`, a mount on `/a/a`
   and `mv /a /b`, the mount still answers for `/a/a`, and the directory it hides is `/b/a`, no longer hidden.
   `docs/filesystem.md:82-84` says the hidden entry "cannot be removed or renamed (`EBUSY`)", and lines
   104-108 that matching and walking a path agree. `ResolveAgreesWithWalk` is therefore stated for histories
   without such a rename.
2. **A recalled line can leave the screen** (run `line_prompt`). A line is checked against the screen with the prompt
   it was typed under. Recalled under a wider one (after `cd` or `PS1=...`) it is drawn without the check, so it may
   take more rows than there are: `top` at `keyboard/line_discipline.rs:213` goes below zero, and as an unsigned
   number wraps. `console/input_layout.rs` says that a line "can never scroll off the top or push its own first row out
   of view". `LineOnScreen` is therefore stated for prompts under which what can be recalled fits.
   Such a line leaves its mark for later: a deletion in it takes a second character when what remains is still too long
   (`line_discipline.rs:224-235` answers every line that does not fit with a backspace; its comment has a typed character as
   "the only way `Changed` can overflow") and draws nothing, so Enter then makes the wrong
   cell plain, and an inverted one stays on the screen when everything fits again. The attempt to prove `LineOnScreen`
   found this, and the history variable `outgrown` excepts it.
3. **A temp file can be left behind** (no configuration: `TempsRemoved` excludes it). `cleanup_temps` removes by path,
   and a stage that mounts a volume on `/tmp` changes what the path means. `shell/mod.rs:481` says the temp files are
   "removed on every exit from this function".
4. **A temp name can be claimed in between** (`MCShellExecNames.cfg`). All names of a pipeline are looked up
   before its first stage runs, and each file is created when its stage starts. In
   `a > /tmp/.pipe1 | b | c` the first stage makes the very file the second pipe then truncates and the
   cleanup removes. `shell/mod.rs:446-448` says "nothing else can claim the name in between".
5. **The last two lines can change places** (`MCEditorCutLast.cfg`). `cut_line` on the last line of several leaves the
   cursor on the line before, and `paste_line` inserts above it. `region.rs:121-124` says that the paste "reproduces
   exactly what was there before". `CutsRestored` excepts runs that took the last line.
6. **A term in the text is "Not found"** (`MCEditorNotFound.cfg`). The search wraps around to the cursor, and cuts the
   cursor's line there, so a match across the cursor is in neither part. `search.rs:9-14` says it wraps "around to the
   start of the buffer once". `NotFoundOnlyAcross` says that this is the only case.
7. **A failed save of an unmodified text** (`MCEditorSaveFails.cfg`). `try_save` empties the file first; when the write
   fails, an unmodified text stays unmodified and ^X ends the editor without a question. `Stage20.md:33` says that after
   a failed write "the buffer stays modified". `torn` excepts this case.
8. **A failed read looks like the end of the file** (`MCEditorReadFails.cfg`): `read_whole` (`bin/edit.rs:611`) stops
   at any result that is not positive. The comment of `load_file` says that all but a missing file is "the syscall's own
   error".
9. **Up can stay and Down skip a row** (`MCEditorViewUp.cfg`). Where a row was broken early, a column behind its end is
   taken for the row boundary, which belongs to the row below. `scroll.rs:146` says "one screen row". `ThereAndBack` is
   for rows that reach the column.
10. **The cursor beyond the last column** (`MCEditorViewZero.cfg`). A zero-width character after a full row stays on
    it, and so does the position before it. `layout.rs:11-17` says that a position never collides with "the last real
    row's own end column".
11. **A frame the kernel refuses** (`MCEditorViewControl.cfg`). A control character of a file is drawn as it is, and
    `CONSOLE_DRAW` refuses control characters, so the screen stays as it was. `editor_view` has no control character.

## Proofs

`tlapm` checks them all; each module of proofs extends the module it is about. They hold for every value of
the constants allowed by the named assumptions (`CapacityAssumption`, `NoneAssumption`, `KeyboardAssumption`, `NoneIsNoToken`,
`MountsAssumption`, `ShellExecAssumption`, `ConsoleAssumption`, `ShellVarsAssumption`, `CharAssumption`, `SizeAssumption`,
`LayoutAssumption`, `ViewAssumption` and the two `EditorAssumption`s of `LineEditor` and `Editor`), which TLC evaluates on its instances.

- **`RingBufferProofs`.** `Representation`: `Spec => []RepresentationInv`. The invariant (types, and a slot is
  filled exactly when it is one of the `len` slots from `head` on, modulo `N`) is inductive as it stands;
  the work is in the arithmetic of the wrap (`Wrap`, `SlotsDistinct`, `OccupiedAfterPush`,
  `OccupiedAfterPop`). `Refinement`: `Spec => ImplementsQueue`, from `ContentsAfterPush` (a push appends)
  and `ContentsAfterPop` (a pop takes the head).
- **`KeyboardProofs`.** `Control`: `ControlInv` is inductive. It says which labels of the main context run
  masked and which do not, what `saved` holds inside a pop, that the handler runs only at a label that is not
  masked, and that between `SetElr` and `Eret` the registers are the program's. None of the three properties is
  inductive alone: that the handler is not inside a pop depends on the mask, the mask after a pop on
  `saved`, and that on the reader. From it follow `Exclusion` (`ExclusiveAccess`), `ProgramEntry` and
  `Unmasked`, the two halves of `EntryExit` (`EntryAndExit`).
  `Flow`: `FlowInv` is inductive. Every step is one of six kinds (`StepKinds`): the keyboard is touched, an
  event is taken, a pop reads or writes, a reader takes the token, or nothing of all this moves; each has
  a lemma for the queue (`QueueInv`: types, the note, no repeats behind the front) and one for the past (`PastInv`).
  What the ring does in a step comes from `RingBufferProofs`, instantiated for `TOKENS`. The order needs that the events
  in the device come after every token of the stream, and the truth of a token cannot be stated of tokens alone:
  `ReplayInv` says that the driver's held keys and locks, taken through the events the device still holds,
  become the keyboard's own, each event explained on the way by what was recorded when its key was touched. Hence
  `Ordered` (`InOrder`), `NothingVanishes` (`NoPressVanishes`), `Truthful` (`TruthfulTokens`), `NoBacklog`
  (`NoRepeatBacklog`) and, with the small `Place`, `Consistent` (`QueueConsistent`), for every capacity of the
  ring and of the device and every length of history.
- **`MountsProofs`.** `MountInvariant`: `MountInv` is inductive: types, the table and the open volumes
  agree, each counter is the cardinality of the files open on its device, and a device with an open file is
  mounted. `LongestExists` (a path always has a longest covering mount, since the root covers everything) and
  `ResolvesToMounted` carry it. From it `TableSound`, `FilesPin`, and the action property `WorkingDirsStay`:
  an unmount leaves the resolution of every frame's working directory as it was.
  `WalkAgrees`: `ResolveAgreesWithWalk`, for any names, devices and lengths of paths. It needs a second invariant,
  `TreeInv`: every volume is a tree, and while no directory above a mount point was renamed, the entry that each mount
  point hides is there (`MountCovers` ... `RenameCovers`, one lemma for each action that touches the table or a tree; that
  a moved subtree leaves trees is `MovedClosed`). A path is the point of a mount and a place on it (`Spelled`), and on one
  device two paths with one place are the same path (`PlacesSame`), so a mount hides the entry of its own point and of no
  other (`HidesOne`). Hence one step down from what the table finds for a directory is what it finds for the entry
  (`DownFinds`). `Walk` is a recursive function: the values the table finds along the path satisfy its equation, and the
  first place where another solution could differ comes after one where it does not (`WalkFinds`). `HiddenStays` is what
  is left of the documentation's promise: until such a rename, the hidden directory is there.
- **`LineDisciplineProofs`.** First what a key does to a line, for lines of any length: `FeedLine` (the cursor stays
  inside the text, and at its end in Canonical mode) from `CutLine`, `InsertLine` and the bounds of the word
  searches, which rest on `MinIsLeast`. Then `TextInv` is inductive: the types of the text, who waits has set the
  mode, a blocked read is owed nothing and nobody browses in it, while browsing `draft` is the history's pending
  line, and the three properties themselves. None is inductive alone: that a finished read delivers what was typed
  (`StdinInOrder`) needs that nothing else was owed, that no key moves the cursor needs the mode, and an empty buffer
  after the end of file needs that no browsing was going on. `HandedPart` is the arithmetic of a read: what it takes
  is the beginning of what is left. From it `StdinSound`, `CanonicalCursor`, `LinesEmptied`, and the action property
  `DraftReturns`.
  `HistorySound`: `HistoryIsRecent`, for histories of any size. `RecentLines` counts the lines worth keeping among all
  those entered and takes the last ones; the code looks at one line, the newest it holds. `HistoryInv` closes the gap:
  the newest held is the last line entered that was not empty, and the numbers of the kept lines are an initial segment
  of the naturals (`Ranked`), so one more line adds one rank at the end, and dropping the oldest drops the least.
  `LineDrawn`: `LineOnScreen`, for a console and prompts of any size. `ScreenInv` says what holds always (`Drawn`: the
  console's own cursor is on the line's last row, counted from a first row that may be above the screen) and what holds
  while lines fit (`Fitting`, which needs to know of the pending line too, since it comes back). The lemmas follow the
  console: what a string does to rows, ink and cursor (`CursorPlace`, `ScrolledUp`, `Written`), what clearing and
  redrawing leave (`Redrawn`), and that a backspace undoes the insertion that did not fit (`BackspaceUndoes`).
- **`ShellExecProofs`.** Five invariants, each proved with those before it. `Control`: activations follow the frames, what
  runs inside a pipeline is on a frame above the pipeline's (`StagesAbove`), only a program has an fd table, and the
  first segment on the shell's own frame set the default streams aside. `References`: a file is open exactly while
  something refers to it (`Release` makes it so, if every step's new references are to open files), and a file that is
  empty has a writer (`EmptyHasWriter`: when the last reference goes, the file is committed). `Names`: the temp
  names of all pipelines alive are distinct, below `PIPE_COUNTER`, and every file a pipeline made is at one of them. It
  needs the fact that a name found is not below the counter and is no file yet (`NamesAre`). From these `TypesHold`,
  `NamesDiffer` and `NothingLeft`. The last two properties are false if a redirection or a program names a temp file (the
  fourth disagreement), so `UserFilesStay` and `StagesReadAll` have the premise `UserPath \cap Temp = {}`. The first rests
  on `NotUsers` (a name a pipe holds is no file of the user's). The second needs `Above`: who holds the writer of a
  pipe's file runs above the pipeline, so when the pipeline goes on to its next stage nobody does, and the file was
  committed. Neither is inductive without the nesting of `Control`.

- **`ShellVarsProofs`.** `Undone`: `Spec => []AssignmentsUndone`, for any names, values, and numbers of assignments,
  lines, stages and scripts. The property speaks of one moment, the end of a segment; what carries it there is
  `Nested` (activations follow the frames, so a segment ends on the frame it began on), `Orderly` (only the last
  activation is anywhere but in the middle of its command) and `KeptOrBack` (what a name was is the first thing saved of
  it, until it is put back). Every action begins an activation, ends one or changes the last one (`BeginKeeps`,
  `EndKeeps`, `ChangeKeeps`); the data are in `KeptMore` and `KeptLess`, what one more or one less saved assignment does
  to the first one of a name. `DynamicallyScoped`: `Spec => ImplementsDynamicScope`, a step simulation with
  `ScopesNow` as abstraction function. Its heart are `PromiseSees` (the innermost binding of a name is what the top frame
  holds, because the frames' levels rise along the activations, `LevelsRise`, and nothing of the name is kept above that
  binding) and `OneSavedUnseen` (setting a variable after saving it, and putting it back, leave every scope below as it
  was: whoever looks finds the value on the frame or, first of all, in what was saved).
- **`LayoutProofs`.** What the operators of `TextBuffer` and `Layout` do, for texts and screens of any size; no
  state is mentioned. *Text*: each operation keeps the cursor in the text (`InsertCharSound` ... `PasteLineSound`);
  `RegionRoundTrip` (cutting a region and pasting it back) and `LineCutsRestored` (a run of line cuts), both from
  `SpliceUndone`; `FindIs` (which match a search finds). *Layout*: the code runs along a line in five places, and the
  proofs show that they agree. A loop is a recursive function, whose equations hold by `Recursion` (two solutions differ at a
  first place or nowhere). `WrapIs` says what the rows of a line are: they partition it, each has room for what is
  on it, and only the last may be empty; `RowCount` counts the same rows. `OnlyRow`: an offset is on one row.
  `BackOnCell` joins the two conversions; `TargetBack`: down leads back to the row that up came from. `VisibleIs`:
  the view lists the rows of the lines in order from its top, so a row that is on it is there once (`RowsDistinct`).
  `EnoughIs` and `ScrolledIs`: whatever the view was, after scrolling the cursor's row is in it, and `ViewStays` if
  it was before; `CenteredIs` is the same for a jump. `ColumnsJoin` and `RegionIs`: the columns of a part of a row
  begin where those of the part before it end, so a region's are the union of its characters'. `RenderIs`: a row is
  as wide as the screen, and each character is at the column the layout gives it.
- **`EditorProofs`.** `EditorInv` (types and cursor, `MarkInText`, `CutsRestored`) is inductive: that a paste restores a
  run of cuts needs that the run is contiguous, which is what `origin` holds. `PositionsStay`, `RegionsComeBack`
  and `CutsComeBack` follow. `CleanSaved` and `NothingLost` have the premise that reads do not fail (the eighth
  disagreement): `CleanIsSaved` is then inductive with `EditorInv`, and what is read back is what was saved
  (`SavedReadsBack`). `WholeSaves` is an action property. `FoundUnlessAcross` and `SearchGoesOn` are about the search.
  The theorems about `EditorView` rest on `ViewInv`, which is inductive (`ViewInvariant`): the cursor is in the text, and its
  row is among the rows that the view shows (`InView`), at whatever width the gutter leaves. Every key ends in a
  scroll, so the step is `ScrolledIs`, and `CenteredIs` before it for a jump; that a key leaves the cursor in the text is
  in `LayoutProofs`. From it `CursorOnScreen` (the first three parts of `ScreenRight`), the action property `ViewRests`
  (`NoNeedlessScroll`), `RowsReturn` (`ThereAndBack`) and `HighlightRight` (`HighlightExact`), all without premises and for an
  area of any size, one without columns included. `ScreenDrawn` is `ScreenRight` as a whole, when the frame is `Drawable`:
  there are two columns or more, and no character of the text is a control character. Neither premise can go: in one
  column no wide character fits and the kernel refuses the frame, and the eleventh disagreement is what it does with a
  control character.

Only model-checked: liveness (`KeysAreRead`, `DeviceDrained`, `LinesEnd`), which the prover does not
handle with fairness. Every other property of a passing run is stated by a theorem. The assumptions are those on the
constants, named in the modules that declare them (`SizeAssumption` says that `MaxSize`, the bound on a text, is a number; no
proof knows which). The library's induction theorems take an operator as a parameter and cannot be used here.
Where a proof has to go along data (the covering mount, the ranks of the
history, a walk, the rows of a line), it takes a least counterexample instead, with `WFMin` on the natural numbers.

## What is not modelled

- *Contents*: bytes of files, text on the console (of a line being typed its place and cursor are), which character a
  key types. `chmod`, `utimensat`, `stat` and
  `getdents` change or read attributes that no property here is about.
- *hadris-fat and virtio-drivers* are external: what the code relies on (a second writer is refused, a
  directory with entries is not deleted, a rename moves what is below) is modelled, their insides are not.
- *Crashes of the machine*: nothing in the code recovers from one, so there is no protocol to check.
- *Pure string functions* of the shell language, fonts, layout, timestamps, boot-sector parsing.
- *Register programming* (MMU, GIC, PSCI, DMA) that takes part in no protocol of the code's.
- *User programs* other than the editor: they act only through system calls, and the models let them make any of the
  ones modelled.
- *The editor's* status bar, footer, help page, `.editrc`, and the editing of an answer at a prompt (one line that is
  cleared when the prompt opens); the position typed at `^_`'s prompt is any one
  of the text (`EnterGoto`).
- *The earlier stages* (`r01_hello` ... `r19_mounts`, `progs_r12` ...), nine tenths of the repository's lines: each is the
  next one with a feature less. A model of one is a model of the last with the feature taken out and would show nothing new.
- *The disk's completion wait* (`drivers/virtio/blk.rs`): one `wfe` on one outstanding request; what makes it right
  (that a masked pending interrupt wakes it) is the architecture's event register, which is not in the code.
- Writes to one file through two names, and unlinking a file that is open: what the disk then holds is decided by
  hadris-fat; `docs/filesystem.md` lists it as a limit.

## Plan

Done: ring buffer, keyboard path and program entry, mounts, line execution, variables, line discipline with history and
`read(0)`, the editor's text, key loop, files and view; theorems on all of them; two refinements,
both proved.

Next, most worth doing first:
1. `UserMemory`: `brk`, the heap limit, the argument block (`argplan.rs`) as width-aware arithmetic.
2. Paths: normalization (`fs/path.rs`) and path search against reference definitions over bounded inputs.
