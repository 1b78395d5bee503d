---------------------------- MODULE DynamicScope ----------------------------
(***************************************************************************)
(* What the shell promises about variables (the module comment of          *)
(* exec/frame_stack.rs and of run_segment_with in shell/mod.rs), with no   *)
(* word about saving and putting back: a stack of scopes, each with        *)
(* bindings of its own.  A name means its innermost binding, and whatever  *)
(* is done to it is done there, so it goes when that scope does.           *)
(***************************************************************************)
EXTENDS Naturals, Sequences, SequencesExt

CONSTANTS Name, Value, Unset

VARIABLE scopes     \* outermost first, each with what it is and the names it binds

Var == [value : Value, exported : BOOLEAN]
Scope(kind, bindings) == [kind |-> kind, of |-> bindings]

Innermost(n) ==
    CHOOSE i \in DOMAIN scopes : /\ n \in DOMAIN scopes[i].of
                                 /\ \A j \in i + 1 .. Len(scopes) : n \notin DOMAIN scopes[j].of

Seen(n) == scopes[Innermost(n)].of[n]
IsExported(n) == Seen(n) # Unset /\ Seen(n).exported

Init == scopes = << Scope("process", [n \in Name |-> Unset]) >>

Enter(scope) == scopes' = Append(scopes, scope)

\* A line, a sourced script, a pipeline: no variables of its own, but a command's may follow.
EnterLocal == Enter(Scope("local", [n \in {} |-> Unset]))

\* A script run as its own process inherits what is exported; a pipeline's stage inherits all.
EnterProcess ==
    Enter(Scope("process", [n \in Name |-> IF IsExported(n) THEN Seen(n) ELSE Unset]))
EnterSubshell == Enter(Scope("subshell", [n \in Name |-> Seen(n)]))

Leave == Len(scopes) > 1 /\ scopes' = Front(scopes)

\* `NAME=value command`: a binding of the command's own, handed on to what it starts.
Bind(n, x) ==
    LET own == Last(scopes).of
    IN  /\ Last(scopes).kind = "local"
        /\ scopes' = [scopes EXCEPT ![Len(scopes)].of =
               [m \in DOMAIN own \cup {n} |->
                    IF m = n THEN [value |-> x, exported |-> TRUE] ELSE own[m]]]

Change(n, what) == scopes' = [scopes EXCEPT ![Innermost(n)].of[n] = what]

Assign(n, x) == Change(n, [value |-> x, exported |-> IsExported(n)])
Export(n) == Seen(n) # Unset /\ Change(n, [Seen(n) EXCEPT !.exported = TRUE])
ExportAs(n, x) == Change(n, [value |-> x, exported |-> TRUE])
Discard(n) == Change(n, Unset)

Next ==
    \/ EnterLocal \/ EnterProcess \/ EnterSubshell \/ Leave
    \/ \E n \in Name, x \in Value : Bind(n, x) \/ Assign(n, x) \/ ExportAs(n, x)
    \/ \E n \in Name : Export(n) \/ Discard(n)

Spec == Init /\ [][Next]_scopes
=============================================================================
