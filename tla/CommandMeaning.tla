-------------------------- MODULE CommandMeaning ---------------------------
(***************************************************************************)
(* What a command tree means to sh, without processes: the reference that  *)
(* the executions of ExecuteCommand and TimeTravel are compared with       *)
(* (src/Lab1/README.md, line 30: timetrash behaves like sh).               *)
(*                                                                         *)
(* Meaning[n, F, v] is the result of command n when the files are F and v  *)
(* is what its standard input still holds: whether it succeeds, the files  *)
(* after it, what it prints and what it leaves unread.  A pipe succeeds    *)
(* when its right side does, a subshell when what is inside does; a        *)
(* command whose input is not there fails without being run.               *)
(*                                                                         *)
(* A result also says where execute_command is known to part from sh.  It  *)
(* is "told" when the status that the code keeps is 0 for a success and    *)
(* only for a success, and it "departs" when files may differ: because a   *)
(* command without its input is run all the same, because && or || looks   *)
(* at a status that is not told, or because the left side of a pipe may be *)
(* killed half way.  The two sides of a pipe are taken one after the       *)
(* other, which is right when they do not use the same files.              *)
(***************************************************************************)
EXTENDS ExecuteCommand

Stores == [DOMAIN files -> SUBSET (Words \cup {NoWord})]

Result(ok, F, out, rest) == [ok |-> ok, files |-> F, out |-> out, rest |-> rest,
                             told |-> TRUE, departs |-> FALSE]

InputMissing(c, F) == c.input # NoWord /\ F[c.input] = Absent

\* A program or a subshell starts: its output is truncated.
Truncated(c, F) == IF c.output = NoWord THEN F ELSE [F EXCEPT ![c.output] = {}]

\* What a redirected command finds on its standard input.
InputOf(c, F, v) == IF c.input = NoWord THEN v ELSE Truncated(c, F)[c.input] \ Absent

\* Result r with its output and input put where the redirections of c say.
Redirect(c, v, r) ==
    [r EXCEPT !.files = IF c.output = NoWord THEN @ ELSE [@ EXCEPT ![c.output] = @ \cup r.out],
              !.out   = IF c.output = NoWord THEN @ ELSE {},
              !.rest  = IF c.input = NoWord THEN @ ELSE v]

\* A program on the files F with v on its standard input.
Ran(c, F, v) ==
    LET w == c.word[1]
        args == {c.word[i] : i \in 2..Len(c.word)} \cap DOMAIN F
        stdin == Program[w].reads /\ Len(c.word) = 1
    IN IF w \notin DOMAIN Program THEN Result(FALSE, F, {}, v)
       ELSE Result(Program[w].code = 0, F,
                   IF Program[w].prints
                   THEN {w} \cup UNION {F[a] \ Absent : a \in args}
                            \cup IF stdin THEN v ELSE {}
                   ELSE {},
                   IF stdin THEN {} ELSE v)

\* A child exits with an encoded status, of which a failure's low 8 bits are 0.
Exited(r) == [r EXCEPT !.told = @ /\ r.ok]

\* l | r: unread output may kill the left side, whose status may be the pipe's.
Piped(l, r, whole) ==
    [Exited(r) EXCEPT !.rest = l.rest,
                      !.told = @ /\ r.rest = {},
                      !.departs = @ \/ l.departs \/ (r.rest # {} /\ ~whole)]

\* && is cut short by a failure, || by a success, ; by nothing.
CutShort(type, ok) == (type = "AND" /\ ~ok) \/ (type = "OR" /\ ok)

\* l, and r behind it unless cut short.
Joined(type, l, r) ==
    [(IF CutShort(type, l.ok) THEN l ELSE [r EXCEPT !.out = @ \cup l.out])
        EXCEPT !.departs = @ \/ l.departs \/ (type # "SEQUENCE" /\ ~l.told)]

Meaning[n \in Nodes, F \in Stores, v \in SUBSET Words] ==
    LET c == node[n]
    IN CASE c.type \in {"SIMPLE", "SUBSHELL"} /\ InputMissing(c, F) ->
              [Result(FALSE, F, {}, v) EXCEPT !.departs = TRUE]
         [] c.type = "SIMPLE" /\ ~InputMissing(c, F) ->
              Redirect(c, v, Ran(c, Truncated(c, F), InputOf(c, F, v)))
         [] c.type = "SUBSHELL" /\ ~InputMissing(c, F) ->
              Redirect(c, v, Exited(Meaning[c.left, Truncated(c, F), InputOf(c, F, v)]))
         [] c.type = "PIPE" ->
              LET l == Meaning[c.left, F, v]
              IN Piped(l, Meaning[c.right, l.files, l.out], node[c.left].type = "SIMPLE")
         [] OTHER ->
              LET l == Meaning[c.left, F, v]
              IN Joined(c.type, l, Meaning[c.right, l.files, l.rest])

\* The commands of the script, one after the other.
Serially(store) ==
    LET after[k \in 0..Len(commands)] ==
          IF k = 0 THEN Result(TRUE, store, {}, {})
          ELSE LET r == Meaning[commands[k], after[k - 1].files, {}]
               IN [r EXCEPT !.departs = @ \/ after[k - 1].departs]
    IN after[Len(commands)]
=============================================================================
