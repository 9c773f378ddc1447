---------------------------- MODULE ReadCommand ----------------------------
(***************************************************************************)
(* src/Lab1/read-command.c: how timetrash turns the characters of a script *)
(* into command trees.                                                     *)
(*                                                                         *)
(* make_command_stream reads characters and builds the token stream (phase *)
(* "tokens"), walks over it to reject wrong syntax (phase "grammar") and   *)
(* then read_command_stream, called once per complete command (phases      *)
(* "ready" and "build"), turns the tokens up to the next ENDCMD into a     *)
(* tree.                                                                   *)
(*                                                                         *)
(* The letters of one word are one member of Words in the script, so that  *)
(* the array word_buffer holds a word or NoWord.  A node of the heap is    *)
(* numbered and 0 is the null pointer.  Memory of the arrays beyond what   *)
(* was written reads as zero (NULL): they are fresh from the allocator in  *)
(* every script shorter than 160 tokens.                                   *)
(***************************************************************************)
EXTENDS Integers, Sequences, FiniteSets

CONSTANTS Words,    \* the words a script can hold
          NoWord    \* the empty word_buffer, and a null input or output

Operators == {"AND", "OR", "PIPELINE"}
Redirections == {"IN", "OUT"}
Brackets == {"LBKT", "RBKT"}
Newlines == {"HALFENDCMD", "ENDCMD"}
TokenTypes == {"NULL", "WORD", "HALFAND", "SEMICOLON"}
                  \cup Operators \cup Redirections \cup Brackets \cup Newlines

CommandTypes == {"AND", "SEQUENCE", "OR", "PIPE", "SIMPLE", "SUBSHELL"}

ReadPhases == {"tokens", "grammar", "ready", "build", "error", "crash"}

VARIABLES
    chars,          \* what getc has still to return
    is_comments,
    word_buffer,
    stream,         \* command_s: the tokens written so far
    first,          \* where command_s points after the leading newlines
    at,             \* gra_check, then stream_ptr
    end,            \* stream_end_ptr
    node,           \* the command structures allocated so far
    command_root, parse_command, is_subshell, subshell_root,
    commands,       \* the trees read so far, in order
    phase

textVars == <<chars, is_comments, word_buffer>>
buildVars == <<node, command_root, parse_command, is_subshell, subshell_root>>
readVars == <<textVars, stream, first, at, end, buildVars, commands, phase>>

---------------------------------------------------------------------------
(* The token stream. *)

Token(t, w) == [token |-> t, content |-> w]

TokenAt(i) == IF i \in DOMAIN stream THEN stream[i].token ELSE "NULL"

\* The last and the last but one token written: command_s_ptr-1, command_s_ptr-2.
Last == TokenAt(Len(stream))
BeforeLast == TokenAt(Len(stream) - 1)

\* The last token becomes another one.
Becomes(t, w) == [stream EXCEPT ![Len(stream)] = Token(t, w)]

(* add_token(WORD_TOKEN): the stream after word_buffer is flushed.  A word  *)
(* takes the place of a newline that follows an operator or a redirection. *)
WithWord ==
    IF word_buffer = NoWord THEN stream
    ELSE IF Last \in Newlines /\ BeforeLast \in Operators \cup Redirections
    THEN Becomes("WORD", word_buffer)
    ELSE Append(stream, Token("WORD", word_buffer))

(* add_token for the other types, on the stream after the flush: |, & and  *)
(* newline merge with an equal last token, < and > take the place of a     *)
(* newline after a word.                                                   *)
AddToken(t) ==
    stream' =
      CASE t = Last /\ t = "HALFENDCMD"    -> Becomes("ENDCMD", NoWord)
        [] t = "HALFENDCMD" /\ Last = "ENDCMD" -> stream
        [] t = Last /\ t = "PIPELINE"      -> Becomes("OR", NoWord)
        [] t = Last /\ t = "HALFAND"       -> Becomes("AND", NoWord)
        [] t \in Redirections /\ Last \in Newlines /\ BeforeLast = "WORD"
                                           -> Becomes(t, NoWord)
        [] OTHER                           -> Append(stream, Token(t, NoWord))

\* A third | or & in a row: error (1, 0, "Undefined usage of ...").
Undefined(t) == \/ t = "PIPELINE" /\ Last = "OR"
                \/ t = "HALFAND" /\ Last = "AND"

TokenOf == [c \in {";", "|", "&", "(", ")", "<", ">", "newline"} |->
              CASE c = ";" -> "SEMICOLON" [] c = "|" -> "PIPELINE"
                [] c = "&" -> "HALFAND"   [] c = "(" -> "LBKT"
                [] c = ")" -> "RBKT"      [] c = "<" -> "IN"
                [] c = ">" -> "OUT"       [] c = "newline" -> "HALFENDCMD"]

\* exit(1) after a message; nothing more of the script is read or run.
ReportError ==
    /\ phase' = "error"
    /\ UNCHANGED <<textVars, stream, first, at, end, buildVars, commands>>

InComment(c) == c = "#" \/ (is_comments /\ c # "newline")

(* One character of the loop of make_command_stream.  A separator flushes  *)
(* word_buffer before it adds its own token: the flush is a step of its    *)
(* own here (the character stays), because add_token is called twice.      *)
SkipComment ==
    /\ phase = "tokens" /\ chars # <<>> /\ InComment(Head(chars))
    /\ is_comments' = TRUE
    /\ chars' = Tail(chars)
    /\ UNCHANGED <<word_buffer, stream, first, at, end, buildVars, commands, phase>>

ReadCharacter(c) ==
    /\ phase = "tokens" /\ chars # <<>> /\ c = Head(chars) /\ ~InComment(c)
    /\ is_comments' = FALSE
    /\ \/ /\ c \in Words
          /\ word_buffer' = c
          /\ chars' = Tail(chars)
          /\ UNCHANGED stream
       \/ /\ c \notin Words /\ word_buffer # NoWord
          /\ stream' = WithWord
          /\ word_buffer' = NoWord
          /\ UNCHANGED chars
       \/ /\ c \in DOMAIN TokenOf /\ word_buffer = NoWord
          /\ ~Undefined(TokenOf[c])
          /\ AddToken(TokenOf[c])
          /\ chars' = Tail(chars)
          /\ UNCHANGED word_buffer
       \/ /\ c = "blank" /\ word_buffer = NoWord
          /\ chars' = Tail(chars)
          /\ UNCHANGED <<word_buffer, stream>>
    /\ UNCHANGED <<first, at, end, buildVars, commands, phase>>

\* A character outside the shell's alphabet, or too many of | or &.
RejectCharacter(c) ==
    /\ phase = "tokens" /\ chars # <<>> /\ c = Head(chars) /\ ~InComment(c)
    /\ \/ c \notin Words \cup DOMAIN TokenOf \cup {"blank"}
       \/ c \in DOMAIN TokenOf /\ word_buffer = NoWord /\ Undefined(TokenOf[c])
    /\ ReportError

(* The end of the file: leading newlines are stepped over and a newline at *)
(* the end ends the last command.  A word that no separator followed is    *)
(* lost with word_buffer.                                                  *)
EndOfFile ==
    /\ phase = "tokens" /\ chars = <<>>
    /\ first' = IF TokenAt(1) \in Newlines THEN 2 ELSE 1
    /\ stream' = IF Last = "HALFENDCMD" THEN Becomes("ENDCMD", NoWord) ELSE stream
    /\ at' = 1
    /\ phase' = "grammar"
    /\ UNCHANGED <<textVars, end, buildVars, commands>>

---------------------------------------------------------------------------
(* The grammar check. *)

EndsOperand(i) == TokenAt(i) \in {"WORD", "RBKT"}
StartsOperand(i) == TokenAt(i) \in {"WORD", "LBKT"}

\* check_twosides: TRUE when the token at i lacks its left or right side.
check_twosides(i) ==
    \/ TokenAt(i + 1) = "ENDCMD"
    \/ i - 1 < first
    \/ ~ \/ EndsOperand(i - 1)
         \/ TokenAt(i - 1) = "HALFENDCMD" /\ EndsOperand(i - 2)
    \/ ~ \/ StartsOperand(i + 1)
         \/ TokenAt(i + 1) = "HALFENDCMD" /\ StartsOperand(i + 2)

WrongSyntax(i) ==
    \/ TokenAt(i) \in Operators /\ (check_twosides(i) \/ ~EndsOperand(i - 1))
    \/ TokenAt(i) \in Redirections /\ check_twosides(i)
    \/ TokenAt(i) = "SEMICOLON" /\ ~EndsOperand(i - 1)
    \/ TokenAt(i) = "HALFAND"

\* One turn of the checking loop; a single newline ends a command from here on.
CheckToken ==
    /\ phase = "grammar" /\ at <= Len(stream)
    /\ ~WrongSyntax(at)
    /\ stream' = IF TokenAt(at) = "HALFENDCMD"
                 THEN [stream EXCEPT ![at] = Token("ENDCMD", NoWord)] ELSE stream
    /\ at' = at + 1
    /\ UNCHANGED <<textVars, first, end, buildVars, commands, phase>>

Count(t) == Cardinality({i \in DOMAIN stream : stream[i].token = t})

GrammarDone ==
    /\ phase = "grammar" /\ at > Len(stream)
    /\ Count("LBKT") = Count("RBKT")
    /\ phase' = "ready"
    /\ UNCHANGED <<textVars, stream, first, at, end, buildVars, commands>>

RejectGrammar ==
    /\ phase = "grammar"
    /\ \/ at <= Len(stream) /\ WrongSyntax(at)
       \/ at > Len(stream) /\ Count("LBKT") # Count("RBKT")
    /\ ReportError

---------------------------------------------------------------------------
(* The command trees. *)

\* generate_new_node: fresh memory reads as zero, which is AND_COMMAND.
Fresh == [type |-> "AND", left |-> 0, right |-> 0, word |-> <<>>,
          input |-> NoWord, output |-> NoWord]

Least(S) == CHOOSE i \in S : \A j \in S : i <= j

\* find_stream_start and find_stream_end.
find_stream_start == Least({i \in first..Len(stream) : TokenAt(i) # "NULL"})
find_stream_end == Least({i \in first..Len(stream) : TokenAt(i) = "ENDCMD"})

\* read_command_stream is called: one root is allocated for the tree.
StartCommand ==
    /\ phase = "ready"
    /\ find_stream_start # find_stream_end
    /\ at' = find_stream_start
    /\ end' = find_stream_end
    /\ node' = Append(node, Fresh)
    /\ command_root' = Len(node')
    /\ parse_command' = Len(node')
    /\ is_subshell' = 0
    /\ subshell_root' = 0
    /\ phase' = "build"
    /\ UNCHANGED <<textVars, stream, first, commands>>

\* Only the ENDCMD that update_read_stream put behind the last command is left.
AllRead == phase = "ready" /\ find_stream_start = find_stream_end

Building(t) == phase = "build" /\ at <= end /\ TokenAt(at) = t

\* A word: the node in hand becomes, or already is, a simple command.
ReadWord ==
    /\ Building("WORD")
    /\ \E n \in {IF node[parse_command].type = "SIMPLE"
                 THEN node[parse_command] ELSE [Fresh EXCEPT !.type = "SIMPLE"]} :
         node' = [node EXCEPT ![parse_command] =
                    [n EXCEPT !.word = Append(@, stream[at].content)]]
    /\ at' = at + 1
    /\ UNCHANGED <<textVars, stream, first, end, command_root, parse_command,
                   is_subshell, subshell_root, commands, phase>>

CommandOf(t) == CASE t = "PIPELINE" -> "PIPE" [] t = "SEMICOLON" -> "SEQUENCE"
                  [] OTHER -> t

(* The types that give up their right side to a new command of type c:     *)
(* only the type of the root is looked at, not that of its right side.     *)
OnlyPipes(c) == IF c = "PIPE" THEN {"AND", "OR", "SEQUENCE"} ELSE {}  \* mutant of Looser
Looser(c) == CASE c = "PIPE" -> {"AND", "OR", "SEQUENCE"}
               [] c \in {"AND", "OR"} -> {"SEQUENCE"}
               [] OTHER -> {}

(* |, &&, || and ;  The tree that grows is the subshell's when one is open. *)
(* The new command takes the root's right side, or the whole tree, as its  *)
(* left side and a fresh node as its right side.                           *)
ReadOperator(t) ==
    /\ Building(t)
    /\ \E c \in {CommandOf(t)},
          top \in {IF is_subshell = 1 THEN node[subshell_root].left ELSE command_root},
          new \in {Len(node) + 1} :
         LET grown(l) == node \o <<[Fresh EXCEPT !.type = c, !.left = l,
                                               !.right = new + 1], Fresh>>
         IN /\ parse_command' = new + 1
            /\ IF node[top].type \in Looser(c)
               THEN /\ node' = [grown(node[top].right) EXCEPT ![top].right = new]
                    /\ UNCHANGED command_root
               ELSE IF is_subshell = 1
               THEN /\ node' = [grown(top) EXCEPT ![subshell_root].left = new]
                    /\ UNCHANGED command_root
               ELSE /\ node' = grown(top)
                    /\ command_root' = new
    /\ at' = at + 1
    /\ UNCHANGED <<textVars, stream, first, end, is_subshell, subshell_root,
                   commands, phase>>

(* < and >: a redirection right behind ) belongs to the subshell that was  *)
(* opened last, any other one to the node in hand.                         *)
ReadRedirection(t) ==
    /\ Building(t) /\ TokenAt(at + 1) = "WORD"
    /\ \E n \in {IF TokenAt(at - 1) = "RBKT" THEN subshell_root ELSE parse_command} :
         node' = [node EXCEPT ![n] =
                    IF t = "IN" THEN [@ EXCEPT !.input = stream[at + 1].content]
                                ELSE [@ EXCEPT !.output = stream[at + 1].content]]
    /\ at' = at + 2
    /\ UNCHANGED <<textVars, stream, first, end, command_root, parse_command,
                   is_subshell, subshell_root, commands, phase>>

\* The file name is not a word: strlen of a null content.
RedirectionCrash ==
    /\ \E t \in Redirections : Building(t) /\ TokenAt(at + 1) # "WORD"
    /\ phase' = "crash"
    /\ UNCHANGED <<textVars, stream, first, at, end, buildVars, commands>>

OpenSubshell ==
    /\ Building("LBKT")
    /\ is_subshell' = 1
    /\ subshell_root' = parse_command
    /\ node' = Append([node EXCEPT ![parse_command] =
                         [@ EXCEPT !.type = "SUBSHELL", !.left = Len(node) + 1,
                                   !.right = 0, !.word = <<>>]], Fresh)
    /\ parse_command' = Len(node')
    /\ at' = at + 1
    /\ UNCHANGED <<textVars, stream, first, end, command_root, commands, phase>>

CloseSubshell ==
    /\ Building("RBKT")
    /\ is_subshell' = 0
    /\ at' = at + 1
    /\ UNCHANGED <<textVars, stream, first, end, node, command_root, parse_command,
                   subshell_root, commands, phase>>

(* ENDCMD: update_read_stream clears the tokens of the command and, behind *)
(* the last one, puts the ENDCMD that makes the next call return null.     *)
FinishCommand ==
    /\ Building("ENDCMD")
    /\ stream' = [i \in 1..(IF end = Len(stream) THEN end + 1 ELSE Len(stream)) |->
                    CASE i > Len(stream) -> Token("ENDCMD", NoWord)
                      [] i \in find_stream_start..end -> Token("NULL", NoWord)
                      [] OTHER -> stream[i]]
    /\ commands' = Append(commands, command_root)
    /\ phase' = "ready"
    /\ UNCHANGED <<textVars, first, at, end, buildVars>>

---------------------------------------------------------------------------
ReadInit(text) ==
    /\ chars = text
    /\ is_comments = FALSE
    /\ word_buffer = NoWord
    /\ stream = <<>>
    /\ first = 1 /\ at = 1 /\ end = 1
    /\ node = <<>>
    /\ command_root = 0 /\ parse_command = 0
    /\ is_subshell = 0 /\ subshell_root = 0
    /\ commands = <<>>
    /\ phase = "tokens"

\* make_command_stream, which main calls before anything else.
MakeStream ==
    \/ SkipComment
    \/ \E c \in {Head(chars) : i \in {1} \cap DOMAIN chars} :
          ReadCharacter(c) \/ RejectCharacter(c)
    \/ EndOfFile \/ CheckToken \/ GrammarDone \/ RejectGrammar

\* read_command_stream, which main calls until it returns null.
BuildCommand ==
    \/ ReadWord
    \/ \E t \in Operators \cup {"SEMICOLON"} : ReadOperator(t)
    \/ \E t \in Redirections : ReadRedirection(t)
    \/ RedirectionCrash
    \/ OpenSubshell \/ CloseSubshell \/ FinishCommand
=============================================================================
