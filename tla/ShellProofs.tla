---------------------------- MODULE ShellProofs ----------------------------
(***************************************************************************)
(* Proofs that every child is waited for before execute_command returns,   *)
(* that -t never runs a command beside one that writes what it names, that *)
(* no process runs an operator that lacks a side, and that all state has   *)
(* its type, for any scripts, words and programs.                          *)
(*                                                                         *)
(* What the reader leaves in the heap are trees: however operators,        *)
(* brackets and redirections follow each other, no node is on two sides    *)
(* and none is below itself, and the trees that main has been given share  *)
(* no node with the one in hand.  Then a node and its sides are run by     *)
(* nobody else, and a local condition, one for each stage, says how far    *)
(* the sides are; what holds of each node and its sides goes down the tree *)
(* to all that is below.  For -t, no dependency is lost: it is in the      *)
(* graph, or what it waits for has been reaped.                            *)
(*                                                                         *)
(* The reader's two stacks always have an operand for each operator that   *)
(* waits, so each node that main is given has the sides of its type; and a *)
(* process that runs a node has on its descriptors what it has opened.     *)
(***************************************************************************)
EXTENDS Shell, SequenceTheorems, FiniteSetTheorems, WellFoundedInduction, TLAPS

---------------------------------------------------------------------------
(* The invariant *)

(* The characters, tokens and nodes of a script.                           *)
Texts == Words \cup {NoWord}
Tokens == [token : TokenTypes, content : Texts]
NodeSet == [type : CommandTypes, left : Nat, right : Nat, word : Seq(Texts),
            input : Texts, output : Texts]

Sides(t, n) == {t[n].left, t[n].right} \ {0}

(* No node has n on one of its sides.                                      *)
Orphan(t, n) == \A m \in DOMAIN t : t[m].left # n /\ t[m].right # n

(* A node is on one side of one other node at most; what is simple has no  *)
(* sides, and a subshell has one.                                          *)
IsTree(t) ==
  /\ \A n \in DOMAIN t : /\ t[n].left \in 0..Len(t)
                         /\ t[n].right \in 0..Len(t)
                         /\ t[n].left # 0 => t[n].left # t[n].right
                         /\ t[n].type = "SIMPLE" => Sides(t, n) = {}
                         /\ t[n].type = "SUBSHELL" => t[n].right = 0
  /\ \A n, m \in DOMAIN t : n # m => Sides(t, n) \cap Sides(t, m) = {}

(* The commands that main has read are different trees, and whole ones.    *)
Roots ==
  /\ commands \in Seq(Nat)
  /\ \A i \in DOMAIN commands : commands[i] \in DOMAIN node /\ Orphan(node, commands[i])
  /\ \A i, j \in DOMAIN commands : commands[i] = commands[j] => i = j

(* The tree that is being built: the node in hand has no sides, and the    *)
(* subshell that is open has something inside.                             *)
InHand ==
  /\ command_root \in DOMAIN node /\ Orphan(node, command_root)
  /\ \A i \in DOMAIN commands : commands[i] # command_root
  /\ parse_command \in DOMAIN node
  /\ node[parse_command].left = 0 /\ node[parse_command].right = 0
  /\ is_subshell \in {0, 1}
  /\ is_subshell = 1 =>
       /\ subshell_root \in DOMAIN node /\ subshell_root # parse_command
       /\ node[subshell_root].type = "SUBSHELL" /\ node[subshell_root].left # 0

Reading ==
  /\ word_buffer \in Texts /\ stream \in Seq(Tokens) /\ node \in Seq(NodeSet)
  /\ IsTree(node) /\ Roots
  /\ phase = "build" => InHand

(* Time travel: an edge is there until its end has been waited for, W      *)
(* counts the edges, and a command that runs waits for none.               *)
Waits(row) == {e \in constrain_graph : e[1] = row}

Edges ==
  /\ running \subseteq DOMAIN commands
  /\ constrain_graph \subseteq (DOMAIN commands) \X (DOMAIN commands)
  /\ W = [row \in DOMAIN commands |-> Cardinality(Waits(row))]
  /\ \A row \in running : Waits(row) = {}
  /\ \A row, col \in DOMAIN commands :
       Constrained(row, col) =>
         \/ <<row, col>> \in constrain_graph
         \/ col \in running /\ pc[commands[col]] = "reaped"

Traveling ==
  /\ mode # "travel" => round = "none"
  /\ round = "none" => running = {}
  /\ round # "none" => AllRead /\ Edges

Executing == pc \in [Nodes -> Stages]

(* A node that has not been started has no side that has, one that is over *)
(* has no side that runs, and so on for each stage.                        *)
Idle(n) == pc[n] = "idle"
Ended(n) == pc[n] \in {"idle", "returned", "reaped"}

SidesFit(n) ==
  /\ pc[n] \in {"idle", "called", "forked"} => \A m \in Sides(node, n) : Idle(m)
  /\ pc[n] \in {"left", "right"} => node[n].type \in Lists
  /\ pc[n] = "left" => (node[n].right # 0 => Idle(node[n].right))
  /\ pc[n] = "right" => (node[n].left # 0 => pc[node[n].left] = "returned")
  /\ pc[n] \in {"forkright", "closing", "waiting", "waitpid"} => node[n].type = "PIPE"
  /\ pc[n] = "forkright" => (node[n].right # 0 => Idle(node[n].right))
  /\ pc[n] = "waitpid" => \E m \in Sides(node, n) : pc[m] = "reaped"
  /\ pc[n] \in {"forked", "inside"} => node[n].type \in {"SIMPLE", "SUBSHELL"}
  /\ pc[n] \in {"ended", "killed"} => node[n].type = "SIMPLE"
  /\ Over(n) =>
       /\ \A m \in Sides(node, n) : Ended(m)
       /\ node[n].type \in {"PIPE", "SUBSHELL"} => \A m \in Sides(node, n) : pc[m] = "reaped"

Fits == \A n \in DOMAIN node : SidesFit(n)

(* The nodes after the first base ones are trees of their own.             *)
Apart(t, base) == \A n \in DOMAIN t : \A m \in Sides(t, n) : m > base <=> n > base

(* They are the tree in hand, and no process runs any of them yet.         *)
NewFrom(base) ==
  /\ \A n \in Nodes : n > base => Idle(n)
  /\ Apart(node, base)
  /\ command_root > base /\ parse_command > base
  /\ subshell_root # 0 => subshell_root > base

(* A command that main has not called has not been started.                *)
Uncalled(i) == IF mode = "serial" THEN i > called ELSE i \notin running

Started ==
  /\ \A n \in Nodes : n > Len(node) => Idle(n)
  /\ Fits
  /\ \A i \in DOMAIN commands : Uncalled(i) => Idle(commands[i])
  /\ called \in 0..Len(commands)
  /\ phase = "build" => \E base \in 0..Len(node) : NewFrom(base)

(* The tokens after which an operand is due.                               *)
Starters == Operators \cup {"SEMICOLON", "LBKT"}

(* What the checking loop has found out about the token at i.              *)
Checked(i) ==
  /\ TokenAt(i) \in Operators \cup Redirections \cup {"SEMICOLON"} => EndsOperand(i - 1)
  /\ TokenAt(i) \in Operators => StartsOperand(i + 1) \/ TokenAt(i + 1) \in Newlines
  /\ TokenAt(i) \notin {"HALFAND", "HALFENDCMD"}

Grammatical ==
  /\ phase = "grammar" => at \in Nat /\ \A i \in DOMAIN stream : i < at => Checked(i)
  /\ phase \in {"ready", "build", "running"} => \A i \in DOMAIN stream : Checked(i)
  /\ phase \in {"grammar", "ready", "build", "running"} =>
       first \in Nat /\ \A i \in DOMAIN stream : i < first => TokenAt(i) \in Newlines \cup {"NULL"}
  /\ phase = "tokens" => first = 1

(* A command has both sides, and a subshell has something inside, but for  *)
(* the node in hand when the token behind it has not been read yet.        *)
Complete(n) == node[n].type \in Lists \cup {"PIPE"} => node[n].left # 0 /\ node[n].right # 0

Built ==
  /\ phase = "build" =>
       /\ find_stream_start # find_stream_end /\ end = find_stream_end
       /\ at \in Nat /\ first <= at
       /\ at = find_stream_start \/ TokenAt(at - 1) \in Starters \cup {"WORD", "RBKT"}
       /\ EndsOperand(at - 1) => Complete(parse_command)
  /\ \A n \in DOMAIN node : \/ phase = "build" /\ n = parse_command
                            \/ Complete(n)
  /\ \A n \in DOMAIN node : node[n].type = "SUBSHELL" => node[n].left # 0

(* A descriptor that is not the shell's own is the pipe of a command, or   *)
(* the file that it is redirected to or from, and the command runs or ran. *)
Descs == [in : Nat, out : Nat]

Input(d) == d = 0 \/ /\ d \in DOMAIN node /\ ~Idle(d)
                     /\ node[d].type = "PIPE" \/ node[d].input # NoWord

Output(d) == d = 0 \/ /\ d \in DOMAIN node /\ ~Idle(d)
                      /\ node[d].type = "PIPE" \/ node[d].output # NoWord

Opening ==
  /\ fd \in [Nodes -> Descs]
  /\ \A n \in Nodes : Input(fd[n].in) /\ Output(fd[n].out)

(* What processes leave behind: files and pipes hold what programs print,  *)
(* and a status is that of waitpid.                                        *)
Statuses == 0..(256 * 256 - 1)

Leaving ==
  /\ files \in [Words -> SUBSET Texts]
  /\ pipe \in [Nodes -> SUBSET Words]
  /\ drained \subseteq Nodes
  /\ status \in [Nodes -> Statuses]
  /\ tstatus \in Statuses /\ exit_status \in -1..255

(* What main and the reader keep besides.                                  *)
Keeping ==
  /\ mode \in Modes /\ script \in Scripts /\ round \in Rounds
  /\ phase \in ReadPhases \cup {"running"} /\ is_comments \in BOOLEAN
  /\ is_subshell \in {0, 1}
  /\ command_root \in 0..Len(node) /\ parse_command \in 0..Len(node)
  /\ subshell_root \in 0..Len(node)

(* No tree has a cycle: a node is higher than its sides.                   *)
Ranks(t, r) ==
  /\ r \in [DOMAIN t -> Nat]
  /\ \A n \in DOMAIN t : \A m \in Sides(t, n) : r[m] < r[n]

Acyclic(t) == \E r : Ranks(t, r)

Fitting == Len(node) <= MaxNodes

(* The operands that make_command_stream does not look for: a newline does *)
(* not end a command between an operator and a bracket, and there is       *)
(* something behind a ; and inside brackets.                               *)
Filled ==
  phase \in {"ready", "build"} =>
    \A i \in DOMAIN stream :
      /\ TokenAt(i) \in Operators => TokenAt(i + 1) \notin Newlines
      /\ TokenAt(i) \in {"SEMICOLON", "LBKT"} => StartsOperand(i + 1)
      /\ TokenAt(i) = "RBKT" => EndsOperand(i - 1)
---------------------------------------------------------------------------
(* Reading *)

(* A place of a sequence that is none is not changed.                      *)
LEMMA PutSeq ==
  ASSUME NEW S, NEW s \in Seq(S), NEW i, NEW e \in S
  PROVE  /\ [s EXCEPT ![i] = e] \in Seq(S) /\ Len([s EXCEPT ![i] = e]) = Len(s)
         /\ DOMAIN [s EXCEPT ![i] = e] = DOMAIN s
         /\ \A j \in DOMAIN s : [s EXCEPT ![i] = e][j] = IF j = i THEN e ELSE s[j]
<1>1. DOMAIN s = 1..Len(s)
  OBVIOUS
<1>2. CASE i \in 1..Len(s)
  BY <1>1, <1>2, ExceptSeq
<1>3. CASE i \notin 1..Len(s)
  <2>1. [s EXCEPT ![i] = e] = s
    BY <1>1, <1>3, IsASeq
  <2> QED BY <1>3, <2>1
<1> QED BY <1>2, <1>3

(* A token that can be looked at is one of the stream.                     *)
LEMMA TokenIs ==
  ASSUME stream \in Seq(Tokens), NEW i, TokenAt(i) # "NULL"
  PROVE  i \in 1..Len(stream) /\ stream[i].content \in Texts
<1>1. i \in DOMAIN stream
  BY DEF TokenAt
<1>2. i \in 1..Len(stream)
  BY <1>1
<1>3. stream[i] \in Tokens
  BY <1>2
<1> QED BY <1>2, <1>3 DEF Tokens

(* A token that is put at the end, or in place of the last one.            *)
LEMMA PutToken ==
  ASSUME stream \in Seq(Tokens), NEW t \in TokenTypes, NEW w \in Texts
  PROVE  Becomes(t, w) \in Seq(Tokens) /\ Append(stream, Token(t, w)) \in Seq(Tokens)
<1>1. Token(t, w) \in Tokens
  BY DEF Token, Tokens
<1> DEFINE k == Token(t, w)
<1>2. Becomes(t, w) = [stream EXCEPT ![Len(stream)] = k]
  BY DEF Becomes
<1> HIDE DEF k
<1>3. k \in Tokens
  BY <1>1 DEF k
<1>4. [stream EXCEPT ![Len(stream)] = k] \in Seq(Tokens)
  BY <1>3, PutSeq
<1>5. Append(stream, k) \in Seq(Tokens)
  BY <1>3
<1> QED BY <1>2, <1>4, <1>5 DEF k

(* add_token for an operator, a bracket or a newline leaves tokens.        *)
LEMMA AddTokenTyped ==
  ASSUME stream \in Seq(Tokens), NEW c \in DOMAIN TokenOf, AddToken(TokenOf[c])
  PROVE  stream' \in Seq(Tokens)
<1>1. TokenOf[c] \in TokenTypes /\ NoWord \in Texts
  BY DEF TokenOf, TokenTypes, Operators, Redirections, Brackets, Newlines, Texts
<1>2. "ENDCMD" \in TokenTypes /\ "OR" \in TokenTypes /\ "AND" \in TokenTypes
  BY DEF TokenTypes, Operators, Newlines
<1> DEFINE t == TokenOf[c]
<1>3. stream' \in {Becomes("ENDCMD", NoWord), stream, Becomes("OR", NoWord), Becomes("AND", NoWord),
                   Becomes(t, NoWord), Append(stream, Token(t, NoWord))}
  BY DEF AddToken
<1> HIDE DEF t
<1>4. t \in TokenTypes
  BY <1>1 DEF t
<1> QED BY <1>1, <1>2, <1>3, <1>4, PutToken

(* What make_command_stream does leaves no tree in hand.                   *)
LEMMA MakeStreamKeeps ==
  ASSUME word_buffer \in Texts, stream \in Seq(Tokens), MakeStream
  PROVE  /\ word_buffer' \in Texts /\ stream' \in Seq(Tokens) /\ phase' # "build"
         /\ UNCHANGED <<node, commands>> /\ phase \in {"tokens", "grammar"}
<1>1. CASE SkipComment
  BY <1>1 DEF SkipComment, buildVars
<1>2. ASSUME NEW c, ReadCharacter(c)
      PROVE  /\ word_buffer' \in Texts /\ stream' \in Seq(Tokens) /\ phase' # "build"
             /\ UNCHANGED <<node, commands>> /\ phase \in {"tokens", "grammar"}
  <2>1. phase' = "tokens" /\ UNCHANGED <<node, commands>> /\ phase = "tokens"
    BY <1>2 DEF ReadCharacter, buildVars
  <2>2. CASE c \in Words /\ word_buffer' = c /\ UNCHANGED stream
    BY <2>1, <2>2 DEF Texts
  <2>3. CASE word_buffer # NoWord /\ stream' = WithWord /\ word_buffer' = NoWord
    <3>1. "WORD" \in TokenTypes
      BY DEF TokenTypes
    <3> QED BY <2>1, <2>3, <3>1, PutToken DEF WithWord, Texts
  <2>4. CASE c \in DOMAIN TokenOf /\ AddToken(TokenOf[c]) /\ UNCHANGED word_buffer
    BY <2>1, <2>4, AddTokenTyped
  <2>5. CASE UNCHANGED <<word_buffer, stream>>
    BY <2>1, <2>5
  <2> QED BY <1>2, <2>2, <2>3, <2>4, <2>5 DEF ReadCharacter
<1>3. ASSUME NEW c, RejectCharacter(c)
      PROVE  /\ UNCHANGED <<word_buffer, stream, node, commands>>
             /\ phase' # "build" /\ phase = "tokens"
  BY <1>3 DEF RejectCharacter, ReportError, buildVars, textVars
<1>4. CASE EndOfFile
  <2>1. UNCHANGED <<word_buffer, node, commands>> /\ phase' # "build" /\ phase = "tokens"
    BY <1>4 DEF EndOfFile, buildVars, textVars
  <2>2. "ENDCMD" \in TokenTypes /\ NoWord \in Texts
    BY DEF TokenTypes, Newlines, Texts
  <2>3. stream' = stream \/ stream' = Becomes("ENDCMD", NoWord)
    BY <1>4 DEF EndOfFile
  <2> QED BY <2>1, <2>2, <2>3, PutToken
<1>5. CASE CheckToken
  <2>1. UNCHANGED <<word_buffer, node, commands>> /\ phase' # "build" /\ phase = "grammar"
    BY <1>5 DEF CheckToken, buildVars, textVars
  <2>2. Token("ENDCMD", NoWord) \in Tokens
    BY DEF Token, Tokens, TokenTypes, Newlines, Texts
  <2>3. stream' = stream \/ stream' = [stream EXCEPT ![at] = Token("ENDCMD", NoWord)]
    BY <1>5 DEF CheckToken
  <2> QED BY <2>1, <2>2, <2>3, PutSeq
<1>6. CASE GrammarDone
  BY <1>6 DEF GrammarDone, buildVars, textVars
<1>7. CASE RejectGrammar
  BY <1>7 DEF RejectGrammar, ReportError, buildVars, textVars
<1> QED BY <1>1, <1>2, <1>3, <1>4, <1>5, <1>6, <1>7 DEF MakeStream

---------------------------------------------------------------------------
(* Trees *)

(* What generate_new_node returns.                                         *)
LEMMA FreshIs ==
  /\ Fresh \in NodeSet /\ Fresh.left = 0 /\ Fresh.right = 0 /\ Fresh.type = "AND"
BY DEF Fresh, NodeSet, Texts, CommandTypes

(* A node of the heap, and its sides.                                      *)
LEMMA NodeIs ==
  ASSUME node \in Seq(NodeSet), NEW n \in DOMAIN node
  PROVE  /\ n \in 1..Len(node) /\ n \in Nat /\ n # 0 /\ node[n] \in NodeSet
         /\ node[n].left \in Nat /\ node[n].right \in Nat
<1>1. n \in 1..Len(node)
  OBVIOUS
<1>2. node[n] \in NodeSet
  BY <1>1, ElementOfSeq
<1> QED BY <1>1, <1>2 DEF NodeSet

(* A node changes and keeps its sides and, unless it has none, its type.   *)
SameSides(t, u) ==
  /\ u \in Seq(NodeSet) /\ Len(u) = Len(t) /\ DOMAIN u = DOMAIN t
  /\ \A n \in DOMAIN t : /\ u[n].left = t[n].left /\ u[n].right = t[n].right
                         /\ u[n].type # t[n].type =>
                              t[n].left = 0 /\ t[n].right = 0

(* One node more, with nothing on its sides.                               *)
OneMore(t, u) ==
  /\ u \in Seq(NodeSet) /\ Len(u) = Len(t) + 1
  /\ \A n \in DOMAIN t : u[n] = t[n]
  /\ u[Len(t) + 1] = Fresh

(* Node n, which had no sides, becomes a subshell with a new node inside.  *)
Opened(t, u, n) ==
  /\ u \in Seq(NodeSet) /\ Len(u) = Len(t) + 1
  /\ \A m \in DOMAIN t \ {n} : u[m] = t[m]
  /\ u[n].type = "SUBSHELL" /\ u[n].left = Len(t) + 1 /\ u[n].right = 0
  /\ u[Len(t) + 1] = Fresh

(* Two nodes more, the first with l on its left and the second on its      *)
(* right.                                                                  *)
TwoMore(t, u, l) ==
  /\ u \in Seq(NodeSet) /\ Len(u) = Len(t) + 2
  /\ u[Len(t) + 1].type \notin {"SIMPLE", "SUBSHELL"}
  /\ u[Len(t) + 1].left = l /\ u[Len(t) + 1].right = Len(t) + 2
  /\ u[Len(t) + 2] = Fresh

(* The first of them becomes the root over l, or takes the place of what   *)
(* node p had on its right, or inside.                                     *)
Rooted(t, u, l) == TwoMore(t, u, l) /\ \A n \in DOMAIN t : u[n] = t[n]

Inserted(t, u, p, l) ==
  /\ TwoMore(t, u, l)
  /\ \A n \in DOMAIN t \ {p} : u[n] = t[n]
  /\ u[p].type = t[p].type
  /\ \/ /\ t[p].type \notin {"SIMPLE", "SUBSHELL"} /\ l = t[p].right
        /\ u[p].left = t[p].left /\ u[p].right = Len(t) + 1
     \/ /\ t[p].type = "SUBSHELL" /\ l = t[p].left
        /\ u[p].right = t[p].right /\ u[p].left = Len(t) + 1

(* The places of a sequence.                                               *)
LEMMA DomainIs ==
  ASSUME NEW s, NEW S, s \in Seq(S)
  PROVE  DOMAIN s = 1..Len(s) /\ Len(s) \in Nat
OBVIOUS

(* Nodes that only become simple commands leave the trees as they are.     *)
LEMMA SameSidesKeep ==
  ASSUME NEW t \in Seq(NodeSet), NEW u, IsTree(t), SameSides(t, u),
         \A n \in DOMAIN t : u[n].type \in {t[n].type, "SIMPLE"}
  PROVE  IsTree(u) /\ \A m : Orphan(t, m) => Orphan(u, m)
<1>1. \A n \in DOMAIN t : Sides(u, n) = Sides(t, n)
  BY DEF SameSides, Sides
<1>2. ASSUME NEW n \in DOMAIN t, u[n].type = "SIMPLE"
      PROVE  Sides(u, n) = {}
  <2>1. CASE t[n].type = "SIMPLE"
    BY <1>1, <2>1 DEF IsTree
  <2>2. CASE t[n].type # "SIMPLE"
    <3>1. t[n].left = 0 /\ t[n].right = 0
      BY <1>2, <2>2 DEF SameSides
    <3> QED BY <1>1, <3>1 DEF Sides
  <2> QED BY <2>1, <2>2
<1>3. DOMAIN u = DOMAIN t /\ Len(u) = Len(t)
  BY DEF SameSides
<1>4. \A n \in DOMAIN t : /\ u[n].left = t[n].left /\ u[n].right = t[n].right
                          /\ u[n].type = t[n].type \/ u[n].type = "SIMPLE"
  BY DEF SameSides
<1>5. IsTree(u)
  <2>1. \A n \in DOMAIN u : /\ u[n].left \in 0..Len(u)
                            /\ u[n].right \in 0..Len(u)
                            /\ u[n].left # 0 => u[n].left # u[n].right
                            /\ u[n].type = "SUBSHELL" => u[n].right = 0
    BY <1>3, <1>4 DEF IsTree
  <2>2. \A n, m \in DOMAIN u : n # m => Sides(u, n) \cap Sides(u, m) = {}
    BY <1>1, <1>3 DEF IsTree
  <2> QED BY <1>2, <1>3, <2>1, <2>2 DEF IsTree
<1>6. \A m : Orphan(t, m) => Orphan(u, m)
  BY <1>3, <1>4 DEF Orphan
<1> QED BY <1>5, <1>6

(* A new node is a tree of its own.                                        *)
LEMMA OneMoreKeeps ==
  ASSUME NEW t \in Seq(NodeSet), NEW u, IsTree(t), OneMore(t, u)
  PROVE  /\ DOMAIN u = 1..Len(t) + 1 /\ IsTree(u)
         /\ \A m \in DOMAIN t : Orphan(t, m) => Orphan(u, m)
         /\ Orphan(u, Len(t) + 1)
<1> DEFINE k == Len(t) + 1
<1>1. DOMAIN t = 1..Len(t) /\ Len(t) \in Nat /\ DOMAIN u = 1..Len(u)
  BY DomainIs DEF OneMore
<1>2. DOMAIN u = DOMAIN t \cup {k} /\ k \notin DOMAIN t /\ Len(u) = k
  BY <1>1 DEF OneMore
<1>3. \A n \in DOMAIN t : u[n] = t[n] /\ Sides(u, n) = Sides(t, n)
  BY DEF OneMore, Sides
<1>4. u[k].left = 0 /\ u[k].right = 0 /\ u[k].type = "AND" /\ Sides(u, k) = {}
  BY FreshIs DEF OneMore, Sides
<1>5. \A n \in DOMAIN t : t[n].left \in 0..Len(t) /\ t[n].right \in 0..Len(t)
  BY DEF IsTree
<1>6. 0..Len(t) \subseteq 0..k /\ k \notin 0..Len(t) /\ 0 \notin DOMAIN t /\ 0 \in 0..k
  BY <1>1
<1> HIDE DEF k
<1>7. IsTree(u)
  BY <1>2, <1>3, <1>4, <1>5, <1>6 DEF IsTree
<1>8. \A m \in DOMAIN t : Orphan(t, m) => Orphan(u, m)
  BY <1>2, <1>3, <1>4, <1>6 DEF Orphan
<1>9. Orphan(u, k)
  <2>1. k # 0
    BY <1>1 DEF k
  <2> QED BY <1>2, <1>3, <1>4, <1>5, <1>6, <2>1 DEF Orphan
<1> QED BY <1>1, <1>2, <1>7, <1>8, <1>9 DEF k

(* A subshell that is opened has its inside for itself.                    *)
LEMMA OpenedKeeps ==
  ASSUME NEW t \in Seq(NodeSet), NEW u, IsTree(t), NEW p \in DOMAIN t,
         t[p].left = 0, t[p].right = 0, Opened(t, u, p)
  PROVE  /\ DOMAIN u = 1..Len(t) + 1 /\ IsTree(u)
         /\ \A m \in DOMAIN t : Orphan(t, m) => Orphan(u, m)
<1> DEFINE k == Len(t) + 1
<1>1. DOMAIN t = 1..Len(t) /\ Len(t) \in Nat /\ DOMAIN u = 1..Len(u)
  BY DomainIs DEF Opened
<1>2. DOMAIN u = DOMAIN t \cup {k} /\ k \notin DOMAIN t /\ Len(u) = k /\ k # 0
  BY <1>1 DEF Opened
<1>3. \A n \in DOMAIN t \ {p} : u[n] = t[n] /\ Sides(u, n) = Sides(t, n)
  BY DEF Opened, Sides
<1>4. u[k].left = 0 /\ u[k].right = 0 /\ u[k].type = "AND" /\ Sides(u, k) = {}
  BY FreshIs DEF Opened, Sides
<1>5. \A n \in DOMAIN t : /\ t[n].left \in 0..Len(t) /\ t[n].right \in 0..Len(t)
                          /\ Sides(t, n) \subseteq 0..Len(t)
  BY DEF IsTree, Sides
<1>6. 0..Len(t) \subseteq 0..k /\ k \notin 0..Len(t) /\ 0 \in 0..k /\ k \in 0..k
  BY <1>1
<1> HIDE DEF k
<1>7. /\ u[p].left = k /\ u[p].right = 0 /\ u[p].type = "SUBSHELL"
      /\ Sides(u, p) = {k}
  BY <1>2 DEF Opened, Sides, k
<1>8. IsTree(u)
  <2>1. \A n \in DOMAIN u : /\ u[n].left \in 0..Len(u)
                            /\ u[n].right \in 0..Len(u)
                            /\ u[n].left # 0 => u[n].left # u[n].right
                            /\ u[n].type = "SIMPLE" => Sides(u, n) = {}
                            /\ u[n].type = "SUBSHELL" => u[n].right = 0
    BY <1>2, <1>3, <1>4, <1>5, <1>6, <1>7 DEF IsTree
  <2>2. \A n, m \in DOMAIN u : n # m => Sides(u, n) \cap Sides(u, m) = {}
    BY <1>2, <1>3, <1>4, <1>5, <1>6, <1>7 DEF IsTree
  <2> QED BY <2>1, <2>2 DEF IsTree
<1>9. \A m \in DOMAIN t : Orphan(t, m) => Orphan(u, m)
  BY <1>1, <1>2, <1>3, <1>4, <1>6, <1>7 DEF Orphan
<1> QED BY <1>1, <1>2, <1>8, <1>9 DEF k

(* A new root over an old one.                                             *)
LEMMA RootedKeeps ==
  ASSUME NEW t \in Seq(NodeSet), NEW u, IsTree(t), NEW l \in DOMAIN t, Orphan(t, l), Rooted(t, u, l)
  PROVE  /\ DOMAIN u = 1..Len(t) + 2 /\ IsTree(u)
         /\ \A m \in DOMAIN t \ {l} : Orphan(t, m) => Orphan(u, m)
         /\ Orphan(u, Len(t) + 1)
<1> DEFINE k == Len(t) + 1
           j == Len(t) + 2
<1>1. DOMAIN t = 1..Len(t) /\ Len(t) \in Nat /\ DOMAIN u = 1..Len(u)
  BY DomainIs DEF Rooted, TwoMore
<1>2. /\ DOMAIN u = DOMAIN t \cup {k, j} /\ k \notin DOMAIN t /\ j \notin DOMAIN t
      /\ Len(u) = j /\ k # 0 /\ j # 0 /\ k # j /\ l # 0 /\ l # k /\ l # j /\ l \in 0..Len(t)
  BY <1>1 DEF Rooted, TwoMore
<1>3. \A n \in DOMAIN t : u[n] = t[n] /\ Sides(u, n) = Sides(t, n)
  BY DEF Rooted, Sides
<1>4. u[j].left = 0 /\ u[j].right = 0 /\ u[j].type = "AND" /\ Sides(u, j) = {}
  BY FreshIs DEF Rooted, TwoMore, Sides
<1>5. \A n \in DOMAIN t : /\ t[n].left \in 0..Len(t) /\ t[n].right \in 0..Len(t)
                          /\ Sides(t, n) \subseteq 0..Len(t) /\ l \notin Sides(t, n)
  BY DEF IsTree, Sides, Orphan
<1>6. /\ 0..Len(t) \subseteq 0..j /\ k \notin 0..Len(t) /\ j \notin 0..Len(t)
      /\ 0 \in 0..j /\ k \in 0..j /\ j \in 0..j
  BY <1>1
<1>7. /\ u[k].left = l /\ u[k].right = j /\ u[k].type \notin {"SIMPLE", "SUBSHELL"}
      /\ Sides(u, k) = {l, j}
  BY <1>2 DEF Rooted, TwoMore, Sides
<1> HIDE DEF k, j
<1>8. IsTree(u)
  <2>1. \A n \in DOMAIN u : /\ u[n].left \in 0..Len(u)
                            /\ u[n].right \in 0..Len(u)
                            /\ u[n].left # 0 => u[n].left # u[n].right
                            /\ u[n].type = "SIMPLE" => Sides(u, n) = {}
                            /\ u[n].type = "SUBSHELL" => u[n].right = 0
    BY <1>2, <1>3, <1>4, <1>5, <1>6, <1>7 DEF IsTree
  <2>2. \A n, m \in DOMAIN u : n # m => Sides(u, n) \cap Sides(u, m) = {}
    BY <1>2, <1>3, <1>4, <1>5, <1>6, <1>7 DEF IsTree
  <2> QED BY <2>1, <2>2 DEF IsTree
<1>9. \A m \in DOMAIN t \ {l} : Orphan(t, m) => Orphan(u, m)
  <2>1. \A m \in DOMAIN t : m # 0 /\ m # j
    BY <1>1, <1>2
  <2> QED BY <2>1, <1>2, <1>3, <1>4, <1>7 DEF Orphan
<1>10. Orphan(u, k)
  BY <1>2, <1>3, <1>4, <1>5, <1>6, <1>7 DEF Orphan
<1> QED BY <1>1, <1>2, <1>8, <1>9, <1>10 DEF k, j

(* A node put between another one and what it had on its side.             *)
LEMMA InsertedKeeps ==
  ASSUME NEW t \in Seq(NodeSet), NEW u, IsTree(t), NEW p \in DOMAIN t, NEW l, Inserted(t, u, p, l)
  PROVE  /\ DOMAIN u = 1..Len(t) + 2 /\ IsTree(u)
         /\ \A m \in DOMAIN t : Orphan(t, m) => Orphan(u, m)
<1> DEFINE k == Len(t) + 1
           j == Len(t) + 2
<1>1. DOMAIN t = 1..Len(t) /\ Len(t) \in Nat /\ DOMAIN u = 1..Len(u)
  BY DomainIs DEF Inserted, TwoMore
<1>2. /\ DOMAIN u = DOMAIN t \cup {k, j} /\ k \notin DOMAIN t /\ j \notin DOMAIN t
      /\ Len(u) = j /\ k # 0 /\ j # 0 /\ k # j
  BY <1>1 DEF Inserted, TwoMore
<1>3. \A n \in DOMAIN t \ {p} : u[n] = t[n] /\ Sides(u, n) = Sides(t, n)
  BY DEF Inserted, Sides
<1>4. u[j].left = 0 /\ u[j].right = 0 /\ u[j].type = "AND" /\ Sides(u, j) = {}
  BY FreshIs DEF Inserted, TwoMore, Sides
<1>5. \A n \in DOMAIN t : /\ t[n].left \in 0..Len(t) /\ t[n].right \in 0..Len(t)
                          /\ Sides(t, n) \subseteq 0..Len(t)
  BY DEF IsTree, Sides
<1>6. /\ 0..Len(t) \subseteq 0..j /\ k \notin 0..Len(t) /\ j \notin 0..Len(t)
      /\ 0 \in 0..j /\ k \in 0..j /\ j \in 0..j
  BY <1>1
<1>7. l = t[p].left \/ l = t[p].right
  BY DEF Inserted
<1>8. l \in 0..Len(t) /\ {l} \ {0} \subseteq Sides(t, p) /\ l # j /\ l # k
  BY <1>5, <1>6, <1>7 DEF Sides
<1>9. /\ u[k].left = l /\ u[k].right = j /\ u[k].type \notin {"SIMPLE", "SUBSHELL"}
      /\ Sides(u, k) = ({l} \ {0}) \cup {j}
  BY <1>2 DEF Inserted, TwoMore, Sides
<1>10. /\ u[p].left \in {k, t[p].left} /\ u[p].right \in {k, t[p].right}
       /\ u[p].left # u[p].right /\ u[p].type = t[p].type
       /\ u[p].type # "SIMPLE"
       /\ u[p].type = "SUBSHELL" => u[p].right = 0
       /\ Sides(u, p) = (Sides(t, p) \ {l}) \cup {k}
  <2>1. t[p].left # k /\ t[p].right # k
    BY <1>5, <1>6
  <2>2. t[p].left # 0 => t[p].left # t[p].right
    BY DEF IsTree
  <2>3. t[p].type = "SUBSHELL" => t[p].right = 0
    BY DEF IsTree
  <2>4. CASE /\ t[p].type \notin {"SIMPLE", "SUBSHELL"} /\ l = t[p].right
             /\ u[p].left = t[p].left /\ u[p].right = k
    <3>1. Sides(u, p) = {t[p].left, k} \ {0}
      BY <2>4 DEF Sides
    <3> QED BY <3>1, <2>1, <2>2, <2>4, <1>2 DEF Inserted, Sides
  <2>5. CASE /\ t[p].type = "SUBSHELL" /\ l = t[p].left
             /\ u[p].right = t[p].right /\ u[p].left = k
    <3>1. Sides(u, p) = {k, 0} \ {0} /\ Sides(t, p) = {l} \ {0}
      BY <2>3, <2>5 DEF Sides
    <3> QED BY <3>1, <2>1, <2>3, <2>5, <1>2 DEF Inserted
  <2> QED BY <2>4, <2>5 DEF Inserted
<1> HIDE DEF k, j
<1>11. IsTree(u)
  <2> DEFINE Right(n) == /\ u[n].left \in 0..Len(u) /\ u[n].right \in 0..Len(u)
                         /\ u[n].left # 0 => u[n].left # u[n].right
                         /\ u[n].type = "SIMPLE" => Sides(u, n) = {}
                         /\ u[n].type = "SUBSHELL" => u[n].right = 0
  <2>1. \A n \in DOMAIN t \ {p} : Right(n)
    BY <1>2, <1>3, <1>5, <1>6 DEF IsTree
  <2>2. Right(p)
    BY <1>2, <1>5, <1>6, <1>10
  <2>3. Right(k)
    BY <1>2, <1>6, <1>8, <1>9
  <2>4. Right(j)
    BY <1>2, <1>4, <1>6
  <2>5. \A n \in DOMAIN u : Right(n)
    BY <1>2, <2>1, <2>2, <2>3, <2>4
  <2>6. \A n, m \in DOMAIN t : n # m => Sides(t, n) \cap Sides(t, m) = {}
    BY DEF IsTree
  <2>7. \A n \in DOMAIN t \ {p} : Sides(u, n) \cap Sides(u, p) = {} /\ Sides(u, n) \cap Sides(u, k) = {}
    BY <2>6, <1>3, <1>5, <1>6, <1>8, <1>9, <1>10
  <2>8. Sides(u, p) \cap Sides(u, k) = {}
    BY <1>2, <1>5, <1>6, <1>8, <1>9, <1>10
  <2>9. \A n, m \in DOMAIN u : n # m => Sides(u, n) \cap Sides(u, m) = {}
    BY <1>2, <1>3, <1>4, <2>6, <2>7, <2>8
  <2> QED BY <2>5, <2>9 DEF IsTree
<1>12. \A m \in DOMAIN t : Orphan(t, m) => Orphan(u, m)
  <2>1. \A m \in DOMAIN t : m # 0 /\ m # j /\ m # k
    BY <1>1, <1>2
  <2> QED BY <2>1, <1>2, <1>3, <1>4, <1>7, <1>9, <1>10 DEF Orphan
<1> QED BY <1>1, <1>2, <1>11, <1>12 DEF k, j

---------------------------------------------------------------------------
(* What read_command_stream does to the trees                              *)

(* A command is started with a fresh node.                                 *)
LEMMA StartStep ==
  ASSUME Reading, StartCommand
  PROVE  /\ OneMore(node, node') /\ command_root' = Len(node) + 1 /\ parse_command' = Len(node) + 1
         /\ is_subshell' = 0 /\ subshell_root' = 0 /\ phase = "ready" /\ phase' = "build"
         /\ UNCHANGED <<word_buffer, stream, commands>>
<1>1. node \in Seq(NodeSet) /\ node' = Append(node, Fresh)
  BY DEF Reading, StartCommand
<1>2. /\ node' \in Seq(NodeSet) /\ Len(node') = Len(node) + 1
      /\ \A n \in 1..Len(node) : node'[n] = node[n]
      /\ node'[Len(node) + 1] = Fresh
  BY <1>1, FreshIs, AppendProperties
<1>3. OneMore(node, node')
  BY <1>1, <1>2, DomainIs DEF OneMore
<1> QED BY <1>2, <1>3 DEF StartCommand, textVars

(* A word goes to the node in hand and no other.                           *)
LEMMA WordStep ==
  ASSUME Reading, ReadWord
  PROVE  /\ SameSides(node, node') /\ \A n \in DOMAIN node : node'[n].type \in {node[n].type, "SIMPLE"}
         /\ \A n \in DOMAIN node \ {parse_command} : node'[n] = node[n]
         /\ node'[parse_command].type = "SIMPLE"
         /\ UNCHANGED <<word_buffer, stream, command_root, parse_command, is_subshell,
                        subshell_root, commands, phase>>
         /\ phase = "build"
<1>1. /\ node \in Seq(NodeSet) /\ parse_command \in DOMAIN node /\ stream \in Seq(Tokens)
      /\ node[parse_command].left = 0 /\ node[parse_command].right = 0
      /\ TokenAt(at) # "NULL"
  BY DEF Reading, ReadWord, Building, InHand
<1>2. PICK n : /\ n = IF node[parse_command].type = "SIMPLE"
                      THEN node[parse_command] ELSE [Fresh EXCEPT !.type = "SIMPLE"]
               /\ node' = [node EXCEPT ![parse_command] =
                             [n EXCEPT !.word = Append(@, stream[at].content)]]
  BY DEF ReadWord
<1>3. n \in NodeSet /\ n.type = "SIMPLE" /\ n.left = 0 /\ n.right = 0
  <2>1. node[parse_command] \in NodeSet
    BY <1>1, NodeIs
  <2>2. "SIMPLE" \in CommandTypes
    BY DEF CommandTypes
  <2> QED BY <1>1, <1>2, <2>1, <2>2, FreshIs DEF NodeSet
<1> DEFINE w == Append(n.word, stream[at].content)
           e == [n EXCEPT !.word = w]
<1>4. w \in Seq(Texts)
  <2>1. stream[at].content \in Texts /\ n.word \in Seq(Texts)
    BY <1>1, <1>3, TokenIs DEF NodeSet
  <2> QED BY <2>1
<1>5. node' = [node EXCEPT ![parse_command] = e]
  BY <1>2
<1> HIDE DEF w
<1>6. e \in NodeSet /\ e.type = "SIMPLE" /\ e.left = 0 /\ e.right = 0
  BY <1>3, <1>4 DEF NodeSet
<1> HIDE DEF e
<1>7. /\ node' \in Seq(NodeSet) /\ Len(node') = Len(node) /\ DOMAIN node' = DOMAIN node
      /\ \A m \in DOMAIN node : node'[m] = IF m = parse_command THEN e ELSE node[m]
  BY <1>1, <1>5, <1>6, PutSeq
<1>8. SameSides(node, node') /\ \A m \in DOMAIN node : node'[m].type \in {node[m].type, "SIMPLE"}
  BY <1>1, <1>6, <1>7 DEF SameSides
<1> QED BY <1>1, <1>6, <1>7, <1>8 DEF ReadWord, Building, textVars

(* A redirection changes no side and no type, to whatever it is given.     *)
LEMMA RedirectionStep ==
  ASSUME Reading, NEW t \in Redirections, ReadRedirection(t)
  PROVE  /\ SameSides(node, node') /\ \A n \in DOMAIN node : node'[n].type = node[n].type
         /\ \A n \in DOMAIN node \ {parse_command, subshell_root} : node'[n] = node[n]
         /\ UNCHANGED <<word_buffer, stream, command_root, parse_command, is_subshell,
                        subshell_root, commands, phase>>
         /\ phase = "build"
<1>1. /\ node \in Seq(NodeSet) /\ stream \in Seq(Tokens)
      /\ TokenAt(at + 1) # "NULL"
  BY DEF Reading, ReadRedirection
<1>2. PICK n \in {parse_command, subshell_root} :
        node' = [node EXCEPT ![n] =
                    IF t = "IN" THEN [@ EXCEPT !.input = stream[at + 1].content]
                                ELSE [@ EXCEPT !.output = stream[at + 1].content]]
  BY DEF ReadRedirection
<1> DEFINE w == stream[at + 1].content
           e == IF t = "IN" THEN [node[n] EXCEPT !.input = w] ELSE [node[n] EXCEPT !.output = w]
<1>3. w \in Texts
  BY <1>1, TokenIs
<1>4. node' = [node EXCEPT ![n] = e]
  BY <1>2
<1> HIDE DEF w
<1>5. CASE n \in DOMAIN node
  <2>1. node[n] \in NodeSet
    BY <1>1, <1>5, NodeIs
  <2>2. /\ e \in NodeSet /\ e.type = node[n].type /\ e.left = node[n].left
        /\ e.right = node[n].right
    BY <2>1, <1>3 DEF NodeSet
  <2> HIDE DEF e
  <2>3. ASSUME NEW s \in Seq(NodeSet), NEW f \in NodeSet
        PROVE  /\ [s EXCEPT ![n] = f] \in Seq(NodeSet)
               /\ Len([s EXCEPT ![n] = f]) = Len(s)
               /\ DOMAIN [s EXCEPT ![n] = f] = DOMAIN s
               /\ \A m \in DOMAIN s : [s EXCEPT ![n] = f][m] = IF m = n THEN f ELSE s[m]
    BY PutSeq
  <2>4. /\ node' \in Seq(NodeSet) /\ Len(node') = Len(node) /\ DOMAIN node' = DOMAIN node
        /\ \A m \in DOMAIN node : node'[m] = IF m = n THEN e ELSE node[m]
    BY <1>1, <1>4, <2>2, <2>3
  <2>5. SameSides(node, node') /\ \A m \in DOMAIN node : node'[m].type = node[m].type
    BY <2>2, <2>4 DEF SameSides
  <2> QED BY <1>2, <2>4, <2>5 DEF ReadRedirection, Building, textVars
<1>6. CASE n \notin DOMAIN node
  <2> HIDE DEF e
  <2>1. node' = node
    BY <1>1, <1>4, <1>6, IsASeq, DomainIs
  <2> QED BY <1>1, <2>1 DEF SameSides, ReadRedirection, Building, textVars
<1> QED BY <1>5, <1>6

(* A bracket makes the node in hand a subshell with a fresh node inside.   *)
LEMMA OpenStep ==
  ASSUME Reading, OpenSubshell
  PROVE  /\ parse_command \in DOMAIN node /\ Opened(node, node', parse_command)
         /\ node[parse_command].left = 0 /\ node[parse_command].right = 0
         /\ is_subshell' = 1 /\ subshell_root' = parse_command /\ parse_command' = Len(node) + 1
         /\ UNCHANGED <<word_buffer, stream, command_root, commands, phase>>
         /\ phase = "build"
<1>1. /\ node \in Seq(NodeSet) /\ parse_command \in DOMAIN node
      /\ node[parse_command].left = 0 /\ node[parse_command].right = 0
  BY DEF Reading, OpenSubshell, Building, InHand
<1> DEFINE k == Len(node) + 1
           e == [node[parse_command] EXCEPT !.type = "SUBSHELL", !.left = k, !.right = 0, !.word = <<>>]
           s == [node EXCEPT ![parse_command] = e]
<1>2. node' = Append(s, Fresh) /\ parse_command' = Len(node')
  BY DEF OpenSubshell
<1>3. k \in Nat /\ "SUBSHELL" \in CommandTypes /\ <<>> \in Seq(Texts)
  BY <1>1, DomainIs DEF CommandTypes
<1> HIDE DEF k
<1>4. e \in NodeSet /\ e.type = "SUBSHELL" /\ e.left = k /\ e.right = 0
  <2>1. node[parse_command] \in NodeSet
    BY <1>1, NodeIs
  <2> QED BY <1>3, <2>1 DEF NodeSet
<1> HIDE DEF e
<1>5. /\ s \in Seq(NodeSet) /\ Len(s) = Len(node) /\ DOMAIN s = DOMAIN node
      /\ \A m \in DOMAIN node : s[m] = IF m = parse_command THEN e ELSE node[m]
  BY <1>1, <1>4, PutSeq
<1> HIDE DEF s
<1>6. /\ node' \in Seq(NodeSet) /\ Len(node') = k
      /\ \A m \in DOMAIN node : node'[m] = s[m]
      /\ node'[k] = Fresh
  <2>1. DOMAIN node = 1..Len(s)
    BY <1>1, <1>5, DomainIs
  <2> QED BY <1>2, <1>5, <2>1, FreshIs, AppendProperties DEF k
<1>7. Opened(node, node', parse_command)
  BY <1>1, <1>4, <1>5, <1>6 DEF Opened, k
<1> QED BY <1>1, <1>2, <1>6, <1>7 DEF k, OpenSubshell, Building, textVars

(* The closing bracket changes no tree.                                    *)
LEMMA CloseStep ==
  ASSUME CloseSubshell
  PROVE  /\ phase = "build" /\ is_subshell' = 0
         /\ UNCHANGED <<word_buffer, stream, node, command_root, parse_command, subshell_root,
                        commands, phase>>
BY DEF CloseSubshell, Building, textVars

(* Two elements appended to a sequence.                                    *)
LEMMA TwoMoreSeq ==
  ASSUME NEW S, NEW s \in Seq(S), NEW a \in S, NEW b \in S
  PROVE  /\ s \o <<a, b>> \in Seq(S) /\ Len(s \o <<a, b>>) = Len(s) + 2
         /\ \A i \in DOMAIN s : (s \o <<a, b>>)[i] = s[i]
         /\ (s \o <<a, b>>)[Len(s) + 1] = a /\ (s \o <<a, b>>)[Len(s) + 2] = b
<1>1. <<a, b>> \in Seq(S) /\ Len(<<a, b>>) = 2 /\ <<a, b>>[1] = a /\ <<a, b>>[2] = b
  OBVIOUS
<1>2. ASSUME NEW p \in Seq(S), Len(p) = 2, NEW f, f = s \o p
      PROVE  /\ f \in Seq(S) /\ Len(f) = Len(s) + 2
             /\ \A i \in DOMAIN s : f[i] = s[i]
             /\ f[Len(s) + 1] = p[1] /\ f[Len(s) + 2] = p[2]
  <2>1. /\ s \o p \in Seq(S) /\ Len(s \o p) = Len(s) + Len(p)
        /\ \A i \in 1..Len(s) + Len(p) :
             (s \o p)[i] = IF i <= Len(s) THEN s[i] ELSE p[i - Len(s)]
    BY ConcatProperties, Zenon
  <2>2. /\ f \in Seq(S) /\ Len(f) = Len(s) + Len(p)
        /\ \A i \in 1..Len(s) + Len(p) : f[i] = IF i <= Len(s) THEN s[i] ELSE p[i - Len(s)]
    BY <1>2, <2>1, Zenon
  <2>3. Len(s) \in Nat /\ DOMAIN s = 1..Len(s)
    OBVIOUS
  <2>4. ASSUME NEW k \in Nat, Len(s) = k
        PROVE  f[k + 1] = p[1] /\ f[k + 2] = p[2]
    <3>1. k + 1 \in 1..k + 2 /\ k + 2 \in 1..k + 2 /\ k + 1 - k = 1 /\ k + 2 - k = 2
      OBVIOUS
    <3>2. ~ k + 1 <= k /\ ~ k + 2 <= k
      OBVIOUS
    <3>3. \A i \in 1..k + 2 : f[i] = IF i <= k THEN s[i] ELSE p[i - k]
      BY <1>2, <2>2, <2>4
    <3> QED BY <3>1, <3>2, <3>3
  <2>5. \A i \in DOMAIN s : f[i] = s[i]
    BY <1>2, <2>2, <2>3
  <2> QED BY <1>2, <2>2, <2>3, <2>4, <2>5
<1> DEFINE p == <<a, b>>
<1> HIDE DEF p
<1>3. p \in Seq(S) /\ Len(p) = 2 /\ p[1] = a /\ p[2] = b
  BY <1>1 DEF p
<1> QED BY <1>2, <1>3 DEF p

(* A node of the tree and the node that the operator makes.                *)
LEMMA OperatorStep ==
  ASSUME Reading, NEW t \in Operators \cup {"SEMICOLON"}, ReadOperator(t)
  PROVE  /\ phase = "build" /\ parse_command' = Len(node) + 2
         /\ UNCHANGED <<word_buffer, stream, is_subshell, subshell_root, commands, phase>>
         /\ \/ /\ UNCHANGED command_root
               /\ \E p \in DOMAIN node, l \in Nat :
                    /\ Inserted(node, node', p, l)
                    /\ \/ is_subshell = 0 /\ p = command_root
                       \/ is_subshell = 1 /\ p \in {subshell_root, node[subshell_root].left}
            \/ /\ is_subshell = 0 /\ command_root' = Len(node) + 1
               /\ Rooted(node, node', command_root)
<1> DEFINE c == CommandOf(t)
           top == IF is_subshell = 1 THEN node[subshell_root].left ELSE command_root
           k == Len(node) + 1
           over(l) == [Fresh EXCEPT !.type = c, !.left = l, !.right = k + 1]
           grown(l) == node \o <<over(l), Fresh>>
<1>1. /\ phase = "build" /\ InHand /\ IsTree(node) /\ node \in Seq(NodeSet)
      /\ UNCHANGED <<word_buffer, stream, is_subshell, subshell_root, commands, phase>>
  BY DEF Reading, ReadOperator, Building, textVars
<1>2. /\ parse_command' = k + 1
      /\ \/ node[top].type \in Looser(c) /\ UNCHANGED command_root
            /\ node' = [grown(node[top].right) EXCEPT ![top].right = k]
         \/ is_subshell = 1 /\ UNCHANGED command_root
            /\ node' = [grown(top) EXCEPT ![subshell_root].left = k]
         \/ is_subshell = 0 /\ command_root' = k /\ node' = grown(top)
  <2>1. is_subshell \in {0, 1}
    BY <1>1 DEF InHand
  <2>2. /\ parse_command' = k + 1
        /\ IF node[top].type \in Looser(c)
           THEN /\ node' = [grown(node[top].right) EXCEPT ![top].right = k]
                /\ UNCHANGED command_root
           ELSE IF is_subshell = 1
           THEN /\ node' = [grown(top) EXCEPT ![subshell_root].left = k]
                /\ UNCHANGED command_root
           ELSE /\ node' = grown(top)
                /\ command_root' = k
    BY ZenonT(60) DEF ReadOperator
  <2> HIDE DEF c, top, k, grown, over
  <2> QED BY <2>1, <2>2
<1>3. c \in {"AND", "OR", "PIPE", "SEQUENCE"} /\ c \in CommandTypes
  <2>1. t \in {"AND", "OR", "PIPELINE", "SEMICOLON"}
    BY DEF Operators
  <2> QED BY <2>1 DEF CommandOf, CommandTypes
<1>4. Looser(c) \subseteq {"AND", "OR", "SEQUENCE"}
  BY <1>3 DEF Looser
<1>5. /\ DOMAIN node = 1..Len(node) /\ Len(node) \in Nat /\ k \in Nat /\ k + 1 \in Nat
      /\ k + 1 = Len(node) + 2
  BY <1>1, DomainIs
<1>6. top \in DOMAIN node
  BY <1>1, <1>5 DEF InHand, IsTree
<1>7. node[top].right \in Nat /\ top \in Nat
  BY <1>1, <1>6, NodeIs
<1> HIDE DEF c, top, k
<1>8. ASSUME NEW l \in Nat
      PROVE  /\ over(l) \in NodeSet /\ over(l).type = c /\ over(l).left = l
             /\ over(l).right = k + 1
  BY <1>3, <1>5, FreshIs DEF NodeSet
<1> DEFINE Grown(s, l) ==
             /\ s \in Seq(NodeSet) /\ Len(s) = Len(node) + 2 /\ DOMAIN node \subseteq DOMAIN s
             /\ \A n \in DOMAIN node : s[n] = node[n]
             /\ s[k] = over(l) /\ s[k + 1] = Fresh
<1>9. ASSUME NEW l \in Nat
      PROVE  Grown(grown(l), l)
  <2> DEFINE e == over(l)
  <2>1. e \in NodeSet
    BY <1>8
  <2> HIDE DEF e
  <2>2. /\ node \o <<e, Fresh>> \in Seq(NodeSet) /\ Len(node \o <<e, Fresh>>) = Len(node) + 2
        /\ \A i \in DOMAIN node : (node \o <<e, Fresh>>)[i] = node[i]
        /\ (node \o <<e, Fresh>>)[k] = e /\ (node \o <<e, Fresh>>)[k + 1] = Fresh
    BY <1>1, <1>5, <2>1, FreshIs, TwoMoreSeq DEF k
  <2> DEFINE s == node \o <<e, Fresh>>
  <2>3. DOMAIN node \subseteq DOMAIN s
    <3> HIDE DEF s
    <3>1. s \in Seq(NodeSet) /\ Len(s) = Len(node) + 2
      BY <2>2 DEF s
    <3> QED BY <1>5, <3>1, DomainIs
  <2> QED BY <2>2, <2>3 DEF e
(* What becomes of the grown tree when one node p of it is changed to e.   *)
<1>10. ASSUME NEW s, NEW l \in Nat, Grown(s, l), NEW p \in DOMAIN node, NEW e \in NodeSet,
              node' = [s EXCEPT ![p] = e]
       PROVE  /\ node' \in Seq(NodeSet) /\ Len(node') = Len(node) + 2
              /\ node'[k] = over(l) /\ node'[k + 1] = Fresh /\ node'[p] = e
              /\ \A n \in DOMAIN node \ {p} : node'[n] = node[n]
  <2> HIDE DEF over
  <2>1. /\ [s EXCEPT ![p] = e] \in Seq(NodeSet) /\ Len([s EXCEPT ![p] = e]) = Len(s)
        /\ \A j \in DOMAIN s : [s EXCEPT ![p] = e][j] = IF j = p THEN e ELSE s[j]
    <3> s \in Seq(NodeSet)
      BY <1>10
    <3> QED BY PutSeq
  <2>2. k \in DOMAIN s /\ k + 1 \in DOMAIN s /\ k # p /\ k + 1 # p
    <3>1. DOMAIN s = 1..Len(node) + 2
      BY <1>10, DomainIs
    <3>2. k \notin DOMAIN node /\ k + 1 \notin DOMAIN node
      BY <1>5 DEF k
    <3> QED BY <1>5, <3>1, <3>2 DEF k
  <2> QED BY <1>10, <2>1, <2>2
<1>11. CASE /\ node[top].type \in Looser(c) /\ UNCHANGED command_root
            /\ node' = [grown(node[top].right) EXCEPT ![top].right = k]
  <2> DEFINE l == node[top].right
             e == [node[top] EXCEPT !.right = k]
  <2>1. l \in Nat /\ Grown(grown(l), l)
    BY <1>7, <1>9
  <2>2. e \in NodeSet /\ e.type = node[top].type /\ e.left = node[top].left /\ e.right = k
    <3>1. node[top] \in NodeSet
      BY <1>1, <1>6, NodeIs
    <3> QED BY <1>5, <3>1 DEF NodeSet
  <2>3. node' = [grown(l) EXCEPT ![top] = e]
    <3>1. node' = [grown(l) EXCEPT ![top] = [@ EXCEPT !.right = k]]
      BY <1>11
    <3> HIDE DEF grown, l
    <3>2. grown(l)[top] = node[top]
      BY <1>6, <2>1
    <3> QED BY <3>1, <3>2
  <2> HIDE DEF grown, l, e
  <2>4. /\ node' \in Seq(NodeSet) /\ Len(node') = Len(node) + 2
        /\ node'[k] = over(l) /\ node'[k + 1] = Fresh /\ node'[top] = e
        /\ \A n \in DOMAIN node \ {top} : node'[n] = node[n]
    BY <1>6, <1>10, <2>1, <2>2, <2>3
  <2>5. TwoMore(node, node', l)
    <3>1. /\ node'[k].type = c /\ node'[k].left = l /\ node'[k].right = k + 1
      BY <1>8, <2>1, <2>4, ZenonT(60)
    <3>2. c \notin {"SIMPLE", "SUBSHELL"}
      BY <1>3
    <3> HIDE DEF over
    <3> QED BY <1>5, <2>4, <3>1, <3>2 DEF TwoMore, k
  <2>6. Inserted(node, node', top, l)
    BY <1>4, <1>11, <2>2, <2>4, <2>5 DEF Inserted, k, l
  <2>7. \/ is_subshell = 0 /\ top = command_root
        \/ is_subshell = 1 /\ top \in {subshell_root, node[subshell_root].left}
    BY <1>1 DEF InHand, top
  <2> QED BY <1>1, <1>2, <1>5, <1>6, <1>11, <2>1, <2>6, <2>7
<1>12. CASE /\ is_subshell = 1 /\ UNCHANGED command_root
            /\ node' = [grown(top) EXCEPT ![subshell_root].left = k]
  <2> DEFINE p == subshell_root
             e == [node[p] EXCEPT !.left = k]
  <2>1. Grown(grown(top), top)
    BY <1>7, <1>9
  <2>2. p \in DOMAIN node /\ node[p].type = "SUBSHELL" /\ top = node[p].left
    BY <1>1, <1>12 DEF InHand, top
  <2>3. /\ e \in NodeSet /\ e.type = node[p].type /\ e.left = k
        /\ e.right = node[p].right
    <3>1. node[p] \in NodeSet
      BY <1>1, <2>2, NodeIs
    <3> QED BY <1>5, <3>1 DEF NodeSet
  <2>4. node' = [grown(top) EXCEPT ![p] = e]
    <3>1. node' = [grown(top) EXCEPT ![p] = [@ EXCEPT !.left = k]]
      BY <1>12
    <3> HIDE DEF grown, p
    <3>2. grown(top)[p] = node[p]
      BY <2>1, <2>2
    <3> QED BY <3>1, <3>2
  <2> HIDE DEF Grown, grown, over, p, e
  <2>5. /\ node' \in Seq(NodeSet) /\ Len(node') = Len(node) + 2
        /\ node'[k] = over(top) /\ node'[k + 1] = Fresh /\ node'[p] = e
        /\ \A n \in DOMAIN node \ {p} : node'[n] = node[n]
    <3> DEFINE s == grown(top)
    <3> HIDE DEF s
    <3>1. Grown(s, top) /\ node' = [s EXCEPT ![p] = e]
      BY <2>1, <2>4 DEF s
    <3>2. top \in Nat /\ p \in DOMAIN node /\ e \in NodeSet
      BY <1>7, <2>2, <2>3
    <3> QED BY <1>10, <3>1, <3>2
  <2> USE DEF Grown, over
  <2>6. TwoMore(node, node', top)
    <3>1. /\ node'[k].type = c /\ node'[k].left = top /\ node'[k].right = k + 1
      BY <1>7, <1>8, <2>5
    <3>2. c \notin {"SIMPLE", "SUBSHELL"}
      BY <1>3
    <3> HIDE DEF over
    <3> QED BY <1>5, <2>5, <3>1, <3>2 DEF TwoMore, k
  <2>7. Inserted(node, node', p, top)
    BY <2>2, <2>3, <2>5, <2>6 DEF Inserted, k
  <2> QED BY <1>1, <1>2, <1>5, <1>7, <1>12, <2>2, <2>7 DEF p
<1>13. CASE is_subshell = 0 /\ command_root' = k /\ node' = grown(top)
  <2>1. Grown(node', top)
    BY <1>7, <1>9, <1>13
  <2>2. top = command_root
    BY <1>13 DEF top
  <2>3. TwoMore(node, node', top)
    <3>1. /\ node'[k].type = c /\ node'[k].left = top /\ node'[k].right = k + 1
      BY <1>7, <1>8, <2>1, ZenonT(60)
    <3>2. c \notin {"SIMPLE", "SUBSHELL"}
      BY <1>3
    <3> HIDE DEF over
    <3> QED BY <1>5, <2>1, <3>1, <3>2 DEF TwoMore, k
  <2> QED BY <1>1, <1>2, <1>5, <1>13, <2>1, <2>2, <2>3 DEF Rooted, k
<1> QED BY <1>2, <1>11, <1>12, <1>13

(* A finished command is one more root.                                    *)
LEMMA FinishStep ==
  ASSUME Reading, FinishCommand
  PROVE  /\ phase = "build" /\ phase' = "ready" /\ stream' \in Seq(Tokens)
         /\ commands' = Append(commands, command_root)
         /\ UNCHANGED <<word_buffer, node>>
<1>1. /\ phase = "build" /\ phase' = "ready" /\ commands' = Append(commands, command_root)
      /\ UNCHANGED <<word_buffer, node>>
  BY DEF FinishCommand, Building, textVars, buildVars
<1> DEFINE k == IF end = Len(stream) THEN end + 1 ELSE Len(stream)
           f(i) == CASE i > Len(stream) -> Token("ENDCMD", NoWord)
                     [] i \in find_stream_start..end -> Token("NULL", NoWord)
                     [] OTHER -> stream[i]
<1>2. stream' = [i \in 1..k |-> f(i)]
  BY DEF FinishCommand
<1>3. stream \in Seq(Tokens) /\ Len(stream) \in Nat /\ k \in Nat
  BY DEF Reading
<1>4. Token("ENDCMD", NoWord) \in Tokens /\ Token("NULL", NoWord) \in Tokens
  BY DEF Token, Tokens, TokenTypes, Newlines, Texts
<1>5. ASSUME NEW i \in 1..k
      PROVE  f(i) \in Tokens
  <2>1. CASE i > Len(stream)
    BY <1>4, <2>1
  <2>2. CASE ~ i > Len(stream)
    <3>1. i \in 1..Len(stream)
      BY <1>3, <2>2
    <3>2. stream[i] \in Tokens
      BY <1>3, <3>1
    <3> QED BY <1>4, <2>2, <3>2
  <2> QED BY <2>1, <2>2
<1> HIDE DEF f, k
<1>6. stream' \in Seq(Tokens)
  BY <1>2, <1>3, <1>5, IsASeq
<1> QED BY <1>1, <1>6

---------------------------------------------------------------------------
(* The trees stay trees                                                    *)

(* Where there is a tree in hand, its nodes and the roots are told apart.  *)
LEMMA HandIs ==
  ASSUME Reading, phase = "build"
  PROVE  /\ node \in Seq(NodeSet) /\ IsTree(node) /\ Roots /\ InHand
         /\ DOMAIN node = 1..Len(node) /\ Len(node) \in Nat
         /\ \A i \in DOMAIN commands : /\ commands[i] \in DOMAIN node
                                       /\ Orphan(node, commands[i])
                                       /\ commands[i] # command_root
BY DomainIs DEF Reading, Roots, InHand

(* The roots are roots as long as the commands are the same and no root    *)
(* gets a node above it.                                                   *)
LEMMA RootsKept ==
  ASSUME Roots, UNCHANGED commands, DOMAIN node \subseteq DOMAIN node',
         \A i \in DOMAIN commands : Orphan(node', commands[i])
  PROVE  Roots'
BY DEF Roots

(* Before a tree is in hand, words and tokens come and nodes stay.         *)
LEMMA ReadingKept ==
  ASSUME Reading, UNCHANGED <<node, commands>>, word_buffer' \in Texts, stream' \in Seq(Tokens),
         phase' # "build"
  PROVE  Reading'
<1>1. node' \in Seq(NodeSet) /\ IsTree(node')
  BY DEF Reading
<1>2. \A i \in DOMAIN commands : Orphan(node', commands[i])
  BY DEF Reading, Roots
<1>3. Roots'
  BY <1>2, RootsKept DEF Reading
<1> QED BY <1>1, <1>3 DEF Reading

(* Nothing is read.                                                        *)
LEMMA ReadingSame ==
  ASSUME Reading, UNCHANGED readVars
  PROVE  Reading'
<1>1. CASE phase # "build"
  BY <1>1, ReadingKept DEF readVars, textVars, buildVars, Reading
<1>2. CASE phase = "build"
  <2>1. /\ node' = node /\ commands' = commands /\ word_buffer' = word_buffer /\ stream' = stream
        /\ command_root' = command_root /\ parse_command' = parse_command
        /\ is_subshell' = is_subshell /\ subshell_root' = subshell_root /\ phase' = phase
    BY DEF readVars, textVars, buildVars
  <2> QED BY <2>1, ZenonT(60) DEF Reading, IsTree, Sides, Orphan, Roots, InHand
<1> QED BY <1>1, <1>2

(* A command is started.                                                   *)
LEMMA StartReads ==
  ASSUME Reading, StartCommand
  PROVE  Reading'
<1>1. /\ OneMore(node, node') /\ command_root' = Len(node) + 1
      /\ parse_command' = Len(node) + 1 /\ is_subshell' = 0 /\ phase' = "build"
      /\ UNCHANGED <<word_buffer, stream, commands>>
  BY StartStep
<1>2. /\ node \in Seq(NodeSet) /\ IsTree(node) /\ Roots /\ DOMAIN node = 1..Len(node)
      /\ Len(node) \in Nat
  BY DomainIs DEF Reading
<1>3. /\ DOMAIN node' = 1..Len(node) + 1 /\ IsTree(node')
      /\ \A m \in DOMAIN node : Orphan(node, m) => Orphan(node', m)
      /\ Orphan(node', Len(node) + 1)
  BY <1>1, <1>2, OneMoreKeeps
<1>4. DOMAIN node \subseteq DOMAIN node' /\ Len(node) + 1 \in DOMAIN node'
  BY <1>2, <1>3
<1>5. \A i \in DOMAIN commands : commands[i] \in DOMAIN node /\ Orphan(node', commands[i])
  BY <1>2, <1>3 DEF Roots
<1>6. Roots'
  BY <1>1, <1>2, <1>4, <1>5, RootsKept
<1>7. InHand'
  <2>1. \A i \in DOMAIN commands : commands[i] # Len(node) + 1
    BY <1>2, <1>5
  <2>2. node'[Len(node) + 1].left = 0 /\ node'[Len(node) + 1].right = 0
    BY <1>1, FreshIs DEF OneMore
  <2> QED BY <1>1, <1>3, <1>4, <2>1, <2>2 DEF InHand
<1> QED BY <1>1, <1>3, <1>6, <1>7 DEF Reading, OneMore

(* A word or a redirection.                                                *)
LEMMA WordReads ==
  ASSUME Reading, \/ ReadWord
                  \/ \E t \in Redirections : ReadRedirection(t)
  PROVE  Reading'
<1>1. /\ SameSides(node, node') /\ \A n \in DOMAIN node : node'[n].type \in {node[n].type, "SIMPLE"}
      /\ \A n \in DOMAIN node : n # parse_command => node'[n].type = node[n].type
      /\ UNCHANGED <<word_buffer, stream, command_root, parse_command, is_subshell,
                     subshell_root, commands, phase>>
      /\ phase = "build"
  BY WordStep, RedirectionStep
<1>2. /\ node \in Seq(NodeSet) /\ IsTree(node) /\ Roots /\ InHand
  BY <1>1, HandIs
<1>3. IsTree(node') /\ \A m : Orphan(node, m) => Orphan(node', m)
  BY <1>1, <1>2, SameSidesKeep
<1>4. Roots'
  BY <1>1, <1>2, <1>3, RootsKept DEF Roots, SameSides
<1>5. InHand'
  BY <1>1, <1>2, <1>3 DEF InHand, SameSides
<1> QED BY <1>1, <1>3, <1>4, <1>5 DEF Reading, SameSides

(* An opening bracket.                                                     *)
LEMMA OpenReads ==
  ASSUME Reading, OpenSubshell
  PROVE  Reading'
<1>1. /\ parse_command \in DOMAIN node /\ Opened(node, node', parse_command)
      /\ node[parse_command].left = 0 /\ node[parse_command].right = 0
      /\ is_subshell' = 1 /\ subshell_root' = parse_command /\ parse_command' = Len(node) + 1
      /\ UNCHANGED <<word_buffer, stream, command_root, commands, phase>>
      /\ phase = "build"
  BY OpenStep
<1>2. /\ node \in Seq(NodeSet) /\ IsTree(node) /\ Roots /\ InHand
      /\ DOMAIN node = 1..Len(node) /\ Len(node) \in Nat
  BY <1>1, HandIs
<1>3. /\ DOMAIN node' = 1..Len(node) + 1 /\ IsTree(node')
      /\ \A m \in DOMAIN node : Orphan(node, m) => Orphan(node', m)
  BY <1>1, <1>2, OpenedKeeps
<1>4. DOMAIN node \subseteq DOMAIN node' /\ Len(node) + 1 \in DOMAIN node'
      /\ Len(node) + 1 \notin DOMAIN node /\ Len(node) + 1 # 0
  BY <1>2, <1>3
<1>5. Roots'
  BY <1>1, <1>2, <1>3, <1>4, RootsKept DEF Roots
<1>6. InHand'
  <2>1. node'[Len(node) + 1].left = 0 /\ node'[Len(node) + 1].right = 0
    BY <1>1, FreshIs DEF Opened
  <2>2. /\ node'[parse_command].type = "SUBSHELL" /\ node'[parse_command].left # 0
    BY <1>1, <1>4 DEF Opened
  <2>3. command_root \in DOMAIN node /\ Orphan(node', command_root)
        /\ \A i \in DOMAIN commands : commands[i] # command_root
    BY <1>2, <1>3 DEF InHand
  <2> QED BY <1>1, <1>4, <2>1, <2>2, <2>3 DEF InHand
<1> QED BY <1>1, <1>3, <1>5, <1>6 DEF Reading, Opened

(* An operator or a semicolon.                                             *)
LEMMA OperatorReads ==
  ASSUME Reading, NEW t \in Operators \cup {"SEMICOLON"}, ReadOperator(t)
  PROVE  Reading'
<1>1. /\ phase = "build" /\ parse_command' = Len(node) + 2
      /\ UNCHANGED <<word_buffer, stream, is_subshell, subshell_root, commands, phase>>
  BY OperatorStep
<1>2. /\ node \in Seq(NodeSet) /\ IsTree(node) /\ Roots /\ InHand
      /\ DOMAIN node = 1..Len(node) /\ Len(node) \in Nat
      /\ \A i \in DOMAIN commands : /\ commands[i] \in DOMAIN node
                                    /\ Orphan(node, commands[i])
                                    /\ commands[i] # command_root
  BY <1>1, HandIs
<1>3. Len(node) + 2 \notin DOMAIN node /\ Len(node) + 1 \notin DOMAIN node
      /\ Len(node) + 1 # 0
  BY <1>2
<1>4. ASSUME NEW p \in DOMAIN node, NEW l \in Nat, Inserted(node, node', p, l),
             UNCHANGED command_root
      PROVE  Reading'
  <2>1. /\ DOMAIN node' = 1..Len(node) + 2 /\ IsTree(node')
        /\ \A m \in DOMAIN node : Orphan(node, m) => Orphan(node', m)
    BY <1>2, <1>4, InsertedKeeps
  <2>2. DOMAIN node \subseteq DOMAIN node' /\ Len(node) + 2 \in DOMAIN node'
    BY <1>2, <2>1
  <2>3. Roots'
    BY <1>1, <1>2, <2>1, <2>2, RootsKept
  <2>4. InHand'
    <3>1. node'[Len(node) + 2].left = 0 /\ node'[Len(node) + 2].right = 0
      BY <1>4, FreshIs DEF Inserted, TwoMore
    <3>2. \A n \in DOMAIN node : /\ node'[n].type = node[n].type
                                 /\ node[n].left # 0 => node'[n].left # 0
      BY <1>3, <1>4 DEF Inserted
    <3>3. command_root \in DOMAIN node' /\ Orphan(node', command_root)
      BY <1>2, <2>1, <2>2 DEF InHand
    <3> QED BY <1>1, <1>2, <1>3, <1>4, <2>2, <3>1, <3>2, <3>3 DEF InHand
  <2> QED BY <1>1, <1>4, <2>1, <2>3, <2>4 DEF Reading, Inserted, TwoMore
<1>5. CASE /\ is_subshell = 0 /\ command_root' = Len(node) + 1
           /\ Rooted(node, node', command_root)
  <2>1. /\ DOMAIN node' = 1..Len(node) + 2 /\ IsTree(node')
        /\ \A m \in DOMAIN node \ {command_root} : Orphan(node, m) => Orphan(node', m)
        /\ Orphan(node', Len(node) + 1)
    BY <1>2, <1>5, RootedKeeps DEF InHand
  <2>2. DOMAIN node \subseteq DOMAIN node' /\ Len(node) + 2 \in DOMAIN node'
        /\ Len(node) + 1 \in DOMAIN node'
    BY <1>2, <2>1
  <2>3. Roots'
    BY <1>1, <1>2, <2>1, <2>2, RootsKept
  <2>4. InHand'
    <3>1. node'[Len(node) + 2].left = 0 /\ node'[Len(node) + 2].right = 0
      BY <1>5, FreshIs DEF Rooted, TwoMore
    <3> QED BY <1>1, <1>2, <1>3, <1>5, <2>1, <2>2, <3>1 DEF InHand
  <2> QED BY <1>1, <1>5, <2>1, <2>3, <2>4 DEF Reading, Rooted, TwoMore
<1> QED BY <1>4, <1>5, OperatorStep

(* A finished command becomes a root of its own.                           *)
LEMMA FinishReads ==
  ASSUME Reading, FinishCommand
  PROVE  Reading'
<1>1. /\ phase = "build" /\ phase' = "ready" /\ stream' \in Seq(Tokens)
      /\ commands' = Append(commands, command_root)
      /\ UNCHANGED <<word_buffer, node>>
  BY FinishStep
<1>2. /\ node \in Seq(NodeSet) /\ IsTree(node) /\ Roots /\ InHand
  BY <1>1, HandIs
<1>3. /\ commands \in Seq(Nat) /\ command_root \in Nat
  <2>1. command_root \in 1..Len(node)
    BY <1>2, DomainIs DEF InHand
  <2> QED BY <1>2, <2>1 DEF Roots
<1>4. /\ commands' \in Seq(Nat) /\ DOMAIN commands' = DOMAIN commands \cup {Len(commands) + 1}
      /\ Len(commands) + 1 \notin DOMAIN commands
      /\ \A i \in DOMAIN commands : commands'[i] = commands[i]
      /\ commands'[Len(commands) + 1] = command_root
  <2>1. /\ commands' \in Seq(Nat) /\ Len(commands') = Len(commands) + 1
        /\ \A i \in 1..Len(commands) : commands'[i] = commands[i]
        /\ commands'[Len(commands) + 1] = command_root
    BY <1>1, <1>3, AppendProperties
  <2>2. /\ DOMAIN commands = 1..Len(commands) /\ Len(commands) \in Nat
        /\ DOMAIN commands' = 1..Len(commands) + 1
    BY <1>3, <2>1, DomainIs
  <2> QED BY <2>1, <2>2
<1>5. Roots'
  <2>1. \A i \in DOMAIN commands' : commands'[i] \in DOMAIN node' /\ Orphan(node', commands'[i])
    BY <1>1, <1>2, <1>4 DEF Roots, InHand
  <2>2. \A i, j \in DOMAIN commands' : commands'[i] = commands'[j] => i = j
    BY <1>2, <1>4 DEF Roots, InHand
  <2> QED BY <1>4, <2>1, <2>2 DEF Roots
<1>6. node' \in Seq(NodeSet) /\ IsTree(node')
  BY <1>1, <1>2
<1> QED BY <1>1, <1>5, <1>6 DEF Reading

(* A closing bracket.                                                      *)
LEMMA CloseReads ==
  ASSUME Reading, CloseSubshell
  PROVE  Reading'
<1>1. /\ phase = "build" /\ is_subshell' = 0
      /\ word_buffer' = word_buffer /\ stream' = stream /\ node' = node
      /\ command_root' = command_root /\ parse_command' = parse_command
      /\ commands' = commands /\ phase' = phase
  BY CloseStep
<1>2. Reading /\ InHand
  BY <1>1 DEF Reading
<1>3. Roots'
  BY <1>1, <1>2, RootsKept DEF Reading, Roots
<1>4. InHand'
  BY <1>1, <1>2 DEF InHand, Orphan
<1>5. IsTree(node') /\ node' \in Seq(NodeSet)
  BY <1>1, <1>2 DEF Reading
<1> QED BY <1>1, <1>2, <1>3, <1>4, <1>5 DEF Reading

(* read_command_stream, all of it.                                         *)
LEMMA BuildReads ==
  ASSUME Reading, BuildCommand
  PROVE  Reading'
<1>1. CASE RedirectionCrash
  <2>1. /\ UNCHANGED <<node, commands, word_buffer, stream>> /\ phase' # "build"
    BY <1>1 DEF RedirectionCrash, textVars, buildVars
  <2> QED BY <2>1, ReadingKept DEF Reading
<1> QED BY <1>1, WordReads, OperatorReads, OpenReads, CloseReads, FinishReads DEF BuildCommand

(* Nothing has been read at the start.                                     *)
LEMMA ReadingInit ==
  ASSUME Init
  PROVE  Reading
<1>1. /\ word_buffer = NoWord /\ stream = <<>> /\ node = <<>> /\ commands = <<>>
      /\ phase = "tokens"
  BY DEF Init, ReadInit
<1> QED BY <1>1 DEF Reading, Texts, IsTree, Roots

(* Every step of the shell.                                                *)
LEMMA ReadingNext ==
  ASSUME Reading, [Next]_vars
  PROVE  Reading'
<1>1. CASE Read
  <2>1. CASE MakeStream
    BY <2>1, MakeStreamKeeps, ReadingKept DEF Reading
  <2> QED BY <1>1, <2>1, BuildReads, StartReads DEF Read
<1>2. CASE Execute \/ Executed
  <2>1. /\ UNCHANGED <<node, commands, word_buffer, stream>> /\ phase' # "build"
    BY <1>2 DEF Execute, Executed, textVars, buildVars
  <2> QED BY <2>1, ReadingKept DEF Reading
<1>3. CASE UNCHANGED readVars
  BY <1>3, ReadingSame
<1> QED BY <1>1, <1>2, <1>3 DEF Next, Stop, Process, Travel, Return, Gone, vars

---------------------------------------------------------------------------
(* Time travel *)

(* A dependency is one of the trees, which are the same.                   *)
LEMMA ConstrainedSame ==
  ASSUME UNCHANGED <<node, commands>>, NEW row, NEW col
  PROVE  Constrained(row, col)' <=> Constrained(row, col)
<1>1. Outputs' = Outputs /\ Inputs' = Inputs
  BY DEF Outputs, Inputs
<1> QED BY <1>1 DEF Constrained, check_constrain, Range1

(* A program that has run has ended, or has been killed by SIGPIPE.        *)
LEMMA ProgramEnds ==
  ASSUME NEW n, RunProgram(n)
  PROVE  pc[n] = "inside" /\ \E s \in {"killed", "ended"} : pc' = [pc EXCEPT ![n] = s]
<1>1. pc[n] = "inside"
  BY DEF RunProgram
<1>2. pc' = [pc EXCEPT ![n] = "killed"] \/ pc' = [pc EXCEPT ![n] = "ended"]
  BY ZenonT(90) DEF RunProgram
<1> QED BY <1>1, <1>2

(* execute_command on n changes how far n is and how far its sides are.    *)
LEMMA StepPlaces ==
  ASSUME Executing, NEW n, execute_command(n)
  PROVE  /\ Executing' /\ ~Over(n) /\ ~Idle(n)
         /\ \A m \in Nodes \ {n, node[n].left, node[n].right} : pc'[m] = pc[m]
         /\ \A m \in Nodes : ~Idle(m) => ~Idle(m)'
<1>1. {"called", "left", "right", "forked", "inside", "ended", "killed", "forkright", "closing",
       "waiting", "waitpid", "returned", "reaped"} \subseteq Stages
  BY DEF Stages
<1> DEFINE Right == /\ Executing' /\ ~Over(n) /\ ~Idle(n)
                    /\ \A m \in Nodes \ {n, node[n].left, node[n].right} : pc'[m] = pc[m]
<1>2. CASE CallLeft(n)
  BY <1>1, <1>2 DEF CallLeft, Calls, Executing, Over, Idle
<1>3. CASE LeftReturns(n)
  BY <1>1, <1>3 DEF LeftReturns, Calls, Returns, Executing, Over, Idle
<1>4. CASE RightReturns(n)
  BY <1>1, <1>4 DEF RightReturns, Returns, Executing, Over, Idle
<1>5. CASE ForkLeft(n) \/ ForkRight(n)
  BY <1>1, <1>5 DEF ForkLeft, ForkRight, Calls, Executing, Over, Idle
<1>6. CASE ClosePipe(n) \/ Fork(n) \/ NotFound(n)
  BY <1>1, <1>6 DEF ClosePipe, Fork, NotFound, Executing, Over, Idle
<1>7. CASE WaitAny(n)
  BY <1>1, <1>7 DEF WaitAny, Executing, Over, Idle
<1>8. CASE WaitOther(n)
  BY <1>1, <1>8 DEF WaitOther, Returns, Executing, Over, Idle
<1>9. CASE OpenFiles(n)
  <2>1. pc[n] = "forked"
    BY <1>9 DEF OpenFiles
  <2>2. \/ pc' = [[pc EXCEPT ![n] = "inside"] EXCEPT ![node[n].left] = "called"]
        \/ pc' = [pc EXCEPT ![n] = "inside"]
    BY <1>9 DEF OpenFiles, Calls
  <2> QED BY <1>1, <2>1, <2>2 DEF Executing, Over, Idle
<1>10. CASE RunProgram(n)
  <2>1. pc[n] = "inside" /\ \E s \in {"killed", "ended"} : pc' = [pc EXCEPT ![n] = s]
    BY <1>10, ProgramEnds
  <2> QED BY <1>1, <2>1 DEF Executing, Over, Idle
<1>11. CASE WaitSimple(n)
  <2>1. pc[n] \in {"ended", "killed"} /\ pc' = [pc EXCEPT ![n] = "returned"]
    BY <1>11 DEF WaitSimple, Returns
  <2> QED BY <1>1, <2>1 DEF Executing, Over, Idle
<1>12. CASE WaitSubshell(n)
  <2>1. /\ pc[n] = "inside"
        /\ pc' = [[pc EXCEPT ![node[n].left] = "reaped"] EXCEPT ![n] = "returned"]
    BY <1>12 DEF WaitSubshell, Returns
  <2> QED BY <1>1, <2>1 DEF Executing, Over, Idle
<1> QED BY <1>2, <1>3, <1>4, <1>5, <1>6, <1>7, <1>8, <1>9, <1>10, <1>11, <1>12
        DEF execute_command

(* No node has been started at the start.                                  *)
LEMMA ExecutingInit ==
  ASSUME Init
  PROVE  Executing
BY DEF Init, ExecInit, Executing, Stages

(* Every step leaves each node at one of the stages.                       *)
LEMMA ExecutingNext ==
  ASSUME Executing, [Next]_vars
  PROVE  Executing'
<1>1. "called" \in Stages /\ "reaped" \in Stages
  BY DEF Stages
<1>2. CASE UNCHANGED pc
  BY <1>2 DEF Executing
<1>3. CASE Execute
  BY <1>1, <1>3 DEF Execute, Calls, Executing
<1>4. CASE Process
  BY <1>4, StepPlaces DEF Process
<1>5. CASE Travel
  <2>1. CASE StartReady
    BY <1>1, <2>1 DEF StartReady, Executing
  <2>2. CASE \E i \in DOMAIN commands : ReapChild(i)
    BY <1>1, <2>2 DEF ReapChild, Executing
  <2> QED BY <1>2, <1>5, <2>1, <2>2
          DEF Travel, execute_timetravel_cmd, BuildGraph, NoChild, AllStarted, execVars
<1> QED BY <1>2, <1>3, <1>4, <1>5
        DEF Next, Read, Stop, Executed, Return, Gone, vars, execVars

(* Everything has been read as long as nothing is.                         *)
LEMMA AllReadSame ==
  ASSUME UNCHANGED readVars
  PROVE  AllRead' <=> AllRead
<1>1. stream' = stream /\ first' = first /\ phase' = phase
  BY DEF readVars
<1>2. find_stream_start' = find_stream_start /\ find_stream_end' = find_stream_end
  BY <1>1 DEF find_stream_start, find_stream_end, TokenAt, Least
<1> QED BY <1>1, <1>2 DEF AllRead

(* Once everything has been read, main reads no more.                      *)
LEMMA TravelReads ==
  ASSUME mode = "travel", AllRead, [Next]_vars
  PROVE  UNCHANGED readVars
<1>1. phase = "ready" /\ find_stream_start = find_stream_end
  BY DEF AllRead
<1>2. ~Read
  <2>1. ~MakeStream
    BY <1>1 DEF MakeStream, SkipComment, ReadCharacter, RejectCharacter, EndOfFile,
                CheckToken, GrammarDone, RejectGrammar
  <2>2. ~BuildCommand
    BY <1>1 DEF BuildCommand, ReadWord, ReadOperator, ReadRedirection, RedirectionCrash,
                OpenSubshell, CloseSubshell, FinishCommand, Building
  <2>3. ~StartCommand
    BY <1>1 DEF StartCommand
  <2> QED BY <2>1, <2>2, <2>3 DEF Read
<1>3. ~Execute /\ ~Executed
  BY <1>1 DEF Execute, Executed
<1> QED BY <1>2, <1>3 DEF Next, Stop, Process, Travel, Return, Gone, vars

(* A root that has been waited for stays so, as long as no command of this *)
(* root is started.                                                        *)
LEMMA ReapedStays ==
  ASSUME Reading, Executing, Fitting, NEW i \in DOMAIN commands,
         pc[commands[i]] = "reaped", Process
  PROVE  pc'[commands[i]] = "reaped"
<1>1. PICK n \in DOMAIN node : execute_command(n)
  BY DEF Process
<1>2. commands[i] \in DOMAIN node /\ Orphan(node, commands[i]) /\ node \in Seq(NodeSet)
  BY DEF Reading, Roots
<1>3. commands[i] \in Nodes
  BY <1>2, DomainIs, ProgramAssumption DEF Fitting, Nodes
<1>4. commands[i] # n
  BY <1>1, StepPlaces DEF Over
<1> QED BY <1>1, <1>2, <1>3, <1>4, StepPlaces DEF Orphan

(* The edges of a row can be counted, and none counts as 0.                *)
LEMMA EdgesFinite ==
  ASSUME Reading, Edges, NEW row
  PROVE  /\ IsFiniteSet(Waits(row))
         /\ Cardinality(Waits(row)) = 0 => Waits(row) = {}
<1>1. commands \in Seq(Nat)
  BY DEF Reading, Roots
<1>2. DOMAIN commands = 1..Len(commands) /\ Len(commands) \in Nat
  BY <1>1, DomainIs
<1>3. IsFiniteSet(DOMAIN commands)
  BY <1>2, FS_Interval
<1>4. IsFiniteSet((DOMAIN commands) \X (DOMAIN commands))
  BY <1>3, FS_Product
<1>5. Waits(row) \subseteq (DOMAIN commands) \X (DOMAIN commands)
  BY DEF Waits, Edges
<1>6. IsFiniteSet(Waits(row))
  BY <1>4, <1>5, FS_Subset
<1> QED BY <1>6, FS_EmptySet

(* The edges as they are: only how far the commands are may change.        *)
LEMMA EdgesSame ==
  ASSUME Edges, UNCHANGED <<node, commands, constrain_graph, W, running>>,
         \A i \in running : pc[commands[i]] = "reaped" => pc'[commands[i]] = "reaped"
  PROVE  Edges'
<1>1. \A row : Waits(row)' = Waits(row)
  BY DEF Waits
<1>2. \A row, col : Constrained(row, col)' <=> Constrained(row, col)
  BY ConstrainedSame
<1>3. /\ running' \subseteq DOMAIN commands'
      /\ constrain_graph' \subseteq (DOMAIN commands') \X (DOMAIN commands')
      /\ \A row \in running' : Waits(row)' = {}
  BY <1>1 DEF Edges
<1>4. W' = [row \in DOMAIN commands' |-> Cardinality(Waits(row)')]
  BY <1>1 DEF Edges
<1>5. \A row, col \in DOMAIN commands' :
        Constrained(row, col)' =>
          \/ <<row, col>> \in constrain_graph'
          \/ col \in running' /\ pc'[commands'[col]] = "reaped"
  BY <1>2 DEF Edges
<1> QED BY <1>3, <1>4, <1>5 DEF Edges

(* The graph that get_constrains builds has every dependency.              *)
LEMMA EdgesBuilt ==
  ASSUME BuildGraph, UNCHANGED <<node, commands>>, running = {}
  PROVE  Edges'
<1>1. /\ constrain_graph' = {e \in (DOMAIN commands) \X (DOMAIN commands) :
                               Constrained(e[1], e[2])}
      /\ W' = [row \in DOMAIN commands |-> Cardinality({e \in constrain_graph' : e[1] = row})]
      /\ running' = {}
  BY DEF BuildGraph
<1>2. \A row : Waits(row)' = {e \in constrain_graph' : e[1] = row}
  BY DEF Waits
<1>3. W' = [row \in DOMAIN commands' |-> Cardinality(Waits(row)')]
  BY <1>1, <1>2
<1>4. \A row, col \in DOMAIN commands' : Constrained(row, col)' => <<row, col>> \in constrain_graph'
  BY <1>1, ConstrainedSame
<1> QED BY <1>1, <1>3, <1>4 DEF Edges

(* A command that execute_tcmd starts has no edges left.                   *)
LEMMA EdgesStarted ==
  ASSUME Reading, Executing, Fitting, Edges, StartReady, UNCHANGED <<node, commands>>
  PROVE  Edges'
<1>1. PICK ready : /\ ready = {i \in DOMAIN commands : W[i] = 0 /\ i \notin running}
                   /\ running' = running \cup ready
                   /\ pc' = [n \in Nodes |-> IF \E i \in ready : commands[i] = n
                                             THEN "called" ELSE pc[n]]
  BY DEF StartReady
<1>2. constrain_graph' = constrain_graph /\ W' = W
  BY DEF StartReady
<1>3. \A row : Waits(row)' = Waits(row)
  BY <1>2 DEF Waits
<1>4. \A row \in running' : Waits(row) = {}
  BY <1>1, EdgesFinite DEF Edges
<1>5. ASSUME NEW i \in running, pc[commands[i]] = "reaped"
      PROVE  pc'[commands[i]] = "reaped"
  <2>1. i \in DOMAIN commands
    BY DEF Edges
  <2>2. commands[i] \in DOMAIN node /\ node \in Seq(NodeSet)
    BY <2>1 DEF Reading, Roots
  <2>3. commands[i] \in Nodes
    BY <2>2, DomainIs, ProgramAssumption DEF Fitting, Nodes
  <2>4. ~\E j \in ready : commands[j] = commands[i]
    BY <1>1, <2>1 DEF Reading, Roots
  <2> QED BY <1>1, <1>5, <2>3, <2>4
<1>6. \A row, col : Constrained(row, col)' <=> Constrained(row, col)
  BY ConstrainedSame
<1>7. /\ running' \subseteq DOMAIN commands'
      /\ constrain_graph' \subseteq (DOMAIN commands') \X (DOMAIN commands')
      /\ \A row \in running' : Waits(row)' = {}
  BY <1>1, <1>2, <1>3, <1>4 DEF Edges
<1>8. W' = [row \in DOMAIN commands' |-> Cardinality(Waits(row)')]
  BY <1>2, <1>3 DEF Edges
<1>9. \A row, col \in DOMAIN commands' :
        Constrained(row, col)' =>
          \/ <<row, col>> \in constrain_graph'
          \/ col \in running' /\ pc'[commands'[col]] = "reaped"
  <2>1. running \subseteq running' /\ constrain_graph' = constrain_graph
    BY <1>1, <1>2
  <2> QED BY <2>1, <1>5, <1>6 DEF Edges
<1> QED BY <1>7, <1>8, <1>9 DEF Edges

(* Only the edges to the command that was reaped are taken away.           *)
LEMMA EdgesReaped ==
  ASSUME Reading, Executing, Fitting, Edges, NEW i \in DOMAIN commands, ReapChild(i),
         UNCHANGED <<node, commands>>
  PROVE  Edges'
<1>1. /\ i \in running /\ pc' = [pc EXCEPT ![commands[i]] = "reaped"]
      /\ constrain_graph' = {e \in constrain_graph : e[2] # i}
      /\ W' = [row \in DOMAIN W |-> IF <<row, i>> \in constrain_graph
                                    THEN W[row] - 1 ELSE W[row]]
      /\ running' = running
  BY DEF ReapChild, CountedOff
<1>2. \A row : Waits(row)' = Waits(row) \ {<<row, i>>}
  <2>1. \A e \in constrain_graph : e = <<e[1], e[2]>>
    BY DEF Edges
  <2> QED BY <1>1, <2>1 DEF Waits
<1>3. W' = [row \in DOMAIN commands' |-> Cardinality(Waits(row)')]
  <2>1. ASSUME NEW row \in DOMAIN commands
        PROVE  Cardinality(Waits(row)') = IF <<row, i>> \in constrain_graph
                                          THEN Cardinality(Waits(row)) - 1
                                          ELSE Cardinality(Waits(row))
    <3>1. <<row, i>> \in Waits(row) <=> <<row, i>> \in constrain_graph
      BY DEF Waits
    <3>2. CASE <<row, i>> \in constrain_graph
      BY <1>2, <3>1, <3>2, EdgesFinite, FS_RemoveElement
    <3>3. CASE <<row, i>> \notin constrain_graph
      <4>1. Waits(row)' = Waits(row)
        BY <1>2, <3>1, <3>3
      <4> QED BY <3>3, <4>1
    <3> QED BY <3>2, <3>3
  <2>2. DOMAIN W = DOMAIN commands /\ \A row \in DOMAIN commands : W[row] = Cardinality(Waits(row))
    BY DEF Edges
  <2> QED BY <1>1, <2>1, <2>2
<1>4. /\ running' \subseteq DOMAIN commands'
      /\ constrain_graph' \subseteq (DOMAIN commands') \X (DOMAIN commands')
      /\ \A row \in running' : Waits(row)' = {}
  BY <1>1, <1>2 DEF Edges
<1>5. /\ \A j \in running : pc[commands[j]] = "reaped" => pc'[commands[j]] = "reaped"
      /\ pc'[commands[i]] = "reaped"
  <2>1. commands[i] \in DOMAIN node /\ node \in Seq(NodeSet)
    BY DEF Reading, Roots
  <2>2. commands[i] \in Nodes
    BY <2>1, DomainIs, ProgramAssumption DEF Fitting, Nodes
  <2> QED BY <1>1, <2>2 DEF Executing
<1>6. \A row, col : Constrained(row, col)' <=> Constrained(row, col)
  BY ConstrainedSame
<1>7. \A row, col \in DOMAIN commands' :
        Constrained(row, col)' =>
          \/ <<row, col>> \in constrain_graph'
          \/ col \in running' /\ pc'[commands'[col]] = "reaped"
  BY <1>1, <1>5, <1>6 DEF Edges
<1> QED BY <1>3, <1>4, <1>7 DEF Edges

(* Without -t there is no graph.                                           *)
LEMMA TravelingInit ==
  ASSUME Init
  PROVE  Traveling
BY DEF Init, TravelInit, Traveling

(* Every step keeps the dependencies.                                      *)
LEMMA TravelingNext ==
  ASSUME Reading, Executing, Fitting, Traveling, [Next]_vars
  PROVE  Traveling'
<1>1. mode' = mode
  BY DEF Next, Read, Stop, Execute, Executed, Process, Travel, Return, Gone, vars, mainVars
<1>2. CASE Travel
  <2>1. mode = "travel" /\ AllRead /\ UNCHANGED readVars
    BY <1>2 DEF Travel
  <2>2. AllRead' /\ UNCHANGED <<node, commands>>
    BY <2>1, AllReadSame DEF readVars, buildVars
  <2>3. CASE BuildGraph
    BY <1>1, <2>1, <2>2, <2>3, EdgesBuilt DEF Traveling, BuildGraph
  <2>4. CASE StartReady
    BY <1>1, <2>1, <2>2, <2>4, EdgesStarted DEF Traveling, StartReady
  <2>5. CASE NoChild \/ AllStarted
    BY <1>1, <2>1, <2>2, <2>5, EdgesSame DEF Traveling, NoChild, AllStarted, execVars
  <2>6. CASE \E i \in DOMAIN commands : ReapChild(i)
    BY <1>1, <2>1, <2>2, <2>6, EdgesReaped DEF Traveling, ReapChild
  <2> QED BY <1>2, <2>3, <2>4, <2>5, <2>6 DEF Travel, execute_timetravel_cmd
<1>3. CASE ~Travel
  <2>1. UNCHANGED travelVars
    BY <1>3 DEF Next, Read, Stop, Execute, Executed, Process, Return, Gone, vars
  <2>2. CASE round = "none"
    BY <1>1, <2>1, <2>2 DEF Traveling, travelVars
  <2>3. CASE round # "none"
    <3>1. mode = "travel" /\ AllRead /\ Edges
      BY <2>3 DEF Traveling
    <3>2. UNCHANGED readVars /\ AllRead' /\ UNCHANGED <<node, commands>>
      <4>1. UNCHANGED readVars
        BY <3>1, TravelReads
      <4> QED BY <3>1, <4>1, AllReadSame DEF readVars, buildVars
    <3>3. \A i \in running : pc[commands[i]] = "reaped" => pc'[commands[i]] = "reaped"
      <4>1. CASE Process
        BY <3>1, <4>1, ReapedStays DEF Edges
      <4>2. CASE UNCHANGED pc
        BY <4>2
      <4>3. ~Execute
        BY <3>1 DEF Execute
      <4> QED BY <1>3, <4>1, <4>2, <4>3
              DEF Next, Read, Stop, Executed, Return, Gone, vars, execVars
    <3>4. Edges'
      BY <2>1, <3>1, <3>2, <3>3, EdgesSame DEF travelVars
    <3> QED BY <1>1, <2>1, <2>3, <3>1, <3>2, <3>4 DEF Traveling, travelVars
  <2> QED BY <2>2, <2>3
<1> QED BY <1>2, <1>3

(* With -t, and as long as a script has no more nodes than there are, the  *)
(* first file that a running command writes is not one that any other      *)
(* running command reads or writes, as far as get_constrains has recorded  *)
(* it (get_constrains, check_constrain, execute_tcmd).                     *)
THEOREM NeverRacesCorrect ==
  Spec /\ []Fitting => []FirstOutputNeverRaces
<1> DEFINE Inv == Reading /\ Executing /\ Traveling
<1>1. Init => Inv
  BY ReadingInit, ExecutingInit, TravelingInit
<1>2. Inv /\ Fitting /\ [Next]_vars => Inv'
  BY ReadingNext, ExecutingNext, TravelingNext
<1>3. Inv => FirstOutputNeverRaces
  <2> SUFFICES ASSUME Inv, NEW i \in running, NEW j \in running, i # j,
                      InFlight(i), InFlight(j),
                      Outputs[commands[i]] # << >>
               PROVE  Outputs[commands[i]][1] \notin
                        Range1(Inputs[commands[j]]) \cup Range1(Outputs[commands[j]])
    BY DEF FirstOutputNeverRaces
  <2>1. round # "none" /\ Edges
    BY DEF Traveling
  <2>2. i \in DOMAIN commands /\ j \in DOMAIN commands /\ Waits(j) = {}
    BY <2>1 DEF Edges
  <2>3. <<j, i>> \notin constrain_graph
    BY <2>2 DEF Waits
  <2>4. pc[commands[i]] # "reaped"
    BY DEF InFlight, Over
  <2>5. ~Constrained(j, i)
    BY <2>1, <2>2, <2>3, <2>4 DEF Edges
  <2> QED BY <2>5 DEF Constrained, check_constrain
<1> HIDE DEF Inv
<1> QED BY <1>1, <1>2, <1>3, PTL DEF Spec

---------------------------------------------------------------------------
(* No tree has a cycle                                                     *)

(* The same ranks do.                                                      *)
LEMMA SameSidesAcyclic ==
  ASSUME NEW t, NEW u, SameSides(t, u), Acyclic(t)
  PROVE  Acyclic(u)
<1>1. \A n \in DOMAIN t : Sides(u, n) = Sides(t, n)
  BY DEF SameSides, Sides
<1> QED BY <1>1 DEF Acyclic, Ranks, SameSides

(* A new node has the lowest rank.                                         *)
LEMMA OneMoreAcyclic ==
  ASSUME NEW t \in Seq(NodeSet), NEW u, OneMore(t, u), IsTree(t), Acyclic(t)
  PROVE  Acyclic(u)
<1> DEFINE k == Len(t) + 1
<1>1. PICK r : Ranks(t, r)
  BY DEF Acyclic
<1>2. /\ DOMAIN u = DOMAIN t \cup {k} /\ k \notin DOMAIN t
      /\ \A n \in DOMAIN t : Sides(t, n) \subseteq DOMAIN t
  BY DomainIs DEF OneMore, IsTree, Sides
<1>3. /\ \A n \in DOMAIN t : Sides(u, n) = Sides(t, n)
      /\ Sides(u, k) = {}
  BY FreshIs DEF OneMore, Sides
<1> DEFINE q == [n \in DOMAIN u |-> IF n = k THEN 0 ELSE r[n]]
<1> HIDE DEF k
<1>4. Ranks(u, q)
  BY <1>1, <1>2, <1>3 DEF Ranks
<1> QED BY <1>4 DEF Acyclic

(* The inside of a subshell comes below all the others.                    *)
LEMMA OpenedAcyclic ==
  ASSUME NEW t \in Seq(NodeSet), NEW u, NEW p \in DOMAIN t, Opened(t, u, p), IsTree(t), Acyclic(t)
  PROVE  Acyclic(u)
<1> DEFINE k == Len(t) + 1
<1>1. PICK r : Ranks(t, r)
  BY DEF Acyclic
<1>2. /\ DOMAIN u = DOMAIN t \cup {k} /\ k \notin DOMAIN t
      /\ \A n \in DOMAIN t : Sides(t, n) \subseteq DOMAIN t
  BY DomainIs DEF Opened, IsTree, Sides
<1>3. /\ \A n \in DOMAIN t \ {p} : Sides(u, n) = Sides(t, n)
      /\ Sides(u, p) \subseteq {k} /\ Sides(u, k) = {}
  BY FreshIs DEF Opened, Sides
<1> DEFINE q == [n \in DOMAIN u |-> IF n = k THEN 0 ELSE r[n] + 1]
<1> HIDE DEF k
<1>4. q \in [DOMAIN u -> Nat]
  BY <1>1, <1>2 DEF Ranks
<1>5. ASSUME NEW n \in DOMAIN u, NEW m \in Sides(u, n)
      PROVE  q[m] < q[n]
  BY <1>1, <1>2, <1>3 DEF Ranks
<1> QED BY <1>4, <1>5 DEF Acyclic, Ranks

(* A new root comes above all the others.                                  *)
LEMMA RootedAcyclic ==
  ASSUME NEW t \in Seq(NodeSet), NEW u, NEW l \in DOMAIN t, Rooted(t, u, l), IsTree(t), Acyclic(t)
  PROVE  Acyclic(u)
<1> DEFINE k == Len(t) + 1
           j == Len(t) + 2
<1>1. PICK r : Ranks(t, r)
  BY DEF Acyclic
<1>2. /\ DOMAIN u = DOMAIN t \cup {k, j} /\ k \notin DOMAIN t /\ j \notin DOMAIN t /\ k # j
      /\ \A n \in DOMAIN t : Sides(t, n) \subseteq DOMAIN t
  BY DomainIs DEF Rooted, TwoMore, IsTree, Sides
<1>3. /\ \A n \in DOMAIN t : Sides(u, n) = Sides(t, n)
      /\ Sides(u, k) \subseteq {l, j} /\ Sides(u, j) = {}
  BY FreshIs DEF Rooted, TwoMore, Sides
<1> DEFINE q == [n \in DOMAIN u |-> IF n = j THEN 0 ELSE IF n = k THEN r[l] + 2 ELSE r[n] + 1]
<1> HIDE DEF k, j
<1>4. q \in [DOMAIN u -> Nat]
  BY <1>1, <1>2 DEF Ranks
<1>5. ASSUME NEW n \in DOMAIN u, NEW m \in Sides(u, n)
      PROVE  q[m] < q[n]
  BY <1>1, <1>2, <1>3 DEF Ranks
<1> QED BY <1>4, <1>5 DEF Acyclic, Ranks

(* A node that is put in between gets a rank in between.                   *)
LEMMA InsertedAcyclic ==
  ASSUME NEW t \in Seq(NodeSet), NEW u, NEW p \in DOMAIN t, NEW l, Inserted(t, u, p, l),
         IsTree(t), Acyclic(t)
  PROVE  Acyclic(u)
<1> DEFINE k == Len(t) + 1
           j == Len(t) + 2
<1>1. PICK r : Ranks(t, r)
  BY DEF Acyclic
<1>2. /\ DOMAIN u = DOMAIN t \cup {k, j} /\ k \notin DOMAIN t /\ j \notin DOMAIN t /\ k # j
      /\ \A n \in DOMAIN t : Sides(t, n) \subseteq DOMAIN t
  BY DomainIs DEF Inserted, TwoMore, IsTree, Sides
<1>3. /\ \A n \in DOMAIN t \ {p} : Sides(u, n) = Sides(t, n)
      /\ Sides(u, p) \subseteq Sides(t, p) \cup {k}
      /\ Sides(u, k) \subseteq (Sides(t, p) \cap {l}) \cup {j}
      /\ Sides(u, j) = {}
  <2>1. l = t[p].left \/ l = t[p].right
    BY DEF Inserted
  <2>2. \A n \in DOMAIN t \ {p} : Sides(u, n) = Sides(t, n)
    BY DEF Inserted, Sides
  <2>3. Sides(u, p) \subseteq Sides(t, p) \cup {k}
    BY DEF Inserted, Sides
  <2>4. Sides(u, k) \subseteq (Sides(t, p) \cap {l}) \cup {j}
    BY <2>1 DEF Inserted, TwoMore, Sides
  <2>5. Sides(u, j) = {}
    BY FreshIs DEF Inserted, TwoMore, Sides
  <2> QED BY <2>2, <2>3, <2>4, <2>5
<1> DEFINE q == [n \in DOMAIN u |-> IF n = j THEN 0 ELSE IF n = k THEN r[p] + r[p] + 1
                                    ELSE r[n] + r[n] + 2]
<1> HIDE DEF k, j
<1>4. q \in [DOMAIN u -> Nat]
  BY <1>1, <1>2 DEF Ranks
<1>5. ASSUME NEW n \in DOMAIN u, NEW m \in Sides(u, n)
      PROVE  q[m] < q[n]
  <2>1. CASE n \in DOMAIN t /\ m \in Sides(t, n)
    BY <1>1, <1>2, <2>1 DEF Ranks
  <2>2. CASE n = p /\ m = k
    BY <1>1, <1>2, <2>2 DEF Ranks
  <2>3. CASE n = k /\ m \in Sides(t, p)
    BY <1>1, <1>2, <2>3 DEF Ranks
  <2>4. CASE n = k /\ m = j
    BY <1>1, <1>2, <2>4 DEF Ranks
  <2> QED BY <1>2, <1>3, <1>5, <2>1, <2>2, <2>3, <2>4
<1> QED BY <1>4, <1>5 DEF Acyclic, Ranks

(* No node has a side at the start.                                        *)
LEMMA AcyclicInit ==
  ASSUME Init
  PROVE  Acyclic(node)
<1>1. node = <<>>
  BY DEF Init, ReadInit
<1>2. Ranks(node, [n \in DOMAIN node |-> 0])
  BY <1>1 DEF Ranks
<1> QED BY <1>2 DEF Acyclic

(* Every step of the shell.                                                *)
LEMMA AcyclicNext ==
  ASSUME Reading, Acyclic(node), [Next]_vars
  PROVE  Acyclic(node')
<1>1. node \in Seq(NodeSet) /\ IsTree(node)
  BY DEF Reading
<1>2. CASE UNCHANGED node
  BY <1>2
<1>3. CASE BuildCommand
  <2>1. CASE ReadWord \/ \E t \in Redirections : ReadRedirection(t)
    BY <2>1, WordStep, RedirectionStep, SameSidesAcyclic
  <2>2. ASSUME NEW t \in Operators \cup {"SEMICOLON"}, ReadOperator(t)
        PROVE  Acyclic(node')
    <3>1. CASE \E p \in DOMAIN node, l \in Nat : Inserted(node, node', p, l)
      BY <1>1, <3>1, InsertedAcyclic
    <3>2. CASE is_subshell = 0 /\ Rooted(node, node', command_root)
      <4>1. command_root \in DOMAIN node
        BY <2>2, OperatorStep, HandIs DEF InHand
      <4> QED BY <1>1, <3>2, <4>1, RootedAcyclic
    <3> QED BY <2>2, <3>1, <3>2, OperatorStep
  <2>3. CASE OpenSubshell
    BY <1>1, <2>3, OpenStep, OpenedAcyclic
  <2> QED BY <1>2, <1>3, <2>1, <2>2, <2>3, CloseStep, FinishStep
          DEF BuildCommand, RedirectionCrash, buildVars
<1>4. CASE StartCommand
  BY <1>1, <1>4, StartStep, OneMoreAcyclic
<1>5. CASE MakeStream
  BY <1>2, <1>5, MakeStreamKeeps DEF Reading
<1> QED BY <1>2, <1>3, <1>4, <1>5
        DEF Next, Read, Stop, Execute, Executed, Process, Travel, Return, Gone, vars,
            readVars, buildVars

---------------------------------------------------------------------------
(* What is below a node                                                    *)

(* Below is what its definition says: there are sets that satisfy it, the  *)
(* least ones that hold what is on the sides of all they hold.             *)
LEMMA BelowIs ==
  ASSUME IsTree(node), node \in Seq(NodeSet)
  PROVE  \A n \in DOMAIN node :
           Below[n] = UNION {{m} \cup Below[m] : m \in Sides(node, n)}
<1> DEFINE D == DOMAIN node
           S(n) == {node[n].left, node[n].right} \ {0}
           Closed(X, n) == S(n) \subseteq X /\ \A x \in X : S(x) \subseteq X
           Under(n) == {m \in D : \A X \in SUBSET D : Closed(X, n) => m \in X}
           f == [n \in D |-> Under(n)]
           P(B) == B = [n \in D |-> UNION {{m} \cup B[m] : m \in S(n)}]
<1>1. \A n \in D : S(n) \subseteq D
  BY DomainIs DEF IsTree
<1> HIDE DEF D, S
<1>2. ASSUME NEW n \in D
      PROVE  Under(n) = UNION {{m} \cup Under(m) : m \in S(n)}
  <2> DEFINE U == UNION {{m} \cup Under(m) : m \in S(n)}
  <2>1. ASSUME NEW x \in U
        PROVE  x \in Under(n)
    <3>1. PICK m \in S(n) : x = m \/ x \in Under(m)
      BY <2>1
    <3>2. x \in D
      BY <1>1, <3>1
    <3>3. ASSUME NEW X \in SUBSET D, Closed(X, n)
          PROVE  x \in X
      <4>1. m \in X /\ Closed(X, m)
        BY <3>1, <3>3
      <4> QED BY <3>1, <3>3, <4>1
    <3> QED BY <3>2, <3>3
  <2>2. U \in SUBSET D
    BY <1>1
  <2>3. S(n) \subseteq U
    OBVIOUS
  <2>4. ASSUME NEW x \in U, NEW y \in S(x)
        PROVE  y \in U
    <3>1. PICK m \in S(n) : x = m \/ x \in Under(m)
      BY <2>4
    <3>2. y \in Under(m)
      <4>1. x \in D /\ m \in D /\ y \in D
        BY <1>1, <3>1, <2>4
      <4>2. ASSUME NEW X \in SUBSET D, Closed(X, m)
            PROVE  y \in X
        BY <2>4, <3>1, <4>1, <4>2
      <4> QED BY <4>1, <4>2
    <3> QED BY <3>1, <3>2
  <2>5. Closed(U, n)
    BY <2>3, <2>4
  <2>6. Under(n) \subseteq U
    <3> HIDE DEF U
    <3> QED BY <2>2, <2>5
  <2> QED BY <2>1, <2>6
<1>3. P(f)
  <2> HIDE DEF Under
  <2>1. \A n \in D : f[n] = Under(n)
    OBVIOUS
  <2>2. f = [n \in D |-> f[n]]
    OBVIOUS
  <2> HIDE DEF f
  <2>3. ASSUME NEW n \in D
        PROVE  f[n] = UNION {{m} \cup f[m] : m \in S(n)}
    <3>1. {{m} \cup f[m] : m \in S(n)} = {{m} \cup Under(m) : m \in S(n)}
      BY <1>1, <2>1
    <3> QED BY <1>2, <2>1, <3>1
  <2> QED BY <2>2, <2>3
<1> HIDE DEF f
<1>4. P(CHOOSE B : P(B))
  <2> HIDE DEF P
  <2> QED BY <1>3
<1>5. Below = CHOOSE B : P(B)
  BY DEF Below, D, S
<1>6. P(Below)
  BY <1>4, <1>5
<1>7. \A n \in D : Below[n] = UNION {{m} \cup Below[m] : m \in S(n)}
  <2> DEFINE B == Below
  <2>1. B = [n \in D |-> UNION {{m} \cup B[m] : m \in S(n)}]
    BY <1>6
  <2> HIDE DEF B
  <2>2. \A n \in D : B[n] = UNION {{m} \cup B[m] : m \in S(n)}
    BY <2>1
  <2> QED BY <2>2 DEF B
<1> QED BY <1>7 DEF D, S, Sides

(* A property that goes down from a node to its sides holds of all that is *)
(* below a node: of the nodes where it does not, one would be the lowest.  *)
LEMMA Downward ==
  ASSUME node \in Seq(NodeSet), IsTree(node), Acyclic(node), NEW G,
         \A n \in G : n \in DOMAIN node /\ Sides(node, n) \subseteq G
  PROVE  \A n \in G : Below[n] \subseteq G
<1>1. PICK r : Ranks(node, r)
  BY DEF Acyclic
<1> DEFINE Bad == {n \in G : ~ Below[n] \subseteq G}
           T == {r[n] : n \in Bad}
<1>2. SUFFICES ASSUME Bad # {}
               PROVE  FALSE
  OBVIOUS
<1>3. T \subseteq Nat /\ T # {}
  BY <1>1, <1>2 DEF Ranks
<1>4. PICK x \in T : \A y \in T : <<y, x>> \notin OpToRel(<, Nat)
  <2> HIDE DEF T
  <2>1. IsWellFoundedOn(OpToRel(<, Nat), Nat)
    BY NatLessThanWellFounded
  <2> QED BY <1>3, <2>1, WFMin
<1>5. PICK n \in Bad : x = r[n]
  OBVIOUS
<1>6. \A m \in Sides(node, n) : m \in G /\ r[m] < r[n] /\ r[m] \in Nat /\ r[n] \in Nat
  BY <1>1, <1>5 DEF Ranks
<1>7. \A m \in Sides(node, n) : m \notin Bad
  <2> SUFFICES ASSUME NEW m \in Sides(node, n), m \in Bad
               PROVE  FALSE
    OBVIOUS
  <2>1. r[m] \in T /\ <<r[m], x>> \in OpToRel(<, Nat)
    BY <1>5, <1>6 DEF OpToRel
  <2> QED BY <1>4, <2>1
<1>8. Below[n] \subseteq G
  <2>1. n \in DOMAIN node
    BY <1>5
  <2>2. Below[n] = UNION {{m} \cup Below[m] : m \in Sides(node, n)}
    BY <2>1, BelowIs
  <2> QED BY <2>2, <1>6, <1>7
<1> QED BY <1>5, <1>8

---------------------------------------------------------------------------
(* Nodes and their sides                                                   *)

(* The sides of a node are nodes, and not those of any other one.          *)
LEMMA SidesAre ==
  ASSUME Reading, Fitting
  PROVE  /\ DOMAIN node = 1..Len(node) /\ DOMAIN node \subseteq Nodes /\ 0 \notin DOMAIN node
         /\ \A k \in DOMAIN node : Sides(node, k) \subseteq DOMAIN node
         /\ \A k, n \in DOMAIN node : k # n => Sides(node, k) \cap Sides(node, n) = {}
<1>1. node \in Seq(NodeSet) /\ IsTree(node)
  BY DEF Reading
<1>2. DOMAIN node = 1..Len(node) /\ Len(node) \in Nat
  BY <1>1, DomainIs
<1>3. DOMAIN node \subseteq Nodes /\ 0 \notin DOMAIN node
  BY <1>2, ProgramAssumption DEF Fitting, Nodes
<1>4. \A k \in DOMAIN node : Sides(node, k) \subseteq DOMAIN node
  BY <1>1, <1>2 DEF IsTree, Sides
<1> QED BY <1>1, <1>2, <1>3, <1>4 DEF IsTree

(* A node that does nothing fits its sides, if only one of these does      *)
(* something that was not over.                                            *)
LEMMA FrameFits ==
  ASSUME UNCHANGED node, NEW k, SidesFit(k), pc'[k] = pc[k], NEW n, ~Ended(n),
         \A m \in Sides(node, k) \ {n} : pc'[m] = pc[m]
  PROVE  SidesFit(k)'
<1>1. /\ node' = node /\ Sides(node', k) = Sides(node, k)
      /\ node[k].left # 0 => node[k].left \in Sides(node, k)
      /\ node[k].right # 0 => node[k].right \in Sides(node, k)
  BY DEF Sides
<1>2. /\ pc[k] \in {"idle", "called", "forked"} => \A m \in Sides(node, k) : pc[m] = "idle"
      /\ pc[k] \in {"left", "right"} => node[k].type \in Lists
      /\ pc[k] = "left" => (node[k].right # 0 => pc[node[k].right] = "idle")
      /\ pc[k] = "right" => (node[k].left # 0 => pc[node[k].left] = "returned")
      /\ pc[k] \in {"forkright", "closing", "waiting", "waitpid"} => node[k].type = "PIPE"
      /\ pc[k] = "forkright" => (node[k].right # 0 => pc[node[k].right] = "idle")
      /\ pc[k] = "waitpid" => \E m \in Sides(node, k) : pc[m] = "reaped"
      /\ pc[k] \in {"forked", "inside"} => node[k].type \in {"SIMPLE", "SUBSHELL"}
      /\ pc[k] \in {"ended", "killed"} => node[k].type = "SIMPLE"
      /\ pc[k] \in {"returned", "reaped"} =>
           /\ \A m \in Sides(node, k) : pc[m] \in {"idle", "returned", "reaped"}
           /\ node[k].type \in {"PIPE", "SUBSHELL"} => \A m \in Sides(node, k) : pc[m] = "reaped"
  BY DEF SidesFit, Idle, Ended, Over
<1>3. pc[n] \notin {"idle", "returned", "reaped"}
  BY DEF Ended
<1>4. \A m \in Sides(node, k) : pc[m] \in {"idle", "returned", "reaped"} => pc'[m] = pc[m]
  BY <1>3
<1>5. \A m \in Sides(node', k) : /\ pc[m] = "idle" => Idle(m)'
                                 /\ pc[m] \in {"idle", "returned", "reaped"} => Ended(m)'
  BY <1>1, <1>4 DEF Idle, Ended
<1> QED BY <1>1, <1>2, <1>4, <1>5 DEF SidesFit, Over, Idle

(* A node that is called, and one that has been waited for.                *)
LEMMA CalledFits ==
  ASSUME UNCHANGED node, NEW k, SidesFit(k), Idle(k), pc'[k] = "called",
         \A m \in Sides(node, k) : pc'[m] = pc[m]
  PROVE  SidesFit(k)'
BY DEF SidesFit, Idle, Over, Sides

(* A side that has been waited for fits as it did when it returned.        *)
LEMMA ReapedFits ==
  ASSUME UNCHANGED node, NEW k, SidesFit(k), pc[k] = "returned", pc'[k] = "reaped",
         \A m \in Sides(node, k) : pc'[m] = pc[m]
  PROVE  SidesFit(k)'
<1>1. node' = node /\ Sides(node', k) = Sides(node, k)
  BY DEF Sides
<1>2. /\ \A m \in Sides(node, k) : Ended(m)'
      /\ node[k].type \in {"PIPE", "SUBSHELL"} => \A m \in Sides(node, k) : pc'[m] = "reaped"
  BY DEF SidesFit, Over, Ended
<1> QED BY <1>1, <1>2 DEF SidesFit, Over

(* One side c of n is called, or waited for.                               *)
Takes(c) == \/ Idle(c) /\ pc'[c] = "called"
            \/ pc[c] = "returned" /\ pc'[c] = "reaped"

(* A node that goes on, with the side it calls or reaps, disturbs no other.*)
LEMMA OthersFit ==
  ASSUME Reading, Fitting, Fits, UNCHANGED node, NEW n \in DOMAIN node, ~Ended(n),
         \/ \A m \in Nodes \ {n} : pc'[m] = pc[m]
         \/ \E c \in Sides(node, n) : Takes(c) /\ \A m \in Nodes \ {n, c} : pc'[m] = pc[m]
  PROVE  \A k \in DOMAIN node \ {n} : SidesFit(k)'
<1>1. CASE \A m \in Nodes \ {n} : pc'[m] = pc[m]
  BY <1>1, SidesAre, FrameFits DEF Fits
<1>2. ASSUME NEW c \in Sides(node, n), Takes(c), \A m \in Nodes \ {n, c} : pc'[m] = pc[m],
             NEW k \in DOMAIN node \ {n}
      PROVE  SidesFit(k)'
  <2>1. c \notin Sides(node, k) /\ Sides(node, k) \subseteq Nodes /\ k \in Nodes
    BY SidesAre
  <2>2. CASE k # c
    BY <1>2, <2>1, <2>2, FrameFits DEF Fits
  <2>3. CASE k = c
    <3>1. n \notin Sides(node, k)
      BY <1>2, <2>3 DEF Takes, Fits, SidesFit, Idle, Ended, Over
    <3> QED BY <1>2, <2>1, <2>3, <3>1, CalledFits, ReapedFits DEF Takes, Fits
  <2> QED BY <2>2, <2>3
<1> QED BY <1>1, <1>2

(* What execute_command does to a node keeps it fitting: its sides have    *)
(* been called in turn, and it is over when they are.                      *)
LEMMA StepFits ==
  ASSUME Reading, Executing, Fitting, SidesAreThere, Fits, UNCHANGED node,
         NEW n \in DOMAIN node, execute_command(n)
  PROVE  Fits'
<1> DEFINE L == node[n].left
           R == node[n].right
           T == node[n].type
           S == Sides(node, n)
           Alone == \A m \in Nodes \ {n} : pc'[m] = pc[m]
           Taken(c) == Takes(c) /\ \A m \in Nodes \ {n, c} : pc'[m] = pc[m]
           Good == SidesFit(n)' /\ (Alone \/ \E c \in S : Taken(c))
<1>1. /\ n \in Nodes /\ S \subseteq Nodes /\ S = {L, R} \ {0}
      /\ \A m \in S : m \in DOMAIN node
      /\ L # 0 => L # R
      /\ T = "SIMPLE" => S = {}
      /\ T = "SUBSHELL" => R = 0
  BY SidesAre DEF Reading, IsTree, Sides
<1>2. /\ node' = node /\ Sides(node', n) = S
  BY DEF Sides
<1>3. pc[n] \notin {"idle", "returned", "reaped"} /\ ~Ended(n)
  BY StepPlaces DEF Over, Idle, Ended
<1>4. T \in Lists \cup {"PIPE"} => L # 0 /\ R # 0 /\ L \in S /\ R \in S /\ S = {L, R}
  BY <1>1, <1>3 DEF SidesAreThere, Idle
<1>5. /\ pc[n] \in {"called", "forked"} => \A m \in S : pc[m] = "idle"
      /\ pc[n] \in {"left", "right"} => T \in Lists
      /\ pc[n] = "left" => (R # 0 => pc[R] = "idle")
      /\ pc[n] = "right" => (L # 0 => pc[L] = "returned")
      /\ pc[n] \in {"forkright", "closing", "waiting", "waitpid"} => T = "PIPE"
      /\ pc[n] = "forkright" => (R # 0 => pc[R] = "idle")
      /\ pc[n] = "waitpid" => \E m \in S : pc[m] = "reaped"
      /\ pc[n] \in {"forked", "inside"} => T \in {"SIMPLE", "SUBSHELL"}
      /\ pc[n] \in {"ended", "killed"} => T = "SIMPLE"
  BY DEF Fits, SidesFit, Idle
<1>6. pc \in [Nodes -> Stages]
  BY DEF Executing
<1>7. T \in Lists => T \notin {"PIPE", "SUBSHELL", "SIMPLE"}
  BY DEF Lists
(* How n fits once it is at a stage.                                       *)
<1> DEFINE Fit(s) ==
             /\ s \in {"called", "forked"} => \A m \in S : pc'[m] = "idle"
             /\ s \in {"left", "right"} => T \in Lists
             /\ s = "left" => (R # 0 => pc'[R] = "idle")
             /\ s = "right" => (L # 0 => pc'[L] = "returned")
             /\ s \in {"forkright", "closing", "waiting", "waitpid"} => T = "PIPE"
             /\ s = "forkright" => (R # 0 => pc'[R] = "idle")
             /\ s = "waitpid" => \E m \in S : pc'[m] = "reaped"
             /\ s \in {"forked", "inside"} => T \in {"SIMPLE", "SUBSHELL"}
             /\ s \in {"ended", "killed"} => T = "SIMPLE"
             /\ s = "returned" =>
                  /\ \A m \in S : pc'[m] \in {"idle", "returned", "reaped"}
                  /\ T \in {"PIPE", "SUBSHELL"} => \A m \in S : pc'[m] = "reaped"
<1>8. ASSUME NEW s, pc'[n] = s, s \notin {"idle", "reaped"}, Fit(s)
      PROVE  SidesFit(n)'
  BY <1>2, <1>8 DEF SidesFit, Idle, Ended, Over
<1>9. SUFFICES Good
  <2>1. \A k \in DOMAIN node \ {n} : SidesFit(k)'
    BY <1>9, <1>3, OthersFit
  <2> QED BY <1>2, <1>9, <2>1 DEF Fits
<1> HIDE DEF L, R, T, S
<1>10. CASE CallLeft(n)
  <2>1. pc[n] = "called" /\ T \in Lists /\ pc' = [[pc EXCEPT ![n] = "left"] EXCEPT ![L] = "called"]
    BY <1>10 DEF CallLeft, Calls, L, T
  <2>2. pc[L] = "idle" /\ pc[R] = "idle" /\ L # n /\ R # n /\ L # R
    BY <1>1, <1>3, <1>4, <1>5, <2>1
  <2>3. pc'[n] = "left" /\ pc'[L] = "called" /\ pc'[R] = "idle"
        /\ \A m \in Nodes \ {n, L} : pc'[m] = pc[m]
    BY <1>1, <1>4, <1>6, <2>1, <2>2
  <2>4. SidesFit(n)'
    BY <1>8, <2>1, <2>3
  <2> QED BY <1>4, <2>1, <2>2, <2>3, <2>4 DEF Takes, Idle
<1>11. CASE LeftReturns(n)
  <2>1. /\ pc[n] = "left" /\ pc[L] = "returned" /\ T \in Lists
        /\ \/ pc' = [[pc EXCEPT ![n] = "right"] EXCEPT ![R] = "called"]
           \/ pc' = [pc EXCEPT ![n] = "returned"]
    BY <1>5, <1>11 DEF LeftReturns, Calls, Returns, L, R
  <2>2. pc[R] = "idle" /\ L # n /\ R # n /\ L # R
    BY <1>1, <1>3, <1>4, <1>5, <2>1
  <2>3. CASE pc' = [[pc EXCEPT ![n] = "right"] EXCEPT ![R] = "called"]
    <3>1. pc'[n] = "right" /\ pc'[R] = "called" /\ pc'[L] = "returned"
          /\ \A m \in Nodes \ {n, R} : pc'[m] = pc[m]
      BY <1>1, <1>4, <1>6, <2>1, <2>2, <2>3
    <3>2. SidesFit(n)'
      BY <1>8, <2>1, <3>1
    <3> QED BY <1>4, <2>1, <2>2, <3>1, <3>2 DEF Takes, Idle
  <2>4. CASE pc' = [pc EXCEPT ![n] = "returned"]
    <3>1. pc'[n] = "returned" /\ pc'[R] = "idle" /\ pc'[L] = "returned" /\ Alone
      BY <1>1, <1>4, <1>6, <2>1, <2>2, <2>4
    <3>2. SidesFit(n)'
      BY <1>4, <1>7, <1>8, <2>1, <3>1
    <3> QED BY <3>1, <3>2
  <2> QED BY <2>1, <2>3, <2>4
<1>12. CASE RightReturns(n)
  <2>1. /\ pc[n] = "right" /\ pc[L] = "returned" /\ pc[R] = "returned" /\ T \in Lists
        /\ pc' = [pc EXCEPT ![n] = "returned"]
    BY <1>4, <1>5, <1>12 DEF RightReturns, Returns, R
  <2>2. pc'[n] = "returned" /\ pc'[R] = "returned" /\ pc'[L] = "returned" /\ Alone
    BY <1>1, <1>4, <1>6, <2>1
  <2>3. SidesFit(n)'
    BY <1>4, <1>7, <1>8, <2>1, <2>2
  <2> QED BY <2>2, <2>3
<1>13. CASE ForkLeft(n)
  <2>1. pc[n] = "called" /\ T = "PIPE" /\ pc' = [[pc EXCEPT ![n] = "forkright"] EXCEPT ![L] = "called"]
    BY <1>13 DEF ForkLeft, Calls, L, T
  <2>2. pc[L] = "idle" /\ pc[R] = "idle" /\ L # n /\ R # n /\ L # R
    BY <1>1, <1>3, <1>4, <1>5, <2>1
  <2>3. pc'[n] = "forkright" /\ pc'[L] = "called" /\ pc'[R] = "idle"
        /\ \A m \in Nodes \ {n, L} : pc'[m] = pc[m]
    BY <1>1, <1>4, <1>6, <2>1, <2>2
  <2>4. SidesFit(n)'
    BY <1>8, <2>1, <2>3
  <2> QED BY <1>4, <2>1, <2>2, <2>3, <2>4 DEF Takes, Idle
<1>14. CASE ForkRight(n)
  <2>1. pc[n] = "forkright" /\ T = "PIPE" /\ pc' = [[pc EXCEPT ![n] = "closing"] EXCEPT ![R] = "called"]
    BY <1>5, <1>14 DEF ForkRight, Calls, R
  <2>2. pc[R] = "idle" /\ R # n
    BY <1>3, <1>4, <1>5, <2>1
  <2>3. pc'[n] = "closing" /\ pc'[R] = "called"
        /\ \A m \in Nodes \ {n, R} : pc'[m] = pc[m]
    BY <1>1, <1>4, <1>6, <2>1, <2>2
  <2>4. SidesFit(n)'
    BY <1>8, <2>1, <2>3
  <2> QED BY <1>4, <2>1, <2>2, <2>3, <2>4 DEF Takes, Idle
<1>15. CASE ClosePipe(n)
  <2>1. T = "PIPE" /\ pc' = [pc EXCEPT ![n] = "waiting"]
    BY <1>5, <1>15 DEF ClosePipe
  <2>2. pc'[n] = "waiting" /\ Alone
    BY <1>1, <1>6, <2>1
  <2>3. SidesFit(n)'
    BY <1>8, <2>1, <2>2
  <2> QED BY <2>2, <2>3
<1>16. CASE WaitAny(n)
  <2>1. T = "PIPE" /\ pc[n] = "waiting"
    BY <1>5, <1>16 DEF WaitAny
  <2>2. PICK c \in S : pc[c] = "returned" /\ pc' = [pc EXCEPT ![n] = "waitpid", ![c] = "reaped"]
    BY <1>4, <1>16, <2>1 DEF WaitAny, L, R
  <2>3. pc'[n] = "waitpid" /\ pc'[c] = "reaped" /\ \A m \in Nodes \ {n, c} : pc'[m] = pc[m]
    BY <1>1, <1>6, <2>1, <2>2
  <2>4. SidesFit(n)'
    BY <1>8, <2>1, <2>3
  <2> QED BY <2>2, <2>3, <2>4 DEF Takes
<1>17. CASE WaitOther(n)
  <2>1. T = "PIPE" /\ pc[n] = "waitpid"
    BY <1>5, <1>17 DEF WaitOther
  <2>2. PICK c \in S : /\ pc[c] = "returned"
                       /\ pc' = [[pc EXCEPT ![c] = "reaped"] EXCEPT ![n] = "returned"]
    BY <1>4, <1>17, <2>1 DEF WaitOther, Returns, L, R
  <2>3. PICK d \in S : pc[d] = "reaped"
    BY <1>5, <2>1
  <2>4. /\ pc'[n] = "returned" /\ pc'[c] = "reaped"
        /\ \A m \in Nodes \ {n, c} : pc'[m] = pc[m]
    BY <1>1, <1>6, <2>1, <2>2
  <2>5. \A m \in S : pc'[m] = "reaped"
    <3>1. S = {c, d} /\ d # n /\ d # c
      BY <1>1, <1>3, <2>2, <2>3
    <3> QED BY <1>1, <2>3, <2>4, <3>1
  <2>6. SidesFit(n)'
    BY <1>8, <2>4, <2>5
  <2> QED BY <2>2, <2>4, <2>6 DEF Takes
<1>18. CASE Fork(n)
  <2>1. pc[n] = "called" /\ T \in {"SIMPLE", "SUBSHELL"} /\ pc' = [pc EXCEPT ![n] = "forked"]
    BY <1>18 DEF Fork, T
  <2>2. pc'[n] = "forked" /\ Alone /\ \A m \in S : pc'[m] = "idle"
    BY <1>1, <1>3, <1>5, <1>6, <2>1
  <2>3. SidesFit(n)'
    BY <1>8, <2>1, <2>2
  <2> QED BY <2>2, <2>3
<1>19. CASE OpenFiles(n)
  <2>1. /\ pc[n] = "forked" /\ T \in {"SIMPLE", "SUBSHELL"}
        /\ \/ pc' = [[pc EXCEPT ![n] = "inside"] EXCEPT ![L] = "called"]
           \/ pc' = [pc EXCEPT ![n] = "inside"]
    BY <1>5, <1>19 DEF OpenFiles, Calls, L
  <2>2. CASE L = 0 \/ pc' = [pc EXCEPT ![n] = "inside"]
    <3>1. 0 \notin Nodes
      BY DEF Nodes
    <3>2. pc'[n] = "inside" /\ Alone
      BY <1>1, <1>6, <2>1, <2>2, <3>1
    <3>3. SidesFit(n)'
      BY <1>8, <2>1, <3>2
    <3> QED BY <3>2, <3>3
  <2>3. CASE L # 0 /\ pc' = [[pc EXCEPT ![n] = "inside"] EXCEPT ![L] = "called"]
    <3>1. L \in S /\ pc[L] = "idle" /\ L # n
      BY <1>1, <1>3, <1>5, <2>1, <2>3
    <3>2. pc'[n] = "inside" /\ pc'[L] = "called" /\ \A m \in Nodes \ {n, L} : pc'[m] = pc[m]
      BY <1>1, <1>6, <2>3, <3>1
    <3>3. SidesFit(n)'
      BY <1>8, <2>1, <3>2
    <3> QED BY <3>1, <3>2, <3>3 DEF Takes, Idle
  <2> QED BY <2>1, <2>2, <2>3
<1>20. CASE NotFound(n) \/ RunProgram(n)
  <2>1. T = "SIMPLE" /\ \E s \in {"ended", "killed"} : pc' = [pc EXCEPT ![n] = s]
    <3>1. CASE NotFound(n)
      BY <3>1 DEF NotFound, T
    <3>2. CASE RunProgram(n)
      <4>1. T = "SIMPLE"
        BY <3>2 DEF RunProgram, T
      <4> QED BY <3>2, <4>1, ProgramEnds
    <3> QED BY <1>20, <3>1, <3>2
  <2>2. pc'[n] \in {"ended", "killed"} /\ Alone
    BY <1>1, <1>6, <2>1
  <2>3. SidesFit(n)'
    BY <1>8, <2>1, <2>2
  <2> QED BY <2>2, <2>3
<1>21. CASE WaitSimple(n)
  <2>1. T = "SIMPLE" /\ pc' = [pc EXCEPT ![n] = "returned"]
    BY <1>5, <1>21 DEF WaitSimple, Returns
  <2>2. pc'[n] = "returned" /\ Alone /\ S = {}
    BY <1>1, <1>6, <2>1
  <2>3. SidesFit(n)'
    BY <1>8, <2>1, <2>2
  <2> QED BY <2>2, <2>3
<1>22. CASE WaitSubshell(n)
  <2>1. /\ pc[L] = "returned" /\ T = "SUBSHELL"
        /\ pc' = [[pc EXCEPT ![L] = "reaped"] EXCEPT ![n] = "returned"]
    BY <1>22 DEF WaitSubshell, Returns, L, T
  <2>2. CASE L = 0
    <3>1. 0 \notin Nodes
      BY DEF Nodes
    <3>2. pc'[n] = "returned" /\ Alone /\ S = {}
      BY <1>1, <1>6, <2>1, <2>2, <3>1
    <3>3. SidesFit(n)'
      BY <1>8, <3>2
    <3> QED BY <3>2, <3>3
  <2>3. CASE L # 0
    <3>1. S = {L} /\ L # n
      BY <1>1, <1>3, <2>1, <2>3
    <3>2. pc'[n] = "returned" /\ pc'[L] = "reaped" /\ \A m \in Nodes \ {n, L} : pc'[m] = pc[m]
      BY <1>1, <1>6, <2>1, <3>1
    <3>3. SidesFit(n)'
      BY <1>8, <3>1, <3>2
    <3> QED BY <2>1, <3>1, <3>2, <3>3 DEF Takes
  <2> QED BY <2>2, <2>3
<1> QED BY <1>10, <1>11, <1>12, <1>13, <1>14, <1>15, <1>16, <1>17, <1>18, <1>19, <1>20, <1>21, <1>22
       DEF execute_command

(* A node fits its sides as long as nothing happens to it and to them.     *)
LEMMA StillFits ==
  ASSUME UNCHANGED node, NEW k, SidesFit(k), pc'[k] = pc[k],
         \A m \in Sides(node, k) : pc'[m] = pc[m]
  PROVE  SidesFit(k)'
<1>1. node' = node /\ Sides(node', k) = Sides(node, k)
  BY DEF Sides
<1>2. /\ \A m \in Sides(node', k) : (Idle(m)' <=> Idle(m)) /\ (Ended(m)' <=> Ended(m))
      /\ node[k].left # 0 => pc'[node[k].left] = pc[node[k].left]
      /\ node[k].right # 0 => pc'[node[k].right] = pc[node[k].right]
  BY <1>1 DEF Idle, Ended, Sides
<1> QED BY <1>1, <1>2 DEF SidesFit, Idle, Over

(* main calls roots and waits for them; they are on no side of a node.     *)
LEMMA RootsFit ==
  ASSUME Reading, Fitting, Fits, UNCHANGED node,
         NEW A, \A c \in A : Takes(c) /\ \E i \in DOMAIN commands : c = commands[i],
         \A m \in Nodes \ A : pc'[m] = pc[m]
  PROVE  Fits'
<1>1. \A k \in DOMAIN node : Sides(node, k) \cap A = {}
  BY DEF Reading, Roots, Orphan, Sides
<1>2. \A k \in DOMAIN node : k \in Nodes /\ \A m \in Sides(node, k) : pc'[m] = pc[m]
  BY <1>1, SidesAre
<1>3. ASSUME NEW k \in DOMAIN node
      PROVE  SidesFit(k)'
  <2>1. CASE k \in A
    BY <1>2, <2>1, CalledFits, ReapedFits DEF Takes, Fits
  <2>2. CASE k \notin A
    BY <1>2, <2>2, StillFits DEF Fits
  <2> QED BY <2>1, <2>2
<1> QED BY <1>3 DEF Fits

(* A tree grows while nothing runs it.                                     *)
SameUpTo(t, u, base) ==
  \A n \in DOMAIN u : n <= base => n \in DOMAIN t /\ u[n] = t[n]

(* Nodes that no process runs may change, apart from the others.           *)
LEMMA GrowStarted ==
  ASSUME Started, Reading', Fitting', UNCHANGED <<pc, commands, called, mode, running>>,
         Len(node) <= Len(node'), Len(node) \in Nat, NEW base \in 0..Len(node),
         \A n \in Nodes : n > base => Idle(n),
         SameUpTo(node, node', base), Apart(node', base),
         command_root' > base, parse_command' > base, subshell_root' # 0 => subshell_root' > base
  PROVE  Started'
<1>1. /\ node' \in Seq(NodeSet) /\ DOMAIN node' = 1..Len(node') /\ Len(node') \in Nat
      /\ IsTree(node')
  BY DomainIs DEF Reading
<1>2. DOMAIN node' \subseteq Nodes /\ \A n \in DOMAIN node' : Sides(node', n) \subseteq Nodes
  BY <1>1, ProgramAssumption DEF Fitting, Nodes, IsTree, Sides
<1>3. ASSUME NEW n \in DOMAIN node'
      PROVE  SidesFit(n)'
  <2>1. CASE n <= base
    <3>1. /\ n \in DOMAIN node /\ node'[n].type = node[n].type
          /\ node'[n].left = node[n].left /\ node'[n].right = node[n].right
          /\ SidesFit(n) /\ pc' = pc
      BY <2>1 DEF SameUpTo, Started, Fits
    <3>2. Sides(node', n) = Sides(node, n)
      BY <3>1 DEF Sides
    <3> QED BY <3>1, <3>2 DEF SidesFit, Idle, Ended, Over
  <2>2. CASE ~ n <= base
    <3>1. n > base
      BY <1>1, <2>2
    <3>2. Idle(n)' /\ \A m \in Sides(node', n) : Idle(m)'
      BY <1>2, <3>1 DEF Apart, Idle
    <3> QED BY <3>2 DEF SidesFit, Idle, Over
  <2> QED BY <2>1, <2>2
<1>4. \A n \in Nodes : n > Len(node') => Idle(n)'
  <2>1. \A n \in Nodes : n \in Nat
    BY ProgramAssumption DEF Nodes
  <2> QED BY <1>1, <2>1 DEF Started, Idle
<1>5. \A i \in DOMAIN commands' : Uncalled(i)' => Idle(commands[i])'
  BY DEF Started, Uncalled, Idle
<1>6. base \in 0..Len(node') /\ NewFrom(base)'
  BY <1>1 DEF NewFrom, Idle
<1>7. called' \in 0..Len(commands')
  BY DEF Started
<1>8. \E b \in 0..Len(node') : NewFrom(b)'
  BY <1>6
<1>9. Fits'
  BY <1>3 DEF Fits
<1> QED BY <1>4, <1>5, <1>7, <1>8, <1>9 DEF Started

(* The steps of read_command_stream leave the trees before apart.          *)
LEMMA BuildApart ==
  ASSUME Reading, NEW base \in 0..Len(node), NewFrom(base), BuildCommand, phase' = "build"
  PROVE  /\ Len(node) <= Len(node') /\ SameUpTo(node, node', base) /\ Apart(node', base)
         /\ command_root' > base /\ parse_command' > base
         /\ subshell_root' # 0 => subshell_root' > base
         /\ UNCHANGED commands
<1>1. phase = "build"
  BY WordStep, RedirectionStep, OperatorStep, OpenStep, CloseStep, FinishStep
     DEF BuildCommand, RedirectionCrash
<1>2. /\ node \in Seq(NodeSet) /\ IsTree(node) /\ InHand
      /\ DOMAIN node = 1..Len(node) /\ Len(node) \in Nat
  BY <1>1, HandIs
<1>3. /\ Apart(node, base) /\ command_root > base /\ parse_command > base
      /\ subshell_root # 0 => subshell_root > base
  BY DEF NewFrom
<1>4. /\ Len(node) + 1 > base /\ Len(node) + 2 > base
      /\ Len(node) + 1 # 0 /\ Len(node) + 2 # 0
  BY <1>2
<1>5. CASE ReadWord \/ \E t \in Redirections : ReadRedirection(t)
  <2>1. /\ SameSides(node, node')
        /\ \A n \in DOMAIN node \ {parse_command, subshell_root} : node'[n] = node[n]
        /\ UNCHANGED <<command_root, parse_command, is_subshell, subshell_root, commands>>
    BY <1>5, WordStep, RedirectionStep
  <2>2. /\ Len(node') = Len(node) /\ DOMAIN node' = DOMAIN node
        /\ \A n \in DOMAIN node : /\ node'[n].left = node[n].left
                                  /\ node'[n].right = node[n].right
    BY <2>1 DEF SameSides
  <2>3. SameUpTo(node, node', base)
    BY <1>2, <1>3, <2>1, <2>2 DEF SameUpTo
  <2>4. Apart(node', base)
    BY <1>3, <2>2 DEF Apart, Sides
  <2> QED BY <1>2, <1>3, <2>1, <2>2, <2>3, <2>4
<1>6. ASSUME NEW t \in Operators \cup {"SEMICOLON"}, ReadOperator(t),
             NEW p \in DOMAIN node, NEW l \in Nat, Inserted(node, node', p, l), p > base,
             UNCHANGED command_root
      PROVE  /\ Len(node) <= Len(node') /\ SameUpTo(node, node', base) /\ Apart(node', base)
             /\ command_root' > base /\ parse_command' > base
             /\ subshell_root' # 0 => subshell_root' > base
             /\ UNCHANGED commands
  <2>1. /\ parse_command' = Len(node) + 2
        /\ UNCHANGED <<is_subshell, subshell_root, commands>>
    BY <1>6, OperatorStep
  <2>2. DOMAIN node' = DOMAIN node \cup {Len(node) + 1, Len(node) + 2} /\ Len(node') = Len(node) + 2
    BY <1>2, <1>6, DomainIs, SMTT(30) DEF Inserted, TwoMore
  <2>3. /\ \A n \in DOMAIN node \ {p} : node'[n] = node[n] /\ Sides(node', n) = Sides(node, n)
        /\ Sides(node', p) \subseteq Sides(node, p) \cup {Len(node) + 1}
        /\ Sides(node', Len(node) + 1) \subseteq Sides(node, p) \cup {Len(node) + 2}
        /\ Sides(node', Len(node) + 2) = {}
    <3>1. l = node[p].left \/ l = node[p].right
      BY <1>6 DEF Inserted
    <3>2. \A n \in DOMAIN node \ {p} : node'[n] = node[n] /\ Sides(node', n) = Sides(node, n)
      BY <1>6 DEF Inserted, Sides
    <3>3. Sides(node', p) \subseteq Sides(node, p) \cup {Len(node) + 1}
      BY <1>6 DEF Inserted, Sides
    <3>4. Sides(node', Len(node) + 1) \subseteq Sides(node, p) \cup {Len(node) + 2}
      BY <1>6, <3>1 DEF Inserted, TwoMore, Sides
    <3>5. Sides(node', Len(node) + 2) = {}
      BY <1>6, FreshIs DEF Inserted, TwoMore, Sides
    <3> QED BY <3>2, <3>3, <3>4, <3>5
  <2>4. SameUpTo(node, node', base)
    BY <1>2, <1>4, <1>6, <2>2, <2>3 DEF SameUpTo
  <2>5. Apart(node', base)
    <3>1. \A n \in DOMAIN node : \A m \in Sides(node, n) : m > base <=> n > base
      BY <1>3 DEF Apart
    <3>2. \A m \in Sides(node, p) : m > base
      BY <1>6, <3>1
    <3>3. ASSUME NEW n \in DOMAIN node', NEW m \in Sides(node', n)
          PROVE  m > base <=> n > base
      BY <1>4, <1>6, <2>2, <2>3, <3>1, <3>2
    <3> QED BY <3>3 DEF Apart
  <2> QED BY <1>2, <1>3, <1>4, <1>6, <2>1, <2>2, <2>4, <2>5
<1>7. ASSUME NEW t \in Operators \cup {"SEMICOLON"}, ReadOperator(t),
             command_root' = Len(node) + 1, Rooted(node, node', command_root)
      PROVE  /\ Len(node) <= Len(node') /\ SameUpTo(node, node', base) /\ Apart(node', base)
             /\ command_root' > base /\ parse_command' > base
             /\ subshell_root' # 0 => subshell_root' > base
             /\ UNCHANGED commands
  <2>1. /\ parse_command' = Len(node) + 2
        /\ UNCHANGED <<is_subshell, subshell_root, commands>>
    BY <1>7, OperatorStep
  <2>2. DOMAIN node' = DOMAIN node \cup {Len(node) + 1, Len(node) + 2} /\ Len(node') = Len(node) + 2
    BY <1>2, <1>7, DomainIs DEF Rooted, TwoMore
  <2>3. /\ \A n \in DOMAIN node : node'[n] = node[n] /\ Sides(node', n) = Sides(node, n)
        /\ Sides(node', Len(node) + 1) \subseteq {command_root, Len(node) + 2}
        /\ Sides(node', Len(node) + 2) = {}
    BY <1>7, FreshIs DEF Rooted, TwoMore, Sides
  <2>4. SameUpTo(node, node', base)
    BY <1>2, <1>4, <2>2, <2>3 DEF SameUpTo
  <2>5. Apart(node', base)
    <3>1. \A n \in DOMAIN node : \A m \in Sides(node, n) : m > base <=> n > base
      BY <1>3 DEF Apart
    <3>2. ASSUME NEW n \in DOMAIN node', NEW m \in Sides(node', n)
          PROVE  m > base <=> n > base
      BY <1>3, <1>4, <2>2, <2>3, <3>1
    <3> QED BY <3>2 DEF Apart
  <2> QED BY <1>2, <1>3, <1>4, <1>7, <2>1, <2>2, <2>4, <2>5
<1>8. CASE \E t \in Operators \cup {"SEMICOLON"} : ReadOperator(t)
  <2>1. PICK t \in Operators \cup {"SEMICOLON"} : ReadOperator(t)
    BY <1>8
  <2>2. is_subshell = 1 => /\ subshell_root \in DOMAIN node /\ subshell_root # 0
                           /\ node[subshell_root].left \in Sides(node, subshell_root)
    BY <1>2 DEF InHand, Sides
  <2>3. is_subshell = 1 => subshell_root > base /\ node[subshell_root].left > base
    BY <1>3, <2>2 DEF Apart
  <2> QED BY <1>3, <1>6, <1>7, <2>1, <2>3, OperatorStep
<1>9. CASE OpenSubshell
  <2>1. /\ parse_command \in DOMAIN node /\ Opened(node, node', parse_command)
        /\ is_subshell' = 1 /\ subshell_root' = parse_command /\ parse_command' = Len(node) + 1
        /\ UNCHANGED <<command_root, commands>>
    BY <1>9, OpenStep
  <2>2. DOMAIN node' = DOMAIN node \cup {Len(node) + 1} /\ Len(node') = Len(node) + 1
    BY <1>2, <2>1, DomainIs DEF Opened
  <2>3. /\ \A n \in DOMAIN node \ {parse_command} :
             node'[n] = node[n] /\ Sides(node', n) = Sides(node, n)
        /\ Sides(node', parse_command) \subseteq {Len(node) + 1}
        /\ Sides(node', Len(node) + 1) = {}
    BY <2>1, FreshIs DEF Opened, Sides
  <2>4. SameUpTo(node, node', base)
    BY <1>2, <1>3, <1>4, <2>1, <2>2, <2>3 DEF SameUpTo
  <2>5. Apart(node', base)
    <3>1. \A n \in DOMAIN node : \A m \in Sides(node, n) : m > base <=> n > base
      BY <1>3 DEF Apart
    <3>2. ASSUME NEW n \in DOMAIN node', NEW m \in Sides(node', n)
          PROVE  m > base <=> n > base
      BY <1>3, <1>4, <2>1, <2>2, <2>3, <3>1
    <3> QED BY <3>2 DEF Apart
  <2> QED BY <1>2, <1>3, <1>4, <2>1, <2>2, <2>4, <2>5
<1>10. CASE CloseSubshell
  <2>1. /\ node' = node /\ command_root' = command_root /\ parse_command' = parse_command
        /\ subshell_root' = subshell_root /\ commands' = commands
    BY <1>10, CloseStep
  <2> QED BY <1>2, <1>3, <2>1 DEF SameUpTo
<1> QED BY <1>5, <1>8, <1>9, <1>10, FinishStep DEF BuildCommand, RedirectionCrash

---------------------------------------------------------------------------
(* Every step keeps the nodes fitting                                      *)

(* Nothing has been started at the start.                                  *)
LEMMA StartedInit ==
  ASSUME Init
  PROVE  Started
<1>1. node = <<>> /\ commands = <<>> /\ called = 0 /\ phase = "tokens"
      /\ pc = [n \in Nodes |-> "idle"]
  BY DEF Init, ReadInit, ExecInit
<1> QED BY <1>1 DEF Started, Fits, Idle

(* Nothing that has to do with the execution changes.                      *)
LEMMA StartedSame ==
  ASSUME Started, UNCHANGED <<node, commands, pc, called, mode, running>>,
         phase' = "build" =>
           /\ phase = "build"
           /\ UNCHANGED <<command_root, parse_command, is_subshell, subshell_root>>
  PROVE  Started'
<1>1. node' = node /\ commands' = commands /\ pc' = pc /\ called' = called /\ mode' = mode
      /\ running' = running
  OBVIOUS
<1>2. Fits'
  BY <1>1 DEF Started, Fits, SidesFit, Idle, Ended, Over, Sides
<1>3. /\ \A n \in Nodes : n > Len(node') => Idle(n)'
      /\ \A i \in DOMAIN commands' : Uncalled(i)' => Idle(commands[i])'
      /\ called' \in 0..Len(commands')
  BY <1>1 DEF Started, Idle, Uncalled
<1>4. phase' = "build" => \E base \in 0..Len(node') : NewFrom(base)'
  <2> SUFFICES ASSUME phase' = "build"
               PROVE  \E base \in 0..Len(node') : NewFrom(base)'
    OBVIOUS
  <2>1. PICK base \in 0..Len(node) : NewFrom(base)
    BY DEF Started
  <2>2. NewFrom(base)'
    BY <1>1, <2>1 DEF NewFrom, Idle, Apart, Sides
  <2> QED BY <1>1, <2>2
<1> QED BY <1>1, <1>2, <1>3, <1>4 DEF Started

(* A root that is finished has not been started.                           *)
LEMMA FinishStarted ==
  ASSUME Reading, Fitting, Started, FinishCommand, UNCHANGED <<pc, called, mode, running>>
  PROVE  Started'
<1>1. /\ phase = "build" /\ phase' = "ready" /\ commands' = Append(commands, command_root)
      /\ node' = node
  BY FinishStep
<1>2. /\ commands \in Seq(Nat) /\ command_root \in DOMAIN node /\ command_root \in Nat
      /\ command_root \in Nodes
  <2>1. /\ node \in Seq(NodeSet) /\ Roots /\ InHand
        /\ DOMAIN node = 1..Len(node) /\ Len(node) \in Nat
    BY <1>1, HandIs
  <2> QED BY <2>1, SidesAre DEF Roots, InHand
<1>3. /\ DOMAIN commands' = DOMAIN commands \cup {Len(commands) + 1}
      /\ Len(commands') = Len(commands) + 1 /\ Len(commands) \in Nat
      /\ \A i \in DOMAIN commands : commands'[i] = commands[i]
      /\ commands'[Len(commands) + 1] = command_root
  <2>1. /\ Len(commands') = Len(commands) + 1
        /\ \A i \in 1..Len(commands) : commands'[i] = commands[i]
        /\ commands'[Len(commands) + 1] = command_root
        /\ commands' \in Seq(Nat)
    BY <1>1, <1>2, AppendProperties
  <2>2. /\ DOMAIN commands = 1..Len(commands) /\ Len(commands) \in Nat
        /\ DOMAIN commands' = 1..Len(commands) + 1
    BY <1>2, <2>1, DomainIs
  <2> QED BY <2>1, <2>2
<1>4. Idle(command_root)
  BY <1>1, <1>2 DEF Started, NewFrom
<1>5. Fits'
  BY <1>1 DEF Started, Fits, SidesFit, Idle, Ended, Over, Sides
<1>6. \A i \in DOMAIN commands' : Uncalled(i)' => pc'[commands'[i]] = "idle"
  BY <1>3, <1>4 DEF Started, Uncalled, Idle
<1>7. called' \in 0..Len(commands')
  BY <1>3 DEF Started
<1>8. \A n \in Nodes : n > Len(node') => Idle(n)'
  BY <1>1 DEF Started, Idle
<1> QED BY <1>1, <1>5, <1>6, <1>7, <1>8 DEF Started, Idle

(* What main reads has not been started.                                   *)
LEMMA ReadStarted ==
  ASSUME Reading, Reading', Fitting, Fitting', Started, Read
  PROVE  Started'
<1>1. UNCHANGED <<pc, called, mode, running>>
  BY DEF Read, execVars, travelVars, mainVars
<1>2. CASE MakeStream
  BY <1>1, <1>2, MakeStreamKeeps, StartedSame DEF Reading
<1>3. CASE BuildCommand /\ phase' = "build"
  <2>1. phase = "build"
    BY <1>3, WordStep, RedirectionStep, OperatorStep, OpenStep, CloseStep, FinishStep
       DEF BuildCommand, RedirectionCrash
  <2>2. PICK base \in 0..Len(node) : NewFrom(base)
    BY <2>1 DEF Started
  <2>3. /\ Len(node) <= Len(node') /\ SameUpTo(node, node', base) /\ Apart(node', base)
        /\ command_root' > base /\ parse_command' > base
        /\ subshell_root' # 0 => subshell_root' > base
        /\ UNCHANGED commands
    BY <1>3, <2>2, BuildApart
  <2>4. Len(node) \in Nat /\ \A n \in Nodes : n > base => Idle(n)
    BY <2>1, <2>2, HandIs DEF NewFrom
  <2> QED BY <1>1, <2>3, <2>4, GrowStarted
<1>4. CASE BuildCommand /\ phase' # "build"
  <2>1. CASE FinishCommand
    BY <1>1, <2>1, FinishStarted
  <2>2. CASE RedirectionCrash
    <3>1. UNCHANGED <<node, commands>>
      BY <2>2 DEF RedirectionCrash, buildVars
    <3> QED BY <1>1, <1>4, <3>1, StartedSame
  <2> QED BY <1>4, <2>1, <2>2, WordStep, RedirectionStep, OperatorStep, OpenStep, CloseStep
          DEF BuildCommand
<1>5. CASE StartCommand
  <2>1. /\ OneMore(node, node') /\ command_root' = Len(node) + 1
        /\ parse_command' = Len(node) + 1 /\ subshell_root' = 0 /\ UNCHANGED commands
    BY <1>5, StartStep
  <2>2. /\ node \in Seq(NodeSet) /\ IsTree(node) /\ DOMAIN node = 1..Len(node)
        /\ Len(node) \in Nat
    BY DomainIs DEF Reading
  <2>3. DOMAIN node' = 1..Len(node) + 1 /\ Len(node') = Len(node) + 1
    BY <2>1, <2>2, OneMoreKeeps DEF OneMore
  <2>4. /\ \A n \in DOMAIN node : node'[n] = node[n] /\ Sides(node', n) = Sides(node, n)
        /\ Sides(node', Len(node) + 1) = {}
    BY <2>1, FreshIs DEF OneMore, Sides
  <2>5. SameUpTo(node, node', Len(node))
    BY <2>2, <2>3, <2>4 DEF SameUpTo
  <2>6. Apart(node', Len(node))
    <3>1. \A n \in DOMAIN node : \A m \in Sides(node, n) : m \in 0..Len(node)
      BY <2>2 DEF IsTree, Sides
    <3> QED BY <2>2, <2>3, <2>4, <3>1 DEF Apart
  <2>7. \A n \in Nodes : n > Len(node) => Idle(n)
    BY DEF Started
  <2>8. Len(node) \in 0..Len(node) /\ Len(node) <= Len(node') /\ Len(node) + 1 > Len(node)
    BY <2>2, <2>3
  <2> QED BY <1>1, <2>1, <2>2, <2>5, <2>6, <2>7, <2>8, GrowStarted
<1> QED BY <1>2, <1>3, <1>4, <1>5 DEF Read

(* A root is a node, and different commands are different roots.           *)
LEMMA RootIs ==
  ASSUME Reading, Fitting, NEW i \in DOMAIN commands
  PROVE  /\ commands[i] \in DOMAIN node /\ commands[i] \in Nodes /\ commands[i] # 0
         /\ ~ commands[i] > Len(node)
         /\ \A n \in DOMAIN node : commands[i] # node[n].left /\ commands[i] # node[n].right
         /\ \A j \in DOMAIN commands : commands[j] = commands[i] => j = i
<1>1. commands[i] \in DOMAIN node
  BY DEF Reading, Roots
<1>2. DOMAIN node = 1..Len(node) /\ Len(node) \in Nat
  BY DomainIs DEF Reading
<1>3. commands[i] # 0 /\ ~ commands[i] > Len(node)
  BY <1>1, <1>2
<1> QED BY <1>1, <1>3, SidesAre DEF Reading, Roots, Orphan

(* main calls the next command when the last one is over.                  *)
LEMMA ExecuteStarted ==
  ASSUME Reading, Fitting, Executing, Started, Execute
  PROVE  Started'
<1> DEFINE c == called + 1
           k == commands[c]
<1>1. /\ mode = "serial" /\ phase' = "running" /\ called < Len(commands) /\ called' = c
      /\ pc' = [pc EXCEPT ![k] = "called"] /\ UNCHANGED <<node, commands, mode, running>>
  BY DEF Execute, Calls, buildVars, travelVars
<1>2. called \in 0..Len(commands) /\ Len(commands) \in Nat /\ DOMAIN commands = 1..Len(commands)
  BY DomainIs DEF Started, Reading, Roots
<1>3. c \in DOMAIN commands /\ c \in 0..Len(commands) /\ c > called
  BY <1>1, <1>2
<1> HIDE DEF c
<1>4. k \in DOMAIN node /\ k \in Nodes /\ ~ k > Len(node)
      /\ \A j \in DOMAIN commands : commands[j] = k => j = c
  BY <1>3, RootIs
<1>5. Idle(k)
  BY <1>1, <1>3 DEF Started, Uncalled
<1>6. pc'[k] = "called" /\ \A m \in Nodes \ {k} : pc'[m] = pc[m]
  BY <1>1, <1>4 DEF Executing
<1>7. Fits'
  <2> DEFINE A == {k}
  <2>1. \A x \in A : Takes(x) /\ \E i \in DOMAIN commands : x = commands[i]
    BY <1>3, <1>5, <1>6 DEF Takes
  <2>2. \A m \in Nodes \ A : pc'[m] = pc[m]
    BY <1>6
  <2> HIDE DEF A
  <2> QED BY <1>1, <2>1, <2>2, RootsFit DEF Started
<1>8. \A n \in Nodes : n > Len(node) => pc'[n] = "idle"
  BY <1>4, <1>6 DEF Started, Idle
<1>9. ASSUME NEW i \in DOMAIN commands, i > c
      PROVE  pc'[commands[i]] = "idle"
  <2>1. i # c /\ i > called
    BY <1>2, <1>3, <1>9
  <2>2. commands[i] # k /\ commands[i] \in Nodes
    BY <1>4, <2>1, RootIs
  <2>3. Idle(commands[i])
    BY <1>1, <2>1 DEF Started, Uncalled
  <2> QED BY <1>6, <2>2, <2>3 DEF Idle
<1> QED BY <1>1, <1>3, <1>7, <1>8, <1>9 DEF Started, Uncalled, Idle

(* A process that runs a command takes a step.                             *)
LEMMA ProcessStarted ==
  ASSUME Reading, Fitting, Executing, SidesAreThere, Started, Process
  PROVE  Started'
<1>1. PICK n \in DOMAIN node : execute_command(n)
  BY DEF Process
<1>2. /\ node' = node /\ commands' = commands /\ phase' = phase /\ called' = called
      /\ mode' = mode /\ running' = running
      /\ command_root' = command_root /\ parse_command' = parse_command
      /\ is_subshell' = is_subshell /\ subshell_root' = subshell_root
  BY DEF Process, readVars, buildVars, travelVars, mainVars
<1>3. /\ ~Idle(n) /\ \A m \in Nodes \ {n, node[n].left, node[n].right} : pc'[m] = pc[m]
  BY <1>1, StepPlaces
<1>4. Fits'
  BY <1>1, <1>2, StepFits DEF Started
<1>5. /\ node \in Seq(NodeSet) /\ IsTree(node) /\ DOMAIN node = 1..Len(node)
      /\ Len(node) \in Nat
  BY DomainIs DEF Reading
<1>6. node[n].left \in 0..Len(node) /\ node[n].right \in 0..Len(node)
  BY <1>5 DEF IsTree
<1>7. ASSUME NEW m \in Nodes, m > Len(node)
      PROVE  pc'[m] = "idle"
  <2>1. m # n /\ m # node[n].left /\ m # node[n].right
    BY <1>5, <1>6, <1>7
  <2> QED BY <1>3, <1>7, <2>1 DEF Started, Idle
<1>8. ASSUME NEW i \in DOMAIN commands, Uncalled(i)
      PROVE  pc'[commands[i]] = "idle"
  <2>1. Idle(commands[i])
    BY <1>8 DEF Started
  <2>2. commands[i] \in Nodes \ {n, node[n].left, node[n].right}
    BY <1>3, <2>1, RootIs
  <2> QED BY <1>3, <2>1, <2>2 DEF Idle
<1>9. ASSUME phase = "build"
      PROVE  \E base \in 0..Len(node) : NewFrom(base)'
  <2>1. PICK base \in 0..Len(node) : NewFrom(base)
    BY <1>9 DEF Started
  <2>2. n \in Nodes
    BY SidesAre
  <2>3. ~ n > base
    BY <1>3, <2>1, <2>2 DEF NewFrom
  <2>4. \A m \in Sides(node, n) : ~ m > base
    BY <2>1, <2>3 DEF NewFrom, Apart
  <2>5. ASSUME NEW m \in Nodes, m > base
        PROVE  pc'[m] = "idle"
    <3>1. m # 0
      BY DEF Nodes
    <3>2. m \notin {n, node[n].left, node[n].right}
      BY <2>3, <2>4, <2>5, <3>1 DEF Sides
    <3> QED BY <1>3, <2>1, <2>5, <3>2 DEF NewFrom, Idle
  <2>6. NewFrom(base)'
    BY <1>2, <2>1, <2>5 DEF NewFrom, Idle
  <2> QED BY <2>6
<1>10. called' \in 0..Len(commands')
  BY <1>2 DEF Started
<1>11. \A i \in DOMAIN commands' : Uncalled(i)' => Idle(commands[i])'
  BY <1>2, <1>8 DEF Uncalled, Idle
<1>12. phase' = "build" => \E base \in 0..Len(node') : NewFrom(base)'
  BY <1>2, <1>9
<1>13. \A m \in Nodes : m > Len(node') => Idle(m)'
  BY <1>2, <1>7 DEF Idle
<1> QED BY <1>2, <1>4, <1>10, <1>11, <1>12, <1>13 DEF Started

(* execute_tcmd starts and reaps roots only.                               *)
LEMMA TravelStarted ==
  ASSUME Reading, Fitting, Executing, Traveling, Started, Travel
  PROVE  Started'
<1>1. /\ node' = node /\ commands' = commands /\ phase' = phase /\ called' = called
      /\ mode' = mode /\ mode = "travel" /\ phase # "build"
  BY DEF Travel, readVars, buildVars, mainVars, AllRead
<1>2. /\ \A n \in Nodes : n > Len(node) => pc[n] = "idle"
      /\ \A i \in DOMAIN commands : i \notin running => pc[commands[i]] = "idle"
      /\ Fits /\ called \in 0..Len(commands)
  BY <1>1 DEF Started, Uncalled, Idle
<1>3. CASE UNCHANGED <<pc, running>>
  BY <1>1, <1>3, StartedSame
<1>4. CASE StartReady
  <2>1. PICK ready : /\ ready = {i \in DOMAIN commands : W[i] = 0 /\ i \notin running}
                     /\ running' = running \cup ready
                     /\ pc' = [n \in Nodes |-> IF \E i \in ready : commands[i] = n
                                               THEN "called" ELSE pc[n]]
    BY <1>4 DEF StartReady
  <2> DEFINE A == {commands[i] : i \in ready}
  <2>2. \A c \in A : Takes(c) /\ \E i \in DOMAIN commands : c = commands[i]
    <3>1. ASSUME NEW i \in ready
          PROVE  Takes(commands[i]) /\ i \in DOMAIN commands
      <4>1. i \in DOMAIN commands /\ pc[commands[i]] = "idle"
        BY <1>2, <2>1
      <4>2. commands[i] \in Nodes
        BY <4>1, RootIs
      <4>3. pc'[commands[i]] = "called"
        BY <2>1, <4>2
      <4> QED BY <4>1, <4>3 DEF Takes, Idle
    <3> QED BY <3>1
  <2>3. \A m \in Nodes \ A : pc'[m] = pc[m]
    BY <2>1
  <2>4. Fits'
    <3> HIDE DEF A
    <3> QED BY <1>1, <1>2, <2>2, <2>3, RootsFit
  <2>5. ASSUME NEW n \in Nodes, n > Len(node)
        PROVE  pc'[n] = "idle"
    <3>1. n \notin A
      BY <2>1, <2>5, RootIs
    <3> QED BY <1>2, <2>3, <2>5, <3>1
  <2>6. ASSUME NEW i \in DOMAIN commands, i \notin running'
        PROVE  pc'[commands[i]] = "idle"
    <3>1. i \notin running /\ i \notin ready
      BY <2>1, <2>6
    <3>2. commands[i] \in Nodes \ A
      BY <2>1, <3>1, RootIs
    <3> QED BY <1>2, <2>3, <3>1, <3>2
  <2> QED BY <1>1, <1>2, <2>4, <2>5, <2>6 DEF Started, Uncalled, Idle
<1>5. CASE \E i \in DOMAIN commands : ReapChild(i)
  <2>1. PICK i \in DOMAIN commands : ReapChild(i)
    BY <1>5
  <2>2. /\ i \in running /\ pc[commands[i]] = "returned" /\ running' = running
        /\ pc' = [pc EXCEPT ![commands[i]] = "reaped"]
    BY <2>1 DEF ReapChild
  <2>3. commands[i] \in Nodes /\ ~ commands[i] > Len(node)
        /\ \A j \in DOMAIN commands : commands[j] = commands[i] => j = i
    BY RootIs
  <2>4. pc'[commands[i]] = "reaped" /\ \A m \in Nodes \ {commands[i]} : pc'[m] = pc[m]
    BY <2>2, <2>3 DEF Executing
  <2>5. Fits'
    <3> DEFINE A == {commands[i]}
    <3>1. \A c \in A : Takes(c) /\ \E j \in DOMAIN commands : c = commands[j]
      BY <2>2, <2>4 DEF Takes
    <3>2. \A m \in Nodes \ A : pc'[m] = pc[m]
      BY <2>4
    <3> HIDE DEF A
    <3> QED BY <1>1, <1>2, <3>1, <3>2, RootsFit
  <2>6. \A n \in Nodes : n > Len(node) => pc'[n] = "idle"
    BY <1>2, <2>3, <2>4
  <2>7. ASSUME NEW j \in DOMAIN commands, j \notin running
        PROVE  pc'[commands[j]] = "idle"
    <3>1. commands[j] \in Nodes /\ commands[j] # commands[i]
      BY <2>2, <2>3, <2>7, RootIs
    <3> QED BY <1>2, <2>4, <2>7, <3>1
  <2> QED BY <1>1, <1>2, <2>2, <2>5, <2>6, <2>7 DEF Started, Uncalled, Idle
<1> QED BY <1>3, <1>4, <1>5
        DEF Travel, execute_timetravel_cmd, BuildGraph, NoChild, AllStarted, execVars

(* Every step of the shell.                                                *)
LEMMA StartedNext ==
  ASSUME Reading, Executing, Traveling, Fitting, Fitting', SidesAreThere, Started, [Next]_vars
  PROVE  Started'
<1>1. Reading'
  BY ReadingNext
<1>2. CASE Executed
  <2>1. UNCHANGED <<node, commands, pc, called, mode, running>> /\ phase' = "ready"
    BY <1>2 DEF Executed, buildVars, execVars, travelVars, mainVars
  <2> QED BY <2>1, StartedSame
<1>3. CASE Stop \/ Return \/ Gone \/ UNCHANGED vars
  <2>1. /\ UNCHANGED <<node, commands, pc, called, mode, running>>
        /\ UNCHANGED <<command_root, parse_command, is_subshell, subshell_root>>
        /\ phase' = phase
    BY <1>3 DEF Stop, Return, Gone, vars, readVars, buildVars, execVars, travelVars, mainVars
  <2> QED BY <2>1, StartedSame
<1> QED BY <1>1, <1>2, <1>3, ReadStarted, ExecuteStarted, ProcessStarted, TravelStarted DEF Next

(* As long as a script has no more nodes than there are, and no process    *)
(* runs a command that lacks a side, every process forked below a command  *)
(* has ended and been waited for when execute_command returns, so that a   *)
(* later wait() can only find the right child (execute_pipe_command,       *)
(* execute_subshell_command, execute_tcmd).                                *)
THEOREM ChildrenWaitedForCorrect ==
  Spec /\ []Fitting /\ []SidesAreThere => []EveryChildWaitedFor
<1> DEFINE Inv == Reading /\ Executing /\ Traveling /\ Acyclic(node) /\ Started
           Given == Fitting /\ SidesAreThere
<1>1. Init => Inv
  BY ReadingInit, ExecutingInit, TravelingInit, AcyclicInit, StartedInit
<1>2. Inv /\ Given /\ Given' /\ [Next]_vars => Inv'
  <2> SUFFICES ASSUME Inv, Given, Given', [Next]_vars
               PROVE  Inv'
    OBVIOUS
  <2>1. Reading' /\ Executing' /\ Traveling' /\ Acyclic(node')
    BY ReadingNext, ExecutingNext, TravelingNext, AcyclicNext
  <2>2. Started'
    BY StartedNext
  <2> QED BY <2>1, <2>2
<1>3. Inv /\ Given => EveryChildWaitedFor
  <2> SUFFICES ASSUME Inv, Given, NEW n \in DOMAIN node, Over(n)
               PROVE  /\ \A m \in Below[n] : pc[m] \in {"idle", "returned", "reaped"}
                      /\ node[n].type \in {"PIPE", "SUBSHELL"} =>
                           \A m \in {node[n].left, node[n].right} \ {0} : pc[m] = "reaped"
    BY DEF EveryChildWaitedFor
  <2> DEFINE G == {m \in DOMAIN node : Ended(m)}
  <2>1. \A m \in G : m \in DOMAIN node /\ Sides(node, m) \subseteq G
    BY SidesAre DEF Started, Fits, SidesFit, Idle, Over, Ended
  <2>2. Below[n] \subseteq G
    <3>1. n \in G
      BY DEF Over, Ended
    <3> HIDE DEF G
    <3> QED BY <2>1, <3>1, Downward DEF Reading
  <2>3. node[n].type \in {"PIPE", "SUBSHELL"} => \A m \in Sides(node, n) : pc[m] = "reaped"
    BY DEF Started, Fits, SidesFit
  <2> QED BY <2>2, <2>3 DEF Ended, Sides
<1> HIDE DEF Inv
<1>4. []Given <=> []Fitting /\ []SidesAreThere
  BY PTL DEF Given
<1> QED BY <1>1, <1>2, <1>3, <1>4, PTL DEF Spec

---------------------------------------------------------------------------
(* The grammar check: what is checked of each token                        *)

(* A set of numbers has a least one.                                       *)
LEMMA LeastIs ==
  ASSUME NEW S \in SUBSET Nat, S # {}
  PROVE  Least(S) \in S /\ \A j \in S : Least(S) <= j
<1>1. IsWellFoundedOn(OpToRel(<, Nat), Nat)
  BY NatLessThanWellFounded
<1>2. PICK x \in S : \A y \in S : <<y, x>> \notin OpToRel(<, Nat)
  BY <1>1, WFMin
<1>3. \A y \in S : ~ y < x
  BY <1>2 DEF OpToRel
<1>4. \A y \in S : x <= y
  BY <1>3
<1> QED BY <1>4 DEF Least

(* The same tokens are at the same places.                                 *)
LEMMA TokensSame ==
  ASSUME UNCHANGED <<stream, first>>
  PROVE  /\ \A i : TokenAt(i)' = TokenAt(i) /\ (EndsOperand(i)' <=> EndsOperand(i))
                   /\ (StartsOperand(i)' <=> StartsOperand(i)) /\ (Checked(i)' <=> Checked(i))
         /\ find_stream_start' = find_stream_start /\ find_stream_end' = find_stream_end
<1>1. stream' = stream /\ first' = first
  OBVIOUS
<1>2. \A i : TokenAt(i)' = TokenAt(i)
  BY <1>1 DEF TokenAt
<1>3. \A i : (EndsOperand(i)' <=> EndsOperand(i)) /\ (StartsOperand(i)' <=> StartsOperand(i))
  BY <1>2 DEF EndsOperand, StartsOperand
<1>4. \A i : Checked(i)' <=> Checked(i)
  BY <1>2, <1>3 DEF Checked
<1>5. find_stream_start' = find_stream_start /\ find_stream_end' = find_stream_end
  BY <1>1, <1>2 DEF find_stream_start, find_stream_end
<1> QED BY <1>2, <1>3, <1>4, <1>5

(* What has been checked stays so as long as a newline stays one beside it.*)
LEMMA StillChecked ==
  ASSUME NEW i, Checked(i), TokenAt(i)' = TokenAt(i),
         TokenAt(i) \in Operators \cup Redirections \cup {"SEMICOLON"} =>
           (EndsOperand(i - 1) => EndsOperand(i - 1)'),
         TokenAt(i) \in Operators =>
           \/ TokenAt(i + 1)' = TokenAt(i + 1)
           \/ TokenAt(i + 1) \in Newlines /\ TokenAt(i + 1)' \in Newlines
  PROVE  Checked(i)'
BY DEF Checked, StartsOperand

(* The first token of a command is no operator, and not its end.           *)
LEMMA StartIs ==
  ASSUME stream \in Seq(Tokens), first \in Nat,
         \A i \in DOMAIN stream : i < first => TokenAt(i) \in Newlines \cup {"NULL"},
         find_stream_start # find_stream_end
  PROVE  /\ find_stream_start \in DOMAIN stream /\ find_stream_start \in Nat
         /\ first <= find_stream_start /\ TokenAt(find_stream_start) \notin {"NULL", "ENDCMD"}
         /\ \A i \in DOMAIN stream : i < find_stream_start => TokenAt(i) \in Newlines \cup {"NULL"}
         /\ ~EndsOperand(find_stream_start - 1)
<1> DEFINE s == find_stream_start
           A == {i \in first..Len(stream) : TokenAt(i) # "NULL"}
           E == {i \in first..Len(stream) : TokenAt(i) = "ENDCMD"}
<1>1. s = Least(A) /\ find_stream_end = Least(E)
  BY DEF find_stream_start, find_stream_end
<1>2. DOMAIN stream = 1..Len(stream) /\ Len(stream) \in Nat
  BY DomainIs
<1>3. A \in SUBSET Nat /\ E \in SUBSET Nat /\ E \subseteq A
  BY <1>2
<1>4. A # {}
  <2> SUFFICES ASSUME A = {}
               PROVE  FALSE
    OBVIOUS
  <2>1. E = A
    BY <1>3
  <2> HIDE DEF A, E
  <2> QED BY <1>1, <2>1
<1>5. s \in A /\ \A j \in A : s <= j
  <2> HIDE DEF A, E, s
  <2> QED BY <1>1, <1>3, <1>4, LeastIs
<1>6. s \in Nat /\ first <= s /\ s <= Len(stream) /\ TokenAt(s) # "NULL"
  <2> HIDE DEF s
  <2> QED BY <1>2, <1>5
<1>7. s \in DOMAIN stream
  <2> HIDE DEF s
  <2> QED BY <1>6 DEF TokenAt
<1>8. TokenAt(s) # "ENDCMD"
  <2> SUFFICES ASSUME TokenAt(s) = "ENDCMD"
               PROVE  FALSE
    OBVIOUS
  <2> HIDE DEF s
  <2>1. s \in E /\ \A j \in E : s <= j
    BY <1>2, <1>3, <1>5, <1>6
  <2>2. Least(E) \in E /\ \A j \in E : Least(E) <= j
    <3> HIDE DEF E
    <3> QED BY <1>3, <2>1, LeastIs
  <2>3. Least(E) = s
    <3> HIDE DEF E
    <3>1. Least(E) <= s /\ s <= Least(E) /\ Least(E) \in Nat /\ s \in Nat
      BY <1>3, <2>1, <2>2
    <3> QED BY <3>1
  <2> QED BY <1>1, <2>3 DEF s
<1>9. ASSUME NEW i \in DOMAIN stream, i < s
      PROVE  TokenAt(i) \in Newlines \cup {"NULL"}
  <2> HIDE DEF s
  <2>1. CASE i < first
    BY <2>1
  <2>2. CASE ~ i < first
    <3>1. i \in first..Len(stream) /\ i \notin A
      BY <1>2, <1>5, <1>6, <1>9, <2>2
    <3> QED BY <3>1
  <2> QED BY <2>1, <2>2
<1>10. ~EndsOperand(s - 1)
  <2> HIDE DEF s
  <2>1. s - 1 \in DOMAIN stream => TokenAt(s - 1) \in Newlines \cup {"NULL"}
    BY <1>6, <1>9
  <2> QED BY <2>1 DEF EndsOperand, TokenAt, Newlines
<1> QED BY <1>6, <1>7, <1>8, <1>9, <1>10

(* The checking loop comes to the end of the stream one token at a time.   *)
LEMMA CheckTokenChecks ==
  ASSUME Reading, Grammatical, CheckToken
  PROVE  Grammatical'
<1>1. /\ phase = "grammar" /\ phase' = "grammar" /\ at' = at + 1 /\ at <= Len(stream)
      /\ first' = first /\ ~WrongSyntax(at)
      /\ stream' = IF TokenAt(at) = "HALFENDCMD"
                   THEN [stream EXCEPT ![at] = Token("ENDCMD", NoWord)] ELSE stream
  BY DEF CheckToken
<1>2. /\ at \in Nat /\ \A i \in DOMAIN stream : i < at => Checked(i)
      /\ first \in Nat
      /\ \A i \in DOMAIN stream : i < first => TokenAt(i) \in Newlines \cup {"NULL"}
  BY <1>1 DEF Grammatical
<1>3. /\ stream \in Seq(Tokens) /\ DOMAIN stream = 1..Len(stream) /\ Len(stream) \in Nat
  BY DomainIs DEF Reading
<1>4. /\ DOMAIN stream' = DOMAIN stream
      /\ \A i : TokenAt(i)' = IF i = at /\ TokenAt(at) = "HALFENDCMD" THEN "ENDCMD" ELSE TokenAt(i)
  <2>1. CASE TokenAt(at) = "HALFENDCMD"
    <3> DEFINE k == Token("ENDCMD", NoWord)
    <3>1. stream' = [stream EXCEPT ![at] = k] /\ k.token = "ENDCMD"
      BY <1>1, <2>1 DEF Token
    <3>2. at \in DOMAIN stream
      BY <2>1 DEF TokenAt
    <3> HIDE DEF k
    <3>3. DOMAIN stream' = DOMAIN stream
      BY <3>1
    <3>4. \A i \in DOMAIN stream : stream'[i] = IF i = at THEN k ELSE stream[i]
      BY <3>1
    <3> QED BY <2>1, <3>1, <3>2, <3>3, <3>4 DEF TokenAt
  <2>2. CASE TokenAt(at) # "HALFENDCMD"
    BY <1>1, <2>2 DEF TokenAt
  <2> QED BY <2>1, <2>2
<1>5. \A i : EndsOperand(i) => EndsOperand(i)'
  BY <1>4 DEF EndsOperand
<1>6. \A i : \/ TokenAt(i)' = TokenAt(i)
             \/ TokenAt(i) \in Newlines /\ TokenAt(i)' \in Newlines
  BY <1>4 DEF Newlines
<1>7. ASSUME NEW i \in DOMAIN stream, i < at
      PROVE  Checked(i)'
  <2>1. i # at /\ Checked(i)
    BY <1>2, <1>3, <1>7
  <2>2. TokenAt(i)' = TokenAt(i)
    BY <1>4, <2>1
  <2> QED BY <1>5, <1>6, <2>1, <2>2, StillChecked
<1>8. ASSUME NEW i \in DOMAIN stream, i = at
      PROVE  Checked(i)'
  <2>1. CASE TokenAt(i) = "HALFENDCMD"
    BY <1>4, <1>8, <2>1 DEF Checked, Operators, Redirections
  <2>2. CASE TokenAt(i) # "HALFENDCMD"
    <3>1. TokenAt(i)' = TokenAt(i)
      BY <1>4, <1>8, <2>2
    <3>2. /\ TokenAt(i) \in Operators => ~check_twosides(i) /\ EndsOperand(i - 1)
          /\ TokenAt(i) \in Redirections => ~check_twosides(i)
          /\ TokenAt(i) = "SEMICOLON" => EndsOperand(i - 1)
          /\ TokenAt(i) # "HALFAND"
      BY <1>1, <1>8 DEF WrongSyntax
    <3>3. ~check_twosides(i) => /\ EndsOperand(i - 1) \/ TokenAt(i - 1) = "HALFENDCMD"
                                /\ StartsOperand(i + 1) \/ TokenAt(i + 1) = "HALFENDCMD"
      BY DEF check_twosides
    <3>4. TokenAt(i - 1) # "HALFENDCMD"
      <4>1. CASE i - 1 \in DOMAIN stream
        BY <1>2, <1>3, <1>8, <4>1 DEF Checked
      <4>2. CASE i - 1 \notin DOMAIN stream
        BY <4>2 DEF TokenAt
      <4> QED BY <4>1, <4>2
    <3>5. Checked(i)
      BY <2>2, <3>2, <3>3, <3>4 DEF Checked, Newlines
    <3> QED BY <1>5, <1>6, <3>1, <3>5, StillChecked
  <2> QED BY <2>1, <2>2
<1>9. \A i \in DOMAIN stream' : i < at' => Checked(i)'
  BY <1>1, <1>2, <1>3, <1>4, <1>7, <1>8
<1>10. \A i \in DOMAIN stream' : i < first' => TokenAt(i)' \in Newlines \cup {"NULL"}
  BY <1>1, <1>2, <1>4, <1>6
<1> QED BY <1>1, <1>2, <1>9, <1>10 DEF Grammatical

(* make_command_stream reads, then checks.                                 *)
LEMMA MakeStreamChecks ==
  ASSUME Reading, Grammatical, MakeStream
  PROVE  Grammatical'
<1>1. CASE phase' \in {"tokens", "error"}
  <2>1. phase = "tokens" \/ phase' = "error"
    BY <1>1 DEF MakeStream, SkipComment, ReadCharacter, RejectCharacter, ReportError, EndOfFile,
                CheckToken, GrammarDone, RejectGrammar
  <2>2. phase = "tokens" => first = 1
    BY DEF Grammatical
  <2>3. phase' = "tokens" => first' = first
    BY DEF MakeStream, SkipComment, ReadCharacter, RejectCharacter, ReportError, EndOfFile,
           CheckToken, GrammarDone, RejectGrammar
  <2> QED BY <1>1, <2>1, <2>2, <2>3 DEF Grammatical
<1>2. CASE EndOfFile
  <2>1. /\ phase' = "grammar" /\ at' = 1
        /\ first' = IF TokenAt(1) \in Newlines THEN 2 ELSE 1
        /\ stream' = IF Last = "HALFENDCMD" THEN Becomes("ENDCMD", NoWord) ELSE stream
    BY <1>2 DEF EndOfFile
  <2>2. /\ stream \in Seq(Tokens) /\ DOMAIN stream = 1..Len(stream) /\ Len(stream) \in Nat
    BY DomainIs DEF Reading
  <2>3. /\ DOMAIN stream' = DOMAIN stream
        /\ TokenAt(1) \in Newlines => TokenAt(1)' \in Newlines
    <3>1. CASE Last = "HALFENDCMD"
      <4> DEFINE k == Token("ENDCMD", NoWord)
      <4>1. stream' = [stream EXCEPT ![Len(stream)] = k] /\ k.token = "ENDCMD"
        BY <2>1, <3>1 DEF Token, Becomes
      <4> HIDE DEF k
      <4>2. DOMAIN stream' = DOMAIN stream
        BY <4>1
      <4>3. \A i \in DOMAIN stream : stream'[i] = IF i = Len(stream) THEN k ELSE stream[i]
        BY <4>1
      <4>4. \A i \in DOMAIN stream : stream'[i].token \in {stream[i].token, "ENDCMD"}
        BY <4>1, <4>3
      <4> QED BY <4>2, <4>4 DEF TokenAt, Newlines
    <3>2. CASE Last # "HALFENDCMD"
      BY <2>1, <3>2 DEF TokenAt
    <3> QED BY <3>1, <3>2
  <2>4. \A i \in DOMAIN stream' : ~ i < 1
    BY <2>2, <2>3
  <2>5. \A i \in DOMAIN stream' : i < first' => TokenAt(i)' \in Newlines \cup {"NULL"}
    <3>1. \A i \in DOMAIN stream' : i < first' => i = 1 /\ TokenAt(1) \in Newlines
      BY <2>1, <2>2, <2>3
    <3> QED BY <2>3, <3>1
  <2> QED BY <2>1, <2>4, <2>5 DEF Grammatical
<1>3. CASE CheckToken
  BY <1>3, CheckTokenChecks
<1>4. CASE GrammarDone
  <2>1. /\ phase = "grammar" /\ at > Len(stream) /\ phase' = "ready"
        /\ UNCHANGED <<stream, first>>
    BY <1>4 DEF GrammarDone
  <2>2. /\ at \in Nat /\ \A i \in DOMAIN stream : i < at => Checked(i)
        /\ first \in Nat
        /\ \A i \in DOMAIN stream : i < first => TokenAt(i) \in Newlines \cup {"NULL"}
    BY <2>1 DEF Grammatical
  <2>3. /\ DOMAIN stream = 1..Len(stream) /\ Len(stream) \in Nat
    BY DomainIs DEF Reading
  <2>4. \A i \in DOMAIN stream : Checked(i)
    BY <2>1, <2>2, <2>3
  <2> QED BY <2>1, <2>2, <2>4, TokensSame DEF Grammatical
<1> QED BY <1>1, <1>2, <1>3, <1>4
        DEF MakeStream, SkipComment, ReadCharacter, RejectCharacter, ReportError, RejectGrammar

(* A command is finished at its first ENDCMD, and its tokens are cleared.  *)
LEMMA FinishIs ==
  ASSUME Reading, Grammatical, Built, FinishCommand
  PROVE  /\ at = end /\ at # find_stream_start /\ TokenAt(end) = "ENDCMD"
         /\ first \in Nat /\ first <= find_stream_start /\ find_stream_start \in Nat /\ end \in Nat
         /\ find_stream_start \in DOMAIN stream /\ end \in DOMAIN stream
         /\ \A i \in DOMAIN stream : i < find_stream_start => TokenAt(i) \in Newlines \cup {"NULL"}
         /\ DOMAIN stream \subseteq DOMAIN stream'
         /\ \A i \in DOMAIN stream' :
              TokenAt(i)' = IF i \notin DOMAIN stream THEN "ENDCMD"
                            ELSE IF i \in find_stream_start..end THEN "NULL" ELSE TokenAt(i)
<1>1. /\ phase = "build" /\ at <= end /\ TokenAt(at) = "ENDCMD"
      /\ stream' = [i \in 1..(IF end = Len(stream) THEN end + 1 ELSE Len(stream)) |->
                    CASE i > Len(stream) -> Token("ENDCMD", NoWord)
                      [] i \in find_stream_start..end -> Token("NULL", NoWord)
                      [] OTHER -> stream[i]]
  BY DEF FinishCommand, Building
<1>2. /\ stream \in Seq(Tokens) /\ DOMAIN stream = 1..Len(stream) /\ Len(stream) \in Nat
  BY DomainIs DEF Reading
<1>3. /\ find_stream_start # find_stream_end /\ end = find_stream_end
      /\ at \in Nat /\ first <= at
  BY <1>1 DEF Built
<1>4. /\ first \in Nat
      /\ \A i \in DOMAIN stream : i < first => TokenAt(i) \in Newlines \cup {"NULL"}
  BY <1>1 DEF Grammatical
<1>5. /\ find_stream_start \in DOMAIN stream /\ find_stream_start \in Nat
      /\ first <= find_stream_start
      /\ \A i \in DOMAIN stream : i < find_stream_start => TokenAt(i) \in Newlines \cup {"NULL"}
  BY <1>2, <1>3, <1>4, StartIs
<1>6. at = end
  <2> DEFINE S == {i \in first..Len(stream) : TokenAt(i) = "ENDCMD"}
  <2>1. end = Least(S)
    BY <1>3 DEF find_stream_end
  <2>2. at \in DOMAIN stream
    BY <1>1 DEF TokenAt
  <2>3. at \in S /\ S \in SUBSET Nat
    BY <1>1, <1>2, <1>3, <1>4, <2>2
  <2> HIDE DEF S
  <2>4. end \in Nat /\ end <= at
    BY <2>1, <2>3, LeastIs
  <2> QED BY <1>1, <1>3, <2>4
<1>7. at # find_stream_start /\ end \in DOMAIN stream /\ end \in Nat
  BY <1>1, <1>3, <1>6 DEF TokenAt
<1> DEFINE k == IF end = Len(stream) THEN end + 1 ELSE Len(stream)
           s == find_stream_start
<1>8. /\ k \in Nat /\ Len(stream) <= k
  BY <1>2, <1>7
<1> HIDE DEF k, s
<1>9. stream' = [i \in 1..k |-> CASE i > Len(stream) -> Token("ENDCMD", NoWord)
                      [] i \in s..end -> Token("NULL", NoWord)
                      [] OTHER -> stream[i]]
  BY <1>1 DEF k, s
<1>10. DOMAIN stream' = 1..k
  BY <1>9
<1>11. DOMAIN stream \subseteq DOMAIN stream'
  BY <1>2, <1>8, <1>10
<1>12. ASSUME NEW i \in 1..k
       PROVE  TokenAt(i)' = IF i \notin DOMAIN stream THEN "ENDCMD"
                            ELSE IF i \in s..end THEN "NULL" ELSE TokenAt(i)
  <2>1. i > Len(stream) <=> i \notin DOMAIN stream
    BY <1>2
  <2>2. TokenAt(i)' = stream'[i].token
    BY <1>10 DEF TokenAt
  <2>3. CASE i > Len(stream)
    <3>1. i \notin s..end
      BY <1>2, <1>7, <2>3
    <3>2. stream'[i] = Token("ENDCMD", NoWord)
      BY <1>9, <2>3, <3>1
    <3> QED BY <2>1, <2>2, <2>3, <3>2 DEF Token
  <2>4. CASE ~ i > Len(stream) /\ i \in s..end
    <3>1. stream'[i] = Token("NULL", NoWord)
      BY <1>9, <2>4
    <3> QED BY <2>1, <2>2, <2>4, <3>1 DEF Token
  <2>5. CASE ~ i > Len(stream) /\ i \notin s..end
    <3>1. stream'[i] = stream[i]
      BY <1>9, <2>5
    <3> QED BY <2>1, <2>2, <2>5, <3>1 DEF TokenAt
  <2> QED BY <2>3, <2>4, <2>5
<1> QED BY <1>1, <1>4, <1>5, <1>6, <1>7, <1>10, <1>11, <1>12 DEF s

(* What is left of the stream is still right.                              *)
LEMMA FinishChecks ==
  ASSUME Reading, Grammatical, Built, FinishCommand
  PROVE  Grammatical'
<1> DEFINE s == find_stream_start
<1>1. /\ TokenAt(end) = "ENDCMD" /\ first \in Nat /\ first <= s /\ s \in Nat /\ end \in Nat
      /\ s \in DOMAIN stream /\ end \in DOMAIN stream
      /\ \A i \in DOMAIN stream : i < s => TokenAt(i) \in Newlines \cup {"NULL"}
      /\ DOMAIN stream \subseteq DOMAIN stream'
      /\ \A i \in DOMAIN stream' :
           TokenAt(i)' = IF i \notin DOMAIN stream THEN "ENDCMD"
                         ELSE IF i \in s..end THEN "NULL" ELSE TokenAt(i)
  BY FinishIs
<1>2. /\ phase = "build" /\ phase' = "ready" /\ first' = first
  BY DEF FinishCommand, Building
<1>3. \A i \in DOMAIN stream : Checked(i)
  BY <1>2 DEF Grammatical
<1>4. stream' \in Seq(Tokens) /\ stream \in Seq(Tokens)
  BY FinishStep DEF Reading
<1>5. DOMAIN stream = 1..Len(stream) /\ DOMAIN stream' = 1..Len(stream') /\ Len(stream) \in Nat
      /\ Len(stream') \in Nat
  BY <1>4, DomainIs
<1> HIDE DEF s
<1>6. ASSUME NEW i \in DOMAIN stream'
      PROVE  Checked(i)'
  <2>1. CASE TokenAt(i)' \in {"NULL", "ENDCMD"}
    BY <2>1 DEF Checked, Operators, Redirections
  <2>2. CASE TokenAt(i)' \notin {"NULL", "ENDCMD"}
    <3>1. i \in DOMAIN stream /\ i \notin s..end /\ TokenAt(i)' = TokenAt(i) /\ Checked(i)
      BY <1>1, <1>3, <2>2
    <3>2. \A j \in DOMAIN stream : j \notin s..end => TokenAt(j)' = TokenAt(j)
      BY <1>1
    <3>3. EndsOperand(i - 1) => EndsOperand(i - 1)'
      <4> SUFFICES ASSUME EndsOperand(i - 1)
                   PROVE  EndsOperand(i - 1)'
        OBVIOUS
      <4>1. i - 1 \in DOMAIN stream /\ TokenAt(i - 1) # "ENDCMD"
        BY DEF EndsOperand, TokenAt
      <4>2. i - 1 # end
        BY <1>1, <4>1
      <4>3. i - 1 \notin s..end
        BY <1>1, <1>5, <3>1, <4>1, <4>2
      <4> QED BY <3>2, <4>1, <4>3 DEF EndsOperand
    <3>4. TokenAt(i) \in Operators => \/ TokenAt(i + 1)' = TokenAt(i + 1)
                                      \/ TokenAt(i + 1) \in Newlines /\ TokenAt(i + 1)' \in Newlines
      <4> SUFFICES ASSUME TokenAt(i) \in Operators
                   PROVE  TokenAt(i + 1)' = TokenAt(i + 1)
        OBVIOUS
      <4>1. StartsOperand(i + 1) \/ TokenAt(i + 1) \in Newlines
        BY <3>1 DEF Checked
      <4>2. i + 1 \in DOMAIN stream
        BY <4>1 DEF StartsOperand, TokenAt, Newlines
      <4>3. ~ i < s
        BY <1>1, <3>1 DEF Operators, Newlines
      <4>4. i + 1 \notin s..end
        BY <1>1, <1>5, <3>1, <4>2, <4>3
      <4> QED BY <3>2, <4>2, <4>4
    <3> QED BY <3>1, <3>3, <3>4, StillChecked
  <2> QED BY <2>1, <2>2
<1>7. ASSUME NEW i \in DOMAIN stream', i < first'
      PROVE  TokenAt(i)' \in Newlines \cup {"NULL"}
  <2>1. CASE i \in DOMAIN stream
    <3>1. i < s
      BY <1>1, <1>2, <1>5, <1>7
    <3> QED BY <1>1, <2>1, <3>1
  <2>2. CASE i \notin DOMAIN stream
    BY <1>1, <2>2 DEF Newlines
  <2> QED BY <2>1, <2>2
<1> QED BY <1>1, <1>2, <1>6, <1>7 DEF Grammatical

(* What main does with the tokens leaves them as they are.                 *)
LEMMA GrammaticalSame ==
  ASSUME Grammatical, UNCHANGED <<stream, first>>,
         \/ phase' = phase /\ at' = at
         \/ phase' \in {"ready", "build", "running"} /\ phase \in {"ready", "build", "running"}
         \/ phase' \in {"error", "crash"}
  PROVE  Grammatical'
<1>1. \A i : TokenAt(i)' = TokenAt(i) /\ (Checked(i)' <=> Checked(i))
  BY TokensSame
<1>2. stream' = stream /\ first' = first
  OBVIOUS
<1> QED BY <1>1, <1>2 DEF Grammatical

(* Every step of the shell.                                                *)
LEMMA GrammaticalNext ==
  ASSUME Reading, Grammatical, Built, [Next]_vars
  PROVE  Grammatical'
<1>1. CASE Read
  <2>1. CASE MakeStream
    BY <2>1, MakeStreamChecks
  <2>2. CASE StartCommand
    BY <2>2, GrammaticalSame DEF StartCommand
  <2>3. CASE BuildCommand
    <3>1. CASE FinishCommand
      BY <3>1, FinishChecks
    <3>2. CASE ~FinishCommand
      <4>1. UNCHANGED <<stream, first>> /\ phase = "build" /\ phase' \in {"build", "crash"}
        BY <2>3, <3>2 DEF BuildCommand, ReadWord, ReadOperator, ReadRedirection, RedirectionCrash,
                          OpenSubshell, CloseSubshell, Building
      <4> QED BY <4>1, GrammaticalSame
    <3> QED BY <3>1, <3>2
  <2> QED BY <1>1, <2>1, <2>2, <2>3 DEF Read
<1>2. CASE Execute \/ Executed
  BY <1>2, GrammaticalSame DEF Execute, Executed
<1>3. CASE UNCHANGED readVars
  BY <1>3, GrammaticalSame DEF readVars
<1> QED BY <1>1, <1>2, <1>3 DEF Next, Stop, Process, Travel, Return, Gone, vars

---------------------------------------------------------------------------
(* Both sides are there                                                    *)

(* The node in hand has what it needs when the token before ends an        *)
(* operand, and then all have.                                             *)
LEMMA AllComplete ==
  ASSUME Built, phase = "build" => EndsOperand(at - 1)
  PROVE  \A n \in DOMAIN node : Complete(n)
BY DEF Built

(* Nothing is built.                                                       *)
LEMMA BuiltSame ==
  ASSUME Built, UNCHANGED node,
         phase' = "build" => /\ phase = "build"
                             /\ UNCHANGED <<stream, first, at, end, parse_command>>,
         phase' # "build" => \A n \in DOMAIN node : Complete(n)
  PROVE  Built'
<1>1. node' = node
  OBVIOUS
<1>2. CASE phase' # "build"
  BY <1>1, <1>2 DEF Built, Complete
<1>3. CASE phase' = "build"
  <2>1. /\ phase = "build" /\ at' = at /\ end' = end /\ parse_command' = parse_command
        /\ first' = first /\ stream' = stream
    BY <1>3
  <2>2. /\ find_stream_start' = find_stream_start /\ find_stream_end' = find_stream_end
        /\ \A i : TokenAt(i)' = TokenAt(i)
    BY <2>1, TokensSame
  <2>3. (EndsOperand(at - 1)' <=> EndsOperand(at - 1)) /\ TokenAt(at - 1)' = TokenAt(at - 1)
    BY <2>1 DEF TokenAt, EndsOperand
  <2> QED BY <1>1, <1>3, <2>1, <2>2, <2>3 DEF Built, Complete
<1> QED BY <1>2, <1>3

(* The next token has been read: t, which is an operand or wants one.      *)
LEMMA TokenBuilt ==
  ASSUME Built, phase = "build", phase' = "build", UNCHANGED <<stream, first, end>>,
         first \in Nat, NEW d \in {1, 2}, at' = at + d,
         TokenAt(at + d - 1) \in Starters \cup {"WORD", "RBKT"},
         EndsOperand(at + d - 1) => \A n \in DOMAIN node' : Complete(n)',
         \A n \in DOMAIN node' : n = parse_command' \/ Complete(n)',
         \A n \in DOMAIN node' : node'[n].type = "SUBSHELL" => node'[n].left # 0,
         parse_command' \in DOMAIN node'
  PROVE  Built'
<1>1. /\ find_stream_start # find_stream_end /\ end = find_stream_end
      /\ at \in Nat /\ first <= at
  BY DEF Built
<1>2. /\ find_stream_start' = find_stream_start /\ find_stream_end' = find_stream_end
  BY TokensSame
<1> DEFINE k == at + d - 1
<1>3. at' \in Nat /\ at' - 1 = k /\ first' <= at'
  BY <1>1
<1>4. TokenAt(at - 1)' = TokenAt(k) /\ (EndsOperand(at - 1)' <=> EndsOperand(k))
  BY <1>3 DEF TokenAt, EndsOperand
<1>5. EndsOperand(k) => Complete(parse_command)'
  BY DEF Complete
<1> HIDE DEF k
<1>6. TokenAt(k) \in Starters \cup {"WORD", "RBKT"}
  BY DEF k
<1> QED BY <1>1, <1>2, <1>3, <1>4, <1>5, <1>6 DEF Built

(* A command is started: its first token ends no operand.                  *)
LEMMA StartBuilds ==
  ASSUME Reading, Grammatical, Built, StartCommand
  PROVE  Built'
<1>1. /\ OneMore(node, node') /\ parse_command' = Len(node) + 1 /\ phase = "ready"
      /\ phase' = "build" /\ stream' = stream /\ first' = first
      /\ find_stream_start # find_stream_end
      /\ at' = find_stream_start /\ end' = find_stream_end
  BY StartStep DEF StartCommand
<1>2. /\ stream \in Seq(Tokens) /\ node \in Seq(NodeSet) /\ IsTree(node)
      /\ DOMAIN node = 1..Len(node) /\ Len(node) \in Nat
  BY DomainIs DEF Reading
<1>3. /\ first \in Nat /\ \A i \in DOMAIN stream : i < first => TokenAt(i) \in Newlines \cup {"NULL"}
  BY <1>1 DEF Grammatical
<1>4. /\ find_stream_start \in Nat /\ first <= find_stream_start
      /\ ~EndsOperand(find_stream_start - 1)
  BY <1>1, <1>2, <1>3, StartIs
<1>5. /\ find_stream_start' = find_stream_start /\ find_stream_end' = find_stream_end
      /\ \A i : EndsOperand(i)' <=> EndsOperand(i)
  BY <1>1, TokensSame
<1>6. DOMAIN node' = 1..Len(node) + 1
  BY <1>1, <1>2, OneMoreKeeps
<1>7. ASSUME NEW n \in DOMAIN node'
      PROVE  /\ n = parse_command' \/ Complete(n)'
             /\ node'[n].type = "SUBSHELL" => node'[n].left # 0
  <2>1. CASE n = Len(node) + 1
    BY <1>1, <2>1, FreshIs DEF OneMore
  <2>2. CASE n # Len(node) + 1
    <3>1. n \in DOMAIN node /\ node'[n] = node[n]
      BY <1>1, <1>2, <1>6, <2>2 DEF OneMore
    <3>2. Complete(n) /\ (node[n].type = "SUBSHELL" => node[n].left # 0)
      BY <1>1, <3>1 DEF Built
    <3> QED BY <3>1, <3>2 DEF Complete
  <2> QED BY <2>1, <2>2
<1>8. ~EndsOperand(at - 1)'
  <2>1. at' - 1 = find_stream_start - 1
    BY <1>1
  <2>2. ~EndsOperand(find_stream_start - 1)
    BY <1>4
  <2> QED BY <1>1, <2>1, <2>2 DEF EndsOperand, TokenAt
<1> QED BY <1>1, <1>4, <1>5, <1>7, <1>8 DEF Built

(* A token that can be looked at when a command is built.                  *)
LEMMA TokenChecked ==
  ASSUME Grammatical, Built, phase = "build"
  PROVE  /\ first \in Nat /\ at \in Nat
         /\ TokenAt(at) # "NULL" => at \in DOMAIN stream /\ Checked(at)
<1>1. TokenAt(at) # "NULL" => at \in DOMAIN stream
  BY DEF TokenAt
<1> QED BY <1>1 DEF Grammatical, Built

(* A word completes the node in hand.                                      *)
LEMMA WordBuilds ==
  ASSUME Reading, Grammatical, Built, ReadWord
  PROVE  Built'
<1>1. /\ SameSides(node, node')
      /\ \A n \in DOMAIN node \ {parse_command} : node'[n] = node[n]
      /\ node'[parse_command].type = "SIMPLE"
      /\ stream' = stream /\ parse_command' = parse_command /\ phase' = phase /\ phase = "build"
  BY WordStep
<1>2. /\ at' = at + 1 /\ first' = first /\ end' = end /\ TokenAt(at) = "WORD"
  BY DEF ReadWord, Building
<1>3. first \in Nat /\ at \in Nat /\ parse_command \in DOMAIN node
  BY <1>1, TokenChecked, HandIs DEF InHand
<1>4. DOMAIN node' = DOMAIN node
  BY <1>1 DEF SameSides
<1>5. \A n \in DOMAIN node : Complete(n)' /\ (node'[n].type = "SUBSHELL" => node'[n].left # 0)
  <2>1. ASSUME NEW n \in DOMAIN node, n # parse_command
        PROVE  Complete(n)' /\ (node'[n].type = "SUBSHELL" => node'[n].left # 0)
    <3>1. node'[n] = node[n] /\ Complete(n) /\ (node[n].type = "SUBSHELL" => node[n].left # 0)
      BY <1>1, <2>1 DEF Built
    <3> QED BY <3>1 DEF Complete
  <2>2. Complete(parse_command)'
    BY <1>1 DEF Complete, Lists
  <2> QED BY <1>1, <2>1, <2>2 DEF Complete
<1>6. at + 1 - 1 = at
  BY <1>3
<1> QED BY <1>1, <1>2, <1>3, <1>4, <1>5, <1>6, TokenBuilt

(* Before an operator, a semicolon or a redirection all nodes are complete.*)
LEMMA BeforeOperator ==
  ASSUME Grammatical, Built, phase = "build",
         TokenAt(at) \in Operators \cup Redirections \cup {"SEMICOLON"}
  PROVE  EndsOperand(at - 1) /\ \A n \in DOMAIN node : Complete(n)
<1>1. TokenAt(at) # "NULL"
  BY DEF Operators, Redirections
<1>2. EndsOperand(at - 1)
  BY <1>1, TokenChecked DEF Checked
<1> QED BY <1>2, AllComplete

(* A redirection changes no side and no type.                              *)
LEMMA RedirectionBuilds ==
  ASSUME Reading, Grammatical, Built, NEW t \in Redirections, ReadRedirection(t)
  PROVE  Built'
<1>1. /\ SameSides(node, node') /\ \A n \in DOMAIN node : node'[n].type = node[n].type
      /\ stream' = stream /\ parse_command' = parse_command /\ phase' = phase /\ phase = "build"
  BY RedirectionStep
<1>2. /\ at' = at + 2 /\ first' = first /\ end' = end /\ TokenAt(at + 1) = "WORD"
      /\ TokenAt(at) \in Redirections
  BY DEF ReadRedirection, Building
<1>3. first \in Nat /\ at \in Nat /\ parse_command \in DOMAIN node
  BY <1>1, TokenChecked, HandIs DEF InHand
<1>4. \A n \in DOMAIN node : Complete(n)
  BY <1>1, <1>2, BeforeOperator
<1>5. DOMAIN node' = DOMAIN node
  BY <1>1 DEF SameSides
<1>6. \A n \in DOMAIN node' : Complete(n)' /\ (node'[n].type = "SUBSHELL" => node'[n].left # 0)
  BY <1>1, <1>4, <1>5 DEF SameSides, Complete, Built
<1>7. at + 2 - 1 = at + 1
  BY <1>3
<1> QED BY <1>1, <1>2, <1>3, <1>5, <1>6, <1>7, TokenBuilt

(* Two nodes more: the first has both sides, the second is in hand.        *)
LEMMA TwoMoreComplete ==
  ASSUME NEW l, l # 0, node \in Seq(NodeSet), TwoMore(node, node', l), NEW n \in DOMAIN node',
         n \notin DOMAIN node
  PROVE  /\ n = Len(node) + 2 \/ Complete(n)'
         /\ node'[n].type # "SUBSHELL"
<1>1. /\ DOMAIN node = 1..Len(node) /\ Len(node) \in Nat /\ DOMAIN node' = 1..Len(node) + 2
  BY DomainIs DEF TwoMore
<1>2. n = Len(node) + 1 \/ n = Len(node) + 2
  BY <1>1
<1>3. CASE n = Len(node) + 1
  BY <1>1, <1>3 DEF TwoMore, Complete
<1>4. CASE n = Len(node) + 2
  BY <1>4, FreshIs DEF TwoMore
<1> QED BY <1>2, <1>3, <1>4

(* An operator or a semicolon puts a node above a complete one, or in its  *)
(* place, and takes a fresh node in hand.                                  *)
LEMMA OperatorBuilds ==
  ASSUME Reading, Grammatical, Built, NEW t \in Operators \cup {"SEMICOLON"}, ReadOperator(t)
  PROVE  Built'
<1>1. /\ phase = "build" /\ parse_command' = Len(node) + 2
      /\ stream' = stream /\ phase' = phase
      /\ \/ \E p \in DOMAIN node, l \in Nat : Inserted(node, node', p, l)
         \/ Rooted(node, node', command_root)
  BY OperatorStep
<1>2. /\ at' = at + 1 /\ first' = first /\ end' = end
      /\ TokenAt(at) \in Operators \cup {"SEMICOLON"}
  BY DEF ReadOperator, Building
<1>3. first \in Nat /\ at \in Nat
  BY <1>1, TokenChecked
<1>4. \A n \in DOMAIN node : Complete(n)
  BY <1>1, <1>2, BeforeOperator
<1>5. /\ node \in Seq(NodeSet) /\ DOMAIN node = 1..Len(node) /\ Len(node) \in Nat /\ InHand
  BY <1>1, HandIs
<1>6. \A n \in DOMAIN node : node[n].type = "SUBSHELL" => node[n].left # 0
  BY DEF Built
<1>7. \E l : /\ l # 0 /\ TwoMore(node, node', l)
             /\ \A n \in DOMAIN node : Complete(n)' /\ (node'[n].type = "SUBSHELL" => node'[n].left # 0)
  <2>1. ASSUME NEW p \in DOMAIN node, NEW l \in Nat, Inserted(node, node', p, l)
        PROVE  /\ l # 0 /\ TwoMore(node, node', l)
               /\ \A n \in DOMAIN node :
                    Complete(n)' /\ (node'[n].type = "SUBSHELL" => node'[n].left # 0)
    <3>1. l # 0 /\ Complete(p)' /\ (node'[p].type = "SUBSHELL" => node'[p].left # 0)
      <4>1. node[p].type \in CommandTypes
        BY <1>5, NodeIs DEF NodeSet
      <4>2. node[p].type \notin {"SIMPLE", "SUBSHELL"} => node[p].left # 0 /\ node[p].right # 0
        BY <1>4, <4>1 DEF CommandTypes, Complete, Lists
      <4>3. Len(node) + 1 # 0
        BY <1>5
      <4> QED BY <1>6, <2>1, <4>2, <4>3 DEF Inserted, Complete, Lists
    <3>2. \A n \in DOMAIN node \ {p} : node'[n] = node[n]
      BY <2>1 DEF Inserted
    <3> QED BY <1>4, <1>6, <2>1, <3>1, <3>2 DEF Inserted, Complete
  <2>2. CASE Rooted(node, node', command_root)
    <3>1. command_root # 0
      BY <1>5 DEF InHand
    <3> QED BY <1>4, <1>6, <2>2, <3>1 DEF Rooted, Complete
  <2> QED BY <1>1, <2>1, <2>2
<1>8. PICK l : /\ l # 0 /\ TwoMore(node, node', l)
               /\ \A n \in DOMAIN node :
                    Complete(n)' /\ (node'[n].type = "SUBSHELL" => node'[n].left # 0)
  BY <1>7
<1>9. \A n \in DOMAIN node' : /\ n = parse_command' \/ Complete(n)'
                              /\ node'[n].type = "SUBSHELL" => node'[n].left # 0
  BY <1>1, <1>5, <1>8, TwoMoreComplete
<1>10. parse_command' \in DOMAIN node'
  <2>1. DOMAIN node' = 1..Len(node) + 2
    BY <1>8, DomainIs DEF TwoMore
  <2> QED BY <1>1, <1>5, <2>1
<1>11. at + 1 - 1 = at /\ TokenAt(at) \in Starters /\ ~EndsOperand(at)
  BY <1>2, <1>3 DEF Starters, EndsOperand, Operators
<1> QED BY <1>1, <1>2, <1>3, <1>9, <1>10, <1>11, TokenBuilt

(* A bracket makes a subshell of the node in hand, and takes what is       *)
(* inside in hand.                                                         *)
LEMMA OpenBuilds ==
  ASSUME Reading, Grammatical, Built, OpenSubshell
  PROVE  Built'
<1>1. /\ parse_command \in DOMAIN node /\ Opened(node, node', parse_command)
      /\ parse_command' = Len(node) + 1 /\ stream' = stream /\ phase' = phase /\ phase = "build"
  BY OpenStep
<1>2. /\ at' = at + 1 /\ first' = first /\ end' = end /\ TokenAt(at) = "LBKT"
  BY DEF OpenSubshell, Building
<1>3. first \in Nat /\ at \in Nat
  BY <1>1, TokenChecked
<1>4. /\ DOMAIN node = 1..Len(node) /\ Len(node) \in Nat /\ DOMAIN node' = 1..Len(node) + 1
      /\ Len(node) + 1 # 0
  <2>1. DOMAIN node = 1..Len(node) /\ Len(node) \in Nat
    BY <1>1, HandIs
  <2> QED BY <1>1, <2>1, DomainIs DEF Opened
<1>5. ASSUME NEW n \in DOMAIN node'
      PROVE  /\ n = parse_command' \/ Complete(n)'
             /\ node'[n].type = "SUBSHELL" => node'[n].left # 0
  <2>1. CASE n = Len(node) + 1
    BY <1>1, <2>1, FreshIs DEF Opened
  <2>2. CASE n = parse_command
    BY <1>1, <1>4, <2>2 DEF Opened, Complete, Lists
  <2>3. CASE n # Len(node) + 1 /\ n # parse_command
    <3>1. n \in DOMAIN node /\ node'[n] = node[n]
      BY <1>1, <1>4, <2>3 DEF Opened
    <3>2. Complete(n) /\ (node[n].type = "SUBSHELL" => node[n].left # 0)
      BY <2>3, <3>1 DEF Built
    <3> QED BY <3>1, <3>2 DEF Complete
  <2> QED BY <2>1, <2>2, <2>3
<1>6. parse_command' \in DOMAIN node'
  BY <1>1, <1>4
<1>7. at + 1 - 1 = at /\ TokenAt(at) \in Starters /\ ~EndsOperand(at)
  BY <1>2, <1>3 DEF Starters, EndsOperand
<1> QED BY <1>1, <1>2, <1>3, <1>5, <1>6, <1>7, TokenBuilt

(* There is an operand before a bracket that is closed.                    *)
LEMMA CloseBuilds ==
  ASSUME Reading, Grammatical, Built, Filled, CloseSubshell
  PROVE  Built'
<1>1. /\ stream' = stream /\ node' = node /\ parse_command' = parse_command /\ phase' = phase
      /\ phase = "build"
  BY CloseStep
<1>2. /\ at' = at + 1 /\ first' = first /\ end' = end /\ TokenAt(at) = "RBKT"
  BY DEF CloseSubshell, Building
<1>3. first \in Nat /\ at \in Nat /\ at \in DOMAIN stream /\ parse_command \in DOMAIN node
  BY <1>1, <1>2, TokenChecked, HandIs DEF InHand
<1>4. \A n \in DOMAIN node : Complete(n)
  BY <1>1, <1>2, <1>3, AllComplete DEF Filled
<1>5. \A n \in DOMAIN node' : Complete(n)' /\ (node'[n].type = "SUBSHELL" => node'[n].left # 0)
  BY <1>1, <1>4 DEF Complete, Built
<1>6. at + 1 - 1 = at
  BY <1>3
<1> QED BY <1>1, <1>2, <1>3, <1>5, <1>6, TokenBuilt

(* No operator is the last token of a command, nor a semicolon or a        *)
(* bracket: all its nodes are complete when it is finished.                *)
LEMMA FinishBuilds ==
  ASSUME Reading, Grammatical, Built, Filled, FinishCommand
  PROVE  Built'
<1>1. /\ phase = "build" /\ phase' = "ready" /\ UNCHANGED node
  BY FinishStep
<1>2. /\ at = end /\ at # find_stream_start /\ TokenAt(end) = "ENDCMD" /\ end \in Nat
  BY FinishIs
<1>3. TokenAt(at - 1) \in Starters \cup {"WORD", "RBKT"}
  BY <1>1, <1>2 DEF Built
<1>4. TokenAt(at - 1) \notin Starters
  <2> DEFINE i == at - 1
  <2>1. i + 1 = at
    BY <1>2
  <2> HIDE DEF i
  <2>2. ASSUME TokenAt(i) \in Starters
        PROVE  FALSE
    <3>1. i \in DOMAIN stream
      BY <2>2 DEF TokenAt, Starters, Operators
    <3>2. TokenAt(i + 1) = "ENDCMD"
      BY <1>2, <2>1
    <3> QED BY <1>1, <2>2, <3>1, <3>2 DEF Filled, Starters, StartsOperand, Newlines
  <2> QED BY <2>2 DEF i
<1>5. EndsOperand(at - 1)
  BY <1>3, <1>4 DEF EndsOperand
<1> QED BY <1>1, <1>5, AllComplete, BuiltSame

(* Every step of the shell.                                                *)
LEMMA BuiltNext ==
  ASSUME Reading, Grammatical, Built, Filled, [Next]_vars
  PROVE  Built'
<1>1. CASE MakeStream
  <2>1. phase \in {"tokens", "grammar"} /\ phase' # "build" /\ UNCHANGED node
    BY <1>1, MakeStreamKeeps DEF Reading
  <2> QED BY <2>1, AllComplete, BuiltSame
<1>2. CASE BuildCommand
  <2>1. CASE RedirectionCrash
    <3>1. /\ phase = "build" /\ phase' = "crash" /\ UNCHANGED node
          /\ TokenAt(at) \in Redirections
      BY <2>1 DEF RedirectionCrash, Building, buildVars
    <3> QED BY <3>1, BeforeOperator, BuiltSame
  <2> QED BY <1>2, <2>1, WordBuilds, OperatorBuilds, RedirectionBuilds, OpenBuilds, CloseBuilds,
             FinishBuilds DEF BuildCommand
<1>3. CASE Execute \/ Executed
  <2>1. phase \in {"ready", "running"} /\ phase' # "build" /\ UNCHANGED node
    BY <1>3 DEF Execute, Executed, buildVars
  <2> QED BY <2>1, AllComplete, BuiltSame
<1>4. CASE UNCHANGED readVars
  <2>1. /\ UNCHANGED node /\ phase' = phase
        /\ UNCHANGED <<stream, first, at, end, parse_command>>
    BY <1>4 DEF readVars, buildVars
  <2> QED BY <2>1, AllComplete, BuiltSame
<1> QED BY <1>1, <1>2, <1>3, <1>4, StartBuilds
        DEF Next, Read, Stop, Process, Travel, Return, Gone, vars

(* Nothing has been read at the start.                                     *)
LEMMA GrammaticalInit ==
  ASSUME Init
  PROVE  Grammatical /\ Built
<1>1. phase = "tokens" /\ first = 1 /\ node = << >>
  BY DEF Init, ReadInit
<1> QED BY <1>1 DEF Grammatical, Built

(* What has been read is complete, and nothing else runs.                  *)
LEMMA SidesThere ==
  ASSUME Reading, Started, Built, Fitting
  PROVE  SidesAreThere
<1> SUFFICES ASSUME NEW n \in DOMAIN node, pc[n] # "idle", node[n].type \in Lists \cup {"PIPE"}
             PROVE  node[n].left # 0 /\ node[n].right # 0
  BY DEF SidesAreThere
<1>1. CASE phase = "build" /\ n = parse_command
  <2>1. PICK base \in 0..Len(node) : NewFrom(base)
    BY <1>1 DEF Started
  <2>2. n \in Nodes
    BY SidesAre
  <2> QED BY <1>1, <2>1, <2>2 DEF NewFrom, Idle
<1>2. CASE ~(phase = "build" /\ n = parse_command)
  BY <1>2 DEF Built, Complete
<1> QED BY <1>1, <1>2

(* As long as a script has no more nodes than there are, and there is an   *)
(* operand wherever make_command_stream does not look for one, no process  *)
(* gets to run a pipe or a list one of whose sides is missing, so that     *)
(* execute_command follows no null pointer (check_twosides,                *)
(* read_command_stream, execute_command).                                  *)
THEOREM SidesCorrect ==
  Spec /\ []Fitting /\ []Filled => []SidesAreThere
<1> DEFINE Inv == Reading /\ Executing /\ Traveling /\ Started /\ Grammatical /\ Built
           Given == Fitting /\ Filled
<1>1. Init => Inv
  BY ReadingInit, ExecutingInit, TravelingInit, StartedInit, GrammaticalInit
<1>2. Inv /\ Given /\ Given' /\ [Next]_vars => Inv'
  <2> SUFFICES ASSUME Inv, Given, Given', [Next]_vars
               PROVE  Inv'
    OBVIOUS
  <2>1. Reading' /\ Executing' /\ Traveling' /\ Grammatical' /\ Built'
    BY ReadingNext, ExecutingNext, TravelingNext, GrammaticalNext, BuiltNext
  <2>2. Started'
    BY SidesThere, StartedNext
  <2> QED BY <2>1, <2>2
<1>3. Inv /\ Given => SidesAreThere
  BY SidesThere
<1> HIDE DEF Inv
<1>4. []Given <=> []Fitting /\ []Filled
  BY PTL DEF Given
<1> QED BY <1>1, <1>2, <1>3, <1>4, PTL DEF Spec

---------------------------------------------------------------------------
(* Descriptors                                                             *)

(* Nothing is open, printed or read at the start.                          *)
LEMMA TypesInit ==
  ASSUME Init
  PROVE  Opening /\ Leaving /\ Keeping
<1>1. Opening
  BY DEF Init, ExecInit, Opening, Descs, Input, Output
<1>2. Leaving
  <2>1. files = Store /\ Store \in [Words -> SUBSET Texts]
    BY ShellAssumption DEF Init, ExecInit, Texts
  <2> QED BY <2>1 DEF Init, ExecInit, TravelInit, Leaving, Statuses
<1>3. Keeping
  <2>1. mode \in Modes /\ script \in Scripts
    BY ShellAssumption DEF Init
  <2>2. node = << >> /\ Len(node) = 0
    BY DEF Init, ReadInit
  <2>3. /\ round = "none" /\ phase = "tokens" /\ is_comments = FALSE /\ is_subshell = 0
        /\ command_root = 0 /\ parse_command = 0 /\ subshell_root = 0
    BY DEF Init, ReadInit, TravelInit
  <2>4. round \in Rounds /\ phase \in ReadPhases
    BY <2>3 DEF Rounds, ReadPhases
  <2>5. is_comments \in BOOLEAN
    BY <2>3
  <2> QED BY <2>1, <2>2, <2>3, <2>4, <2>5 DEF Keeping
<1> QED BY <1>1, <1>2, <1>3

(* Descriptors stay open as long as the nodes that run are the same.       *)
LEMMA OpeningKept ==
  ASSUME Opening, UNCHANGED fd,
         \A d \in DOMAIN node : ~Idle(d) => d \in DOMAIN node' /\ ~Idle(d)' /\ node'[d] = node[d]
  PROVE  Opening'
BY DEF Opening, Input, Output

(* What is read changes no node that runs.                                 *)
LEMMA ReadOpening ==
  ASSUME Reading, Reading', Fitting, Started, Opening, Read
  PROVE  Opening'
<1>1. pc' = pc /\ fd' = fd
  BY DEF Read, execVars
<1>2. /\ node \in Seq(NodeSet) /\ DOMAIN node = 1..Len(node) /\ Len(node) \in Nat
      /\ DOMAIN node' = 1..Len(node') /\ Len(node') \in Nat
      /\ DOMAIN node \subseteq Nodes
  BY DomainIs, SidesAre DEF Reading
<1>3. CASE UNCHANGED node
  BY <1>1, <1>3, OpeningKept DEF Idle
<1>4. CASE StartCommand
  <2>1. OneMore(node, node')
    BY <1>4, StartStep
  <2>2. \A d \in DOMAIN node : d \in DOMAIN node' /\ node'[d] = node[d]
    BY <1>2, <2>1 DEF OneMore
  <2> QED BY <1>1, <2>2, OpeningKept DEF Idle
<1>5. CASE BuildCommand /\ phase' = "build"
  <2>1. phase = "build"
    BY <1>5, WordStep, RedirectionStep, OperatorStep, OpenStep, CloseStep, FinishStep
       DEF BuildCommand, RedirectionCrash
  <2>2. PICK base \in 0..Len(node) : NewFrom(base)
    BY <2>1 DEF Started
  <2>3. Len(node) <= Len(node') /\ SameUpTo(node, node', base)
    BY <1>5, <2>2, BuildApart
  <2>4. ASSUME NEW d \in DOMAIN node, ~Idle(d)
        PROVE  d \in DOMAIN node' /\ ~Idle(d)' /\ node'[d] = node[d]
    <3>1. d \in Nodes /\ ~ d > base
      BY <1>2, <2>2, <2>4 DEF NewFrom
    <3>2. d <= base /\ d \in DOMAIN node'
      BY <1>2, <2>3, <3>1
    <3> QED BY <1>1, <2>3, <2>4, <3>2 DEF SameUpTo, Idle
  <2> QED BY <1>1, <2>4, OpeningKept
<1>6. CASE MakeStream
  BY <1>3, <1>6, MakeStreamKeeps DEF Reading
<1>7. CASE BuildCommand /\ phase' # "build"
  <2>1. CASE RedirectionCrash
    BY <1>3, <2>1 DEF RedirectionCrash, buildVars
  <2> QED BY <1>3, <1>7, <2>1, WordStep, RedirectionStep, OperatorStep, OpenStep, CloseStep,
             FinishStep DEF BuildCommand
<1> QED BY <1>4, <1>5, <1>6, <1>7 DEF Read

(* A process inherits its descriptors from the one that forks it, or opens *)
(* its own.                                                                *)
LEMMA DescriptorsStep ==
  ASSUME Reading, Fitting, Opening, Fits, NEW n \in DOMAIN node, execute_command(n)
  PROVE  \/ fd' = fd
         \/ \E m : \E desc \in Descs :
              /\ fd' = [fd EXCEPT ![m] = desc]
              /\ \/ desc.in = fd[n].in
                 \/ desc.in = n /\ (node[n].type = "PIPE" \/ node[n].input # NoWord)
              /\ \/ desc.out = fd[n].out
                 \/ desc.out = n /\ (node[n].type = "PIPE" \/ node[n].output # NoWord)
<1>1. n \in Nodes /\ n \in Nat
  BY SidesAre
<1>2. fd[n] \in Descs
  BY <1>1 DEF Opening
<1> DEFINE Opens(f) == \E m : \E desc \in Descs :
              /\ f = [fd EXCEPT ![m] = desc]
              /\ \/ desc.in = fd[n].in
                 \/ desc.in = n /\ (node[n].type = "PIPE" \/ node[n].input # NoWord)
              /\ \/ desc.out = fd[n].out
                 \/ desc.out = n /\ (node[n].type = "PIPE" \/ node[n].output # NoWord)
<1>3. CASE CallLeft(n) \/ LeftReturns(n)
  <2>1. fd' = fd \/ \E m : fd' = [fd EXCEPT ![m] = fd[n]]
    BY <1>3 DEF CallLeft, LeftReturns, Calls, Returns
  <2> QED BY <1>2, <2>1
<1>4. CASE ForkLeft(n)
  <2> DEFINE desc == [fd[n] EXCEPT !.out = n]
  <2>1. fd' = [fd EXCEPT ![node[n].left] = desc] /\ node[n].type = "PIPE"
    BY <1>4 DEF ForkLeft, Calls
  <2>2. desc \in Descs /\ desc.in = fd[n].in /\ desc.out = n
    BY <1>1, <1>2 DEF Descs
  <2> HIDE DEF desc
  <2>3. Opens(fd')
    BY <2>1, <2>2
  <2> QED BY <2>3
<1>5. CASE ForkRight(n)
  <2> DEFINE desc == [fd[n] EXCEPT !.in = n]
  <2>1. fd' = [fd EXCEPT ![node[n].right] = desc] /\ node[n].type = "PIPE"
    BY <1>5 DEF ForkRight, Calls, Fits, SidesFit
  <2>2. desc \in Descs /\ desc.out = fd[n].out /\ desc.in = n
    BY <1>1, <1>2 DEF Descs
  <2> HIDE DEF desc
  <2>3. Opens(fd')
    BY <2>1, <2>2
  <2> QED BY <2>3
<1>6. CASE OpenFiles(n)
  <2> DEFINE desc == Redirected(n)
  <2>1. \E m : fd' = [fd EXCEPT ![m] = desc]
    BY <1>6 DEF OpenFiles, Calls
  <2>2. /\ desc \in Descs
        /\ desc.in = fd[n].in \/ (desc.in = n /\ node[n].input # NoWord)
        /\ desc.out = fd[n].out \/ (desc.out = n /\ node[n].output # NoWord)
    BY <1>1, <1>2 DEF Descs, Redirected
  <2> HIDE DEF desc
  <2>3. Opens(fd')
    BY <2>1, <2>2
  <2> QED BY <2>3
<1>7. CASE fd' = fd
  BY <1>7
<1> QED BY <1>3, <1>4, <1>5, <1>6, <1>7
        DEF execute_command, RightReturns, Returns, ClosePipe, WaitAny, WaitOther, Fork, NotFound,
            RunProgram, WaitSimple, WaitSubshell

(* A process that runs a command takes a step.                             *)
LEMMA ProcessOpening ==
  ASSUME Reading, Fitting, Executing, Opening, Started, Process
  PROVE  Opening'
<1>1. PICK n \in DOMAIN node : execute_command(n)
  BY DEF Process
<1>2. node' = node /\ n \in Nodes
  BY SidesAre DEF Process, readVars, buildVars
<1>3. ~Idle(n) /\ \A m \in Nodes : ~Idle(m) => ~Idle(m)'
  BY <1>1, StepPlaces
<1>4. \A d : (Input(d) => Input(d)') /\ (Output(d) => Output(d)')
  BY <1>2, <1>3, SidesAre DEF Input, Output
<1>5. CASE fd' = fd
  BY <1>4, <1>5 DEF Opening
<1>6. CASE fd' # fd
  <2>1. PICK m : \E desc \in Descs :
              /\ fd' = [fd EXCEPT ![m] = desc]
              /\ \/ desc.in = fd[n].in
                 \/ desc.in = n /\ (node[n].type = "PIPE" \/ node[n].input # NoWord)
              /\ \/ desc.out = fd[n].out
                 \/ desc.out = n /\ (node[n].type = "PIPE" \/ node[n].output # NoWord)
    BY <1>1, <1>6, DescriptorsStep DEF Started
  <2> PICK desc \in Descs :
              /\ fd' = [fd EXCEPT ![m] = desc]
              /\ \/ desc.in = fd[n].in
                 \/ desc.in = n /\ (node[n].type = "PIPE" \/ node[n].input # NoWord)
              /\ \/ desc.out = fd[n].out
                 \/ desc.out = n /\ (node[n].type = "PIPE" \/ node[n].output # NoWord)
    BY <2>1
  <2>2. Input(n)' \/ desc.in = fd[n].in
    BY <1>2, <1>3 DEF Input
  <2>3. Output(n)' \/ desc.out = fd[n].out
    BY <1>2, <1>3 DEF Output
  <2>4. \A d \in {desc.in} : Input(d)'
    BY <1>2, <1>3, <1>4 DEF Input, Opening
  <2>5. \A d \in {desc.out} : Output(d)'
    BY <1>2, <1>3, <1>4 DEF Output, Opening
  <2>6. fd' \in [Nodes -> Descs] /\ \A k \in Nodes : fd'[k] = IF k = m THEN desc ELSE fd[k]
    BY DEF Opening
  <2> QED BY <1>4, <2>4, <2>5, <2>6 DEF Opening
<1> QED BY <1>5, <1>6

(* Every step leaves only what is open in a process's hands.               *)
LEMMA OpeningNext ==
  ASSUME Reading, Reading', Fitting, Executing, Started, Opening, [Next]_vars
  PROVE  Opening'
<1>1. CASE Execute
  <2> DEFINE k == commands[called']
  <2>1. /\ pc' = [pc EXCEPT ![k] = "called"] /\ fd' = [fd EXCEPT ![k] = fd[k]] /\ UNCHANGED node
    BY <1>1 DEF Execute, Calls, buildVars
  <2> HIDE DEF k
  <2>2. fd' = fd
    BY <2>1 DEF Opening
  <2>3. \A d \in Nodes : ~Idle(d) => ~Idle(d)'
    BY <2>1 DEF Executing, Idle
  <2> QED BY <2>1, <2>2, <2>3, SidesAre, OpeningKept
<1>2. CASE Travel
  <2>1. UNCHANGED <<node, fd>>
    BY <1>2 DEF Travel, readVars, buildVars, execute_timetravel_cmd, BuildGraph, StartReady, NoChild,
                AllStarted, ReapChild, execVars
  <2>2. \A d \in Nodes : ~Idle(d) => ~Idle(d)'
    <3>1. CASE UNCHANGED pc
      BY <3>1 DEF Idle
    <3>2. CASE StartReady
      BY <3>2 DEF StartReady, Idle
    <3>3. CASE \E i \in DOMAIN commands : ReapChild(i)
      BY <3>3 DEF ReapChild, Executing, Idle
    <3> QED BY <1>2, <3>1, <3>2, <3>3
            DEF Travel, execute_timetravel_cmd, BuildGraph, NoChild, AllStarted, execVars
  <2> QED BY <2>1, <2>2, SidesAre, OpeningKept
<1>3. CASE Stop \/ Executed \/ Return \/ Gone \/ UNCHANGED vars
  <2>1. UNCHANGED <<node, fd, pc>>
    BY <1>3 DEF Stop, Executed, Return, Gone, vars, readVars, buildVars, execVars
  <2> QED BY <2>1, OpeningKept DEF Idle
<1> QED BY <1>1, <1>2, <1>3, ReadOpening, ProcessOpening DEF Next

---------------------------------------------------------------------------
(* What processes leave behind                                             *)

(* A status is a number.                                                   *)
LEMMA StatusIs ==
  Statuses \subseteq Int
<1> DEFINE k == 256 * 256 - 1
<1>1. k \in Int
  OBVIOUS
<1> HIDE DEF k
<1>2. 0..k \subseteq Int
  BY <1>1
<1> QED BY <1>2 DEF Statuses, k

(* The low bits of a status, shifted, are the status that wait() shows.    *)
LEMMA ExitStatusIs ==
  ASSUME NEW s \in Int
  PROVE  ExitStatus(s) \in Statuses /\ s % 256 \in 0..255
<1>1. ASSUME NEW r \in 0..255
      PROVE  r * 256 \in Statuses
  BY DEF Statuses
<1>2. s % 256 \in 0..255
  OBVIOUS
<1>3. (s % 256) * 256 \in Statuses
  BY <1>1, <1>2, Zenon
<1> QED BY <1>2, <1>3, Zenon DEF ExitStatus

(* A program's exit code, or that of the child that found none.            *)
LEMMA ExitCodeIs ==
  ASSUME NEW n
  PROVE  ExitCode(n) \in 0..255
<1>1. CASE Programs(n) = {}
  BY <1>1 DEF ExitCode
<1>2. CASE Programs(n) # {}
  <2>1. node[n].word[1] \in DOMAIN Program
    BY <1>2 DEF Programs
  <2>2. Program[node[n].word[1]] \in [reads : BOOLEAN, prints : BOOLEAN, code : 0..255]
    BY <2>1, ProgramAssumption
  <2> QED BY <1>2, <2>2 DEF ExitCode
<1> QED BY <1>1, <1>2

(* A status that a process hands up is one of waitpid.                     *)
LEMMA StatusStep ==
  ASSUME Reading, Fitting, Executing, SidesAreThere, Built, Fits, Leaving,
         NEW n \in DOMAIN node, execute_command(n)
  PROVE  status' \in [Nodes -> Statuses]
<1>1. /\ DOMAIN node \subseteq Nodes /\ \A k \in DOMAIN node : Sides(node, k) \subseteq DOMAIN node
      /\ SidesFit(n) /\ n \in Nodes
  BY SidesAre DEF Fits
<1>2. /\ node[n].left # 0 => node[n].left \in Nodes
      /\ node[n].right # 0 => node[n].right \in Nodes
  BY <1>1 DEF Sides
<1>3. \A m \in Nodes : status[m] \in Statuses /\ ExitStatus(status[m]) \in Statuses
  <2>1. \A m \in Nodes : status[m] \in Statuses /\ status[m] \in Int
    BY StatusIs DEF Leaving
  <2> QED BY <2>1, ExitStatusIs, Zenon
<1>4. /\ pc[n] \in {"left", "right", "waitpid"} => node[n].left # 0 /\ node[n].right # 0
      /\ node[n].type = "SUBSHELL" => node[n].left # 0
  BY <1>1 DEF SidesFit, SidesAreThere, Built
<1>5. ASSUME NEW f, NEW s \in Statuses, Returns(f, n, s)
      PROVE  status' \in [Nodes -> Statuses]
  BY <1>5 DEF Returns, Leaving
<1>6. CASE LeftReturns(n)
  <2>1. UNCHANGED status \/ Returns(pc, n, status[node[n].left])
    BY <1>6 DEF LeftReturns
  <2>2. pc[n] = "left"
    BY <1>6 DEF LeftReturns
  <2> QED BY <1>2, <1>3, <1>4, <1>5, <2>1, <2>2 DEF Leaving
<1>7. CASE RightReturns(n)
  BY <1>2, <1>3, <1>4, <1>5, <1>7 DEF RightReturns
<1>8. CASE WaitOther(n)
  <2>1. PICK c \in {node[n].left, node[n].right} :
          Returns([pc EXCEPT ![c] = "reaped"], n, ExitStatus(status[c]))
    BY <1>8 DEF WaitOther
  <2>2. pc[n] = "waitpid"
    BY <1>8 DEF WaitOther
  <2> QED BY <1>2, <1>3, <1>4, <1>5, <2>1, <2>2
<1>9. CASE WaitSimple(n)
  <2> DEFINE s == IF pc[n] = "killed" THEN SIGPIPE ELSE ExitStatus(ExitCode(n))
  <2>1. Returns(pc, n, s)
    BY <1>9 DEF WaitSimple
  <2>2. ExitStatus(ExitCode(n)) \in Statuses
    <3>1. ExitCode(n) \in Int
      BY ExitCodeIs
    <3> QED BY <3>1, ExitStatusIs, Zenon
  <2>3. SIGPIPE \in Statuses
    BY DEF SIGPIPE, Statuses
  <2>4. s \in Statuses
    BY <2>2, <2>3, Zenon
  <2> HIDE DEF s
  <2> QED BY <1>5, <2>1, <2>4
<1>10. CASE WaitSubshell(n)
  <2>1. /\ node[n].type = "SUBSHELL"
        /\ Returns([pc EXCEPT ![node[n].left] = "reaped"], n, ExitStatus(status[node[n].left]))
    BY <1>10 DEF WaitSubshell
  <2> QED BY <1>2, <1>3, <1>4, <1>5, <2>1
<1>11. CASE UNCHANGED status
  BY <1>11 DEF Leaving
<1> QED BY <1>6, <1>7, <1>8, <1>9, <1>10, <1>11
        DEF execute_command, CallLeft, ForkLeft, ForkRight, ClosePipe, WaitAny, Fork, OpenFiles,
            NotFound, RunProgram

(* What a process can read are names of programs.                          *)
LEMMA ContentsAre ==
  ASSUME Reading, Fitting, Leaving, NEW d, Input(d)
  PROVE  Contents(d) \subseteq Words
<1>1. CASE d = 0 \/ d \in drained
  BY <1>1 DEF Contents
<1>2. CASE ~(d = 0 \/ d \in drained)
  <2>1. /\ d \in DOMAIN node /\ d \in Nodes
        /\ node[d].type = "PIPE" \/ node[d].input # NoWord
    BY <1>2, SidesAre DEF Input
  <2>2. CASE node[d].type = "PIPE"
    <3>1. Contents(d) = pipe[d]
      BY <1>2, <2>2 DEF Contents, IsPipe
    <3> QED BY <2>1, <3>1 DEF Leaving
  <2>3. CASE node[d].type # "PIPE"
    <3>1. Contents(d) = files[node[d].input] \ Absent
      BY <1>2, <2>3 DEF Contents, IsPipe
    <3>2. node[d].input \in Texts
      BY <2>1, NodeIs DEF Reading, NodeSet
    <3>3. files[node[d].input] \subseteq Texts
      BY <2>1, <2>3, <3>2 DEF Leaving, Texts
    <3> QED BY <3>1, <3>3 DEF Absent, Texts
  <2> QED BY <2>2, <2>3
<1> QED BY <1>1, <1>2

(* So are the contents of the files that its arguments name.               *)
LEMMA ArgumentsAre ==
  ASSUME Leaving, NEW n
  PROVE  Arguments(n) \subseteq Words
<1>1. \A w \in DOMAIN files : files[w] \ Absent \subseteq Words
  BY DEF Leaving, Texts, Absent
<1> QED BY <1>1 DEF Arguments

(* What a program prints goes to the pipe or the file it writes to.        *)
LEMMA ProgramLeaves ==
  ASSUME Reading, Fitting, Opening, Leaving, NEW n \in DOMAIN node, RunProgram(n)
  PROVE  /\ files' \in [Words -> SUBSET Texts] /\ pipe' \in [Nodes -> SUBSET Words]
         /\ drained' \subseteq Nodes
<1> DEFINE Runs(w, in, out, stdin, text) ==
             /\ drained' = IF stdin THEN drained \cup ({in} \ {0}) ELSE drained
             /\ \/ UNCHANGED <<files, pipe>>
                \/ /\ IsPipe(out)
                   /\ pipe' = [pipe EXCEPT ![out] = @ \cup text]
                   /\ UNCHANGED files
                \/ /\ out # 0 /\ ~IsPipe(out)
                   /\ files' = [files EXCEPT ![node[out].output] = @ \cup text]
                   /\ UNCHANGED pipe
           Text(w, in, stdin) == {w} \cup Arguments(n) \cup IF stdin THEN Contents(in) ELSE {}
<1>1. \E w \in Programs(n), in \in {fd[n].in}, out \in {fd[n].out} :
      \E stdin \in {Program[w].reads /\ Len(node[n].word) = 1} :
      \E text \in {Text(w, in, stdin)} :
          /\ stdin /\ IsPipe(in) => AtEnd(in)
          /\ drained' = IF stdin THEN drained \cup ({in} \ {0}) ELSE drained
          /\ pc' = [pc EXCEPT ![n] =
                      IF Program[w].prints /\ Broken(out) THEN "killed" ELSE "ended"]
          /\ \/ /\ ~Program[w].prints \/ out = 0 \/ Broken(out)
                /\ UNCHANGED <<files, pipe>>
             \/ /\ Program[w].prints /\ IsPipe(out) /\ ~Broken(out)
                /\ pipe' = [pipe EXCEPT ![out] = @ \cup text]
                /\ UNCHANGED files
             \/ /\ Program[w].prints /\ out # 0 /\ ~IsPipe(out)
                /\ files' = [files EXCEPT ![node[out].output] = @ \cup text]
                /\ UNCHANGED pipe
  BY Zenon DEF RunProgram
<1> DEFINE in == fd[n].in
           out == fd[n].out
<1> HIDE DEF Text
<1>2. PICK w \in Programs(n) :
      \E stdin, text : text = Text(w, in, stdin) /\ Runs(w, in, out, stdin, text)
  <2>1. PICK w \in Programs(n), i \in {fd[n].in}, o \in {fd[n].out} :
      \E stdin \in {Program[w].reads /\ Len(node[n].word) = 1} :
      \E text \in {Text(w, i, stdin)} :
          /\ stdin /\ IsPipe(i) => AtEnd(i)
          /\ drained' = IF stdin THEN drained \cup ({i} \ {0}) ELSE drained
          /\ pc' = [pc EXCEPT ![n] =
                      IF Program[w].prints /\ Broken(o) THEN "killed" ELSE "ended"]
          /\ \/ /\ ~Program[w].prints \/ o = 0 \/ Broken(o)
                /\ UNCHANGED <<files, pipe>>
             \/ /\ Program[w].prints /\ IsPipe(o) /\ ~Broken(o)
                /\ pipe' = [pipe EXCEPT ![o] = @ \cup text]
                /\ UNCHANGED files
             \/ /\ Program[w].prints /\ o # 0 /\ ~IsPipe(o)
                /\ files' = [files EXCEPT ![node[o].output] = @ \cup text]
                /\ UNCHANGED pipe
    BY <1>1
  <2>2. PICK stdin, text :
          /\ text = Text(w, i, stdin)
          /\ drained' = IF stdin THEN drained \cup ({i} \ {0}) ELSE drained
          /\ \/ /\ ~Program[w].prints \/ o = 0 \/ Broken(o)
                /\ UNCHANGED <<files, pipe>>
             \/ /\ Program[w].prints /\ IsPipe(o) /\ ~Broken(o)
                /\ pipe' = [pipe EXCEPT ![o] = @ \cup text]
                /\ UNCHANGED files
             \/ /\ Program[w].prints /\ o # 0 /\ ~IsPipe(o)
                /\ files' = [files EXCEPT ![node[o].output] = @ \cup text]
                /\ UNCHANGED pipe
    BY <2>1, Zenon
  <2>3. i = in /\ o = out
    OBVIOUS
  <2>4. text = Text(w, in, stdin) /\ Runs(w, in, out, stdin, text)
    BY <2>2, <2>3, Zenon
  <2> HIDE DEF Runs
  <2> QED BY <2>4
<1>3. PICK stdin, text : text = Text(w, in, stdin) /\ Runs(w, in, out, stdin, text)
  BY <1>2
<1> HIDE DEF in, out
<1>4. Input(in) /\ Output(out) /\ n \in Nodes
  BY SidesAre DEF Opening, in, out
<1>5. text \subseteq Words
  <2>1. w \in Words
    BY ProgramAssumption DEF Programs
  <2> QED BY <1>3, <1>4, <2>1, ContentsAre, ArgumentsAre DEF Text
<1>6. drained' \subseteq Nodes
  <2>1. {in} \ {0} \subseteq Nodes
    BY <1>4, SidesAre DEF Input
  <2> QED BY <1>3, <2>1 DEF Leaving
<1>7. files' \in [Words -> SUBSET Texts] /\ pipe' \in [Nodes -> SUBSET Words]
  <2>1. CASE UNCHANGED <<files, pipe>>
    BY <2>1 DEF Leaving
  <2>2. CASE pipe' = [pipe EXCEPT ![out] = @ \cup text] /\ UNCHANGED files
    BY <1>5, <2>2 DEF Leaving
  <2>3. CASE files' = [files EXCEPT ![node[out].output] = @ \cup text] /\ UNCHANGED pipe
    BY <1>5, <2>3 DEF Leaving, Texts
  <2> QED BY <1>3, <2>1, <2>2, <2>3
<1> QED BY <1>6, <1>7

(* A process that runs a command takes a step.                             *)
LEMMA ProcessLeaves ==
  ASSUME Reading, Fitting, Executing, SidesAreThere, Built, Started, Opening, Leaving, Process
  PROVE  Leaving'
<1>1. PICK n \in DOMAIN node : execute_command(n)
  BY DEF Process
<1>2. tstatus' = tstatus /\ exit_status' = exit_status
  BY DEF Process, travelVars, mainVars
<1>3. status' \in [Nodes -> Statuses]
  BY <1>1, StatusStep DEF Started
<1>4. CASE RunProgram(n)
  BY <1>2, <1>3, <1>4, ProgramLeaves DEF Leaving
<1>5. CASE OpenFiles(n)
  <2>1. /\ files' = files \/ files' = [files EXCEPT ![node[n].output] = {}]
        /\ UNCHANGED <<pipe, drained>>
    BY <1>5 DEF OpenFiles
  <2> QED BY <1>2, <1>3, <2>1 DEF Leaving
<1>6. CASE UNCHANGED <<files, pipe, drained>>
  BY <1>2, <1>3, <1>6 DEF Leaving
<1> QED BY <1>1, <1>4, <1>5, <1>6
        DEF execute_command, CallLeft, LeftReturns, RightReturns, ForkLeft, ForkRight, ClosePipe,
            WaitAny, WaitOther, Fork, NotFound, WaitSimple, WaitSubshell

(* Every step of the shell.                                                *)
LEMMA LeavingNext ==
  ASSUME Reading, Fitting, Executing, SidesAreThere, Built, Started, Opening, Leaving, [Next]_vars
  PROVE  Leaving'
<1>1. \A i \in DOMAIN commands : status[commands[i]] \in Statuses
  BY RootIs DEF Leaving
<1>2. CASE Stop
  BY <1>2 DEF Stop, execVars, travelVars, Leaving
<1>3. CASE Return
  <2>1. /\ UNCHANGED <<files, pipe, drained, status, tstatus>>
        /\ exit_status' \in {0, LastStatus % 256, tstatus % 256}
    BY <1>3 DEF Return, execVars, travelVars
  <2>2. LastStatus \in Statuses
    <3>1. CASE called = 0
      BY <3>1 DEF LastStatus, Statuses
    <3>2. CASE called # 0
      <4>1. called \in DOMAIN commands
        BY <3>2, DomainIs DEF Started, Reading, Roots
      <4> QED BY <1>1, <3>2, <4>1 DEF LastStatus
    <3> QED BY <3>1, <3>2
  <2>3. LastStatus % 256 \in 0..255 /\ tstatus % 256 \in 0..255
    <3>1. LastStatus \in Int /\ tstatus \in Int
      BY <2>2, StatusIs DEF Leaving
    <3> QED BY <3>1, ExitStatusIs, Zenon
  <2>4. exit_status' \in -1..255
    BY <2>1, <2>3
  <2> QED BY <2>1, <2>4 DEF Leaving
<1>4. CASE Travel
  <2>1. UNCHANGED <<files, pipe, drained, status, exit_status>>
    BY <1>4 DEF Travel, mainVars, execute_timetravel_cmd, BuildGraph, StartReady, NoChild, AllStarted,
                ReapChild, execVars
  <2>2. tstatus' \in Statuses
    <3>1. CASE \E i \in DOMAIN commands : ReapChild(i)
      <4>1. PICK i \in DOMAIN commands :
              tstatus' = IF tstatus # 0 THEN tstatus ELSE ExitStatus(status[commands[i]])
        BY <3>1 DEF ReapChild
      <4>2. ExitStatus(status[commands[i]]) \in Statuses
        <5>1. status[commands[i]] \in Int
          BY <1>1, StatusIs
        <5> QED BY <5>1, ExitStatusIs, Zenon
      <4> QED BY <4>1, <4>2 DEF Leaving
    <3>2. CASE UNCHANGED tstatus
      BY <3>2 DEF Leaving
    <3> QED BY <1>4, <3>1, <3>2
            DEF Travel, execute_timetravel_cmd, BuildGraph, StartReady, NoChild, AllStarted
  <2> QED BY <2>1, <2>2 DEF Leaving
<1>5. CASE UNCHANGED <<files, pipe, drained, status, tstatus, exit_status>>
  BY <1>5 DEF Leaving
<1>6. CASE Process
  BY <1>6, ProcessLeaves
<1> QED BY <1>2, <1>3, <1>4, <1>5, <1>6
        DEF Next, Read, Execute, Executed, Gone, vars, execVars, travelVars, mainVars

---------------------------------------------------------------------------
(* What the reader keeps                                                   *)

(* The node in hand and the roots are nodes that there are.                *)
LEMMA BuildKeeps ==
  ASSUME Reading, Keeping, BuildCommand
  PROVE  /\ is_subshell' \in {0, 1} /\ command_root' \in 0..Len(node')
         /\ parse_command' \in 0..Len(node') /\ subshell_root' \in 0..Len(node')
<1>1. /\ node \in Seq(NodeSet) /\ Len(node) \in Nat
  BY DomainIs DEF Reading
<1>2. /\ is_subshell \in {0, 1} /\ command_root \in 0..Len(node)
      /\ parse_command \in 0..Len(node) /\ subshell_root \in 0..Len(node)
  BY DEF Keeping
<1>3. CASE ReadWord \/ \E t \in Redirections : ReadRedirection(t)
  <2>1. /\ SameSides(node, node')
        /\ UNCHANGED <<command_root, parse_command, is_subshell, subshell_root>>
    BY <1>3, WordStep, RedirectionStep
  <2> QED BY <1>2, <2>1 DEF SameSides
<1>4. CASE \E t \in Operators \cup {"SEMICOLON"} : ReadOperator(t)
  <2>1. /\ parse_command' = Len(node) + 2 /\ UNCHANGED <<is_subshell, subshell_root>>
        /\ command_root' \in {command_root, Len(node) + 1} /\ Len(node') = Len(node) + 2
    BY <1>4, OperatorStep DEF Inserted, Rooted, TwoMore
  <2> QED BY <1>1, <1>2, <2>1
<1>5. CASE OpenSubshell
  <2>1. /\ is_subshell' = 1 /\ subshell_root' = parse_command /\ parse_command' = Len(node) + 1
        /\ command_root' = command_root /\ Len(node') = Len(node) + 1
    BY <1>5, OpenStep DEF Opened
  <2> QED BY <1>1, <1>2, <2>1
<1>6. CASE CloseSubshell
  <2>1. is_subshell' = 0 /\ UNCHANGED <<node, command_root, parse_command, subshell_root>>
    BY <1>6, CloseStep
  <2> QED BY <1>2, <2>1
<1>7. CASE UNCHANGED buildVars
  BY <1>2, <1>7 DEF buildVars
<1> QED BY <1>3, <1>4, <1>5, <1>6, <1>7 DEF BuildCommand, RedirectionCrash, FinishCommand

(* Every step of the shell.                                                *)
LEMMA KeepingNext ==
  ASSUME Reading, Keeping, [Next]_vars
  PROVE  Keeping'
<1>1. /\ mode' = mode /\ script' = script
  BY DEF Next, Read, Stop, Execute, Executed, Process, Travel, Return, Gone, vars, mainVars
<1>2. CASE Travel
  <2>1. round' \in Rounds
    BY <1>2 DEF Travel, execute_timetravel_cmd, BuildGraph, StartReady, NoChild, AllStarted,
                ReapChild, Rounds
  <2>2. UNCHANGED <<phase, is_comments, node, command_root, parse_command, is_subshell, subshell_root>>
    BY <1>2 DEF Travel, readVars, textVars, buildVars
  <2> QED BY <1>1, <2>1, <2>2 DEF Keeping
<1>3. CASE Read
  <2>1. round' = round
    BY <1>3 DEF Read, travelVars
  <2>2. phase' \in ReadPhases \cup {"running"}
    BY <1>3 DEF Read, MakeStream, SkipComment, ReadCharacter, RejectCharacter, ReportError, EndOfFile,
                CheckToken, GrammarDone, RejectGrammar, StartCommand, BuildCommand, ReadWord,
                ReadOperator, ReadRedirection, RedirectionCrash, OpenSubshell, CloseSubshell,
                FinishCommand, Keeping, ReadPhases
  <2>3. is_comments' \in BOOLEAN
    BY <1>3 DEF Read, MakeStream, SkipComment, ReadCharacter, RejectCharacter, ReportError, EndOfFile,
                CheckToken, GrammarDone, RejectGrammar, StartCommand, BuildCommand, ReadWord,
                ReadOperator, ReadRedirection, RedirectionCrash, OpenSubshell, CloseSubshell,
                FinishCommand, Keeping, textVars
  <2>4. /\ is_subshell' \in {0, 1} /\ command_root' \in 0..Len(node')
        /\ parse_command' \in 0..Len(node') /\ subshell_root' \in 0..Len(node')
    <3>1. CASE MakeStream
      <4>1. UNCHANGED buildVars
        BY <3>1 DEF MakeStream, SkipComment, ReadCharacter, RejectCharacter, ReportError, EndOfFile,
                    CheckToken, GrammarDone, RejectGrammar
      <4> QED BY <4>1 DEF Keeping, buildVars
    <3>2. CASE StartCommand
      <4>1. /\ OneMore(node, node') /\ command_root' = Len(node) + 1
            /\ parse_command' = Len(node) + 1 /\ is_subshell' = 0 /\ subshell_root' = 0
        BY <3>2, StartStep
      <4>2. Len(node) \in Nat /\ Len(node') = Len(node) + 1
        BY <4>1, DomainIs DEF OneMore, Reading
      <4> QED BY <4>1, <4>2
    <3> QED BY <1>3, <3>1, <3>2, BuildKeeps DEF Read
  <2> QED BY <1>1, <2>1, <2>2, <2>3, <2>4 DEF Keeping
<1>4. CASE Execute \/ Executed
  <2>1. /\ phase' \in {"running", "ready"}
        /\ UNCHANGED <<round, is_comments, node, command_root, parse_command, is_subshell, subshell_root>>
    BY <1>4 DEF Execute, Executed, textVars, buildVars, travelVars
  <2> QED BY <1>1, <2>1 DEF Keeping, ReadPhases
<1>5. CASE Stop \/ Process \/ Return \/ Gone \/ UNCHANGED vars
  <2>1. UNCHANGED <<phase, round, is_comments, node, command_root, parse_command, is_subshell,
                    subshell_root>>
    BY <1>5 DEF Stop, Process, Return, Gone, vars, readVars, textVars, buildVars, travelVars
  <2> QED BY <1>1, <2>1 DEF Keeping
<1> QED BY <1>2, <1>3, <1>4, <1>5 DEF Next

(* The parts of the invariant say what every variable holds.               *)
LEMMA TypesAre ==
  ASSUME Reading, Executing, Traveling, Started, Built, Opening, Leaving, Keeping, Fitting
  PROVE  TypeOK
<1>1. /\ node \in Seq(NodeSet) /\ IsTree(node) /\ Len(node) \in Nat /\ DOMAIN node = 1..Len(node)
      /\ stream \in Seq(Tokens) /\ DOMAIN stream = 1..Len(stream) /\ word_buffer \in Texts
  BY DomainIs DEF Reading
<1>2. \A i \in DOMAIN stream : stream[i] \in [token : TokenTypes, content : Words \cup {NoWord}]
  <2>1. \A i \in DOMAIN stream : stream[i] \in Tokens
    BY <1>1, ElementOfSeq
  <2> QED BY <2>1 DEF Tokens, Texts
<1>3. ASSUME NEW n \in DOMAIN node
      PROVE  /\ node[n].type \in CommandTypes
             /\ node[n].left \in 0..Len(node) /\ node[n].right \in 0..Len(node)
             /\ node[n].input \in Words \cup {NoWord}
             /\ node[n].output \in Words \cup {NoWord}
  BY <1>1, NodeIs DEF NodeSet, IsTree, Texts
<1>4. fd \in [Nodes -> [in : 0..Len(node), out : 0..Len(node)]]
  <2>1. \A d : Input(d) \/ Output(d) => d \in 0..Len(node)
    BY <1>1 DEF Input, Output
  <2>2. \A n \in Nodes : fd[n] \in [in : 0..Len(node), out : 0..Len(node)]
    BY <2>1 DEF Opening, Descs
  <2> QED BY <2>2 DEF Opening
<1>5. running \subseteq DOMAIN commands
  BY DEF Traveling, Edges
<1>6. SidesAreThere
  BY SidesThere
<1>7. /\ status \in [Nodes -> 0..(256 * 256 - 1)] /\ pipe \in [Nodes -> SUBSET Words]
      /\ drained \subseteq Nodes /\ files \in [Words -> SUBSET (Words \cup {NoWord})]
      /\ exit_status \in -1..255
  BY DEF Leaving, Statuses, Texts
<1>8. called \in 0..Len(commands) /\ pc \in [Nodes -> Stages] /\ Len(node) <= MaxNodes
  BY DEF Started, Executing, Fitting
<1>9. /\ mode \in Modes /\ script \in Scripts /\ round \in Rounds
      /\ phase \in ReadPhases \cup {"running"} /\ is_comments \in BOOLEAN
      /\ is_subshell \in {0, 1}
      /\ {command_root, parse_command, subshell_root} \subseteq 0..Len(node)
  BY DEF Keeping
<1>10. word_buffer \in Words \cup {NoWord}
  BY <1>1 DEF Texts
<1> QED BY <1>2, <1>3, <1>4, <1>5, <1>6, <1>7, <1>8, <1>9, <1>10, Zenon DEF TypeOK

(* Under the same conditions no process, file or node is used that is not  *)
(* there: every descriptor is the shell's, a pipe or a redirected file of  *)
(* a command that has been started, and a status is what waitpid encodes   *)
(* (main, make_command_stream, read_command_stream, execute_command,       *)
(* execute_tcmd).                                                          *)
THEOREM TypeCorrect ==
  Spec /\ []Fitting /\ []Filled => []TypeOK
<1> DEFINE Inv == /\ Reading /\ Executing /\ Traveling /\ Started /\ Grammatical /\ Built
                  /\ Opening /\ Leaving /\ Keeping
           Given == Fitting /\ Filled
<1>1. Init => Inv
  BY ReadingInit, ExecutingInit, TravelingInit, StartedInit, GrammaticalInit, TypesInit
<1>2. Inv /\ Given /\ Given' /\ [Next]_vars => Inv'
  <2> SUFFICES ASSUME Inv, Given, Given', [Next]_vars
               PROVE  Inv'
    OBVIOUS
  <2>1. Reading' /\ Executing' /\ Traveling' /\ Grammatical' /\ Built'
    BY ReadingNext, ExecutingNext, TravelingNext, GrammaticalNext, BuiltNext
  <2>2. SidesAreThere
    BY SidesThere
  <2>3. Started' /\ Keeping'
    BY <2>2, StartedNext, KeepingNext
  <2>4. Opening' /\ Leaving'
    BY <2>1, <2>2, OpeningNext, LeavingNext
  <2> QED BY <2>1, <2>3, <2>4
<1>3. Inv /\ Given => TypeOK
  BY TypesAre
<1> HIDE DEF Inv
<1>4. []Given <=> []Fitting /\ []Filled
  BY PTL DEF Given
<1> QED BY <1>1, <1>2, <1>3, <1>4, PTL DEF Spec
=============================================================================
