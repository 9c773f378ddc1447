------------------------------ MODULE MCShell ------------------------------
(***************************************************************************)
(* Scripts for Shell.  A script is put together with the operators below,  *)
(* which give its text and, from the grammar of src/Lab1/README.md, the    *)
(* shape of its trees; so the shapes do not depend on the reader.          *)
(***************************************************************************)
EXTENDS Shell

MCWords == {"cat", "echo", "no", "zap", "f", "g", "h", "k"}

Prog(r, p, c) == [reads |-> r, prints |-> p, code |-> c]

MCProgram == [cat |-> Prog(TRUE, TRUE, 0), echo |-> Prog(FALSE, TRUE, 0),
              no |-> Prog(FALSE, FALSE, 1)]

MCStore == [w \in MCWords |-> IF w = "g" THEN {"k"} ELSE {"none"}]

---------------------------------------------------------------------------
(* Commands: their text and their shape. *)

Cmd(text, shape) == [text |-> text, shape |-> shape]

C(w) == Cmd(<<w>>, <<"SIMPLE", w>>)
C2(w, a) == Cmd(<<w, "blank", a>>, <<"SIMPLE", w, a>>)

In(c, f) == Cmd(c.text \o <<"<", "blank", f>>, c.shape \o <<"<", f>>)
Out(c, f) == Cmd(c.text \o <<"blank", ">", f>>, c.shape \o <<">", f>>)

Join(a, sep, type, b) == Cmd(a.text \o sep \o b.text, <<type>> \o a.shape \o b.shape)

Pipe(a, b) == Join(a, <<"|">>, "PIPE", b)
And(a, b) == Join(a, <<"blank", "&", "&", IF Head(b.text) = "(" THEN "blank" ELSE "newline">>,
                  "AND", b)
Or(a, b) == Join(a, <<"|", "|", "blank">>, "OR", b)
Then(a, b) == Join(a, <<";", "blank">>, "SEQUENCE", b)

\* The redirections of a subshell come before what is inside it in a shape.
Sub(a) == Cmd(<<"(">> \o a.text \o <<"blank", ")">>, <<"SUBSHELL">> \o a.shape)
SubIn(a, f) == Cmd(Sub(a).text \o <<"<", f>>, <<"SUBSHELL", "<", f>> \o a.shape)
SubOut(a, f) == Cmd(Sub(a).text \o <<">", f>>, <<"SUBSHELL", ">", f>> \o a.shape)

Right(modes, text, shapes) ==
    [text |-> text, trees |-> shapes, wrong |-> FALSE, modes |-> modes]

One(modes, a) == Right(modes, a.text \o <<"newline">>, <<a.shape>>)
Two(modes, a, b) ==
    Right(modes, a.text \o <<"newline">> \o b.text \o <<"newline">>, <<a.shape, b.shape>>)
Three(modes, a, b, c) ==
    Right(modes, a.text \o <<"newline", "newline">> \o b.text \o <<"newline">>
                 \o c.text \o <<"newline">>, <<a.shape, b.shape, c.shape>>)

---------------------------------------------------------------------------
(* Scripts that are read and printed. *)

Joins(A, B) == {Pipe(a, b) : a \in A, b \in B} \cup {And(a, b) : a \in A, b \in B}
                 \cup {Or(a, b) : a \in A, b \in B} \cup {Then(a, b) : a \in A, b \in B}

Leaves == {C("no"), In(C("cat"), "g")}
Pipelines == Leaves \cup {Pipe(a, C("cat")) : a \in Leaves}
Chained == Pipelines \cup {And(a, b) : a \in Pipelines, b \in Pipelines}
                 \cup {Or(And(a, b), C("zap")) : a \in Leaves, b \in Pipelines}

\* A ; list of and-or chains of pipes; behind the ; no pipe behind && or ||.
Listed == {Then(a, b) : a \in Chained,
                        b \in {C("zap"), Or(Pipe(C("no"), C("cat")), C("echo"))}}

Printed ==
    {One({"print"}, c) : c \in Chained \cup Listed}
      \cup {One({"print"}, c) :
              c \in {Sub(a) : a \in Joins({C("no")}, Leaves)}
                      \cup {Or(SubOut(a, "f"), C("cat")) : a \in Leaves}
                      \cup {Pipe(Sub(C("no")), SubIn(C("cat"), "g"))}}
      \cup {Right({"print"},
                  <<"newline", "#", "echo", "newline", "cat", "blank", "#", "|", "newline">>
                     \o In(C2("cat", "f"), "g").text \o <<"newline", "newline">>,
                  <<C("cat").shape, In(C2("cat", "f"), "g").shape>>)}

(* The longest lines of src/Lab1/test-p-ok.sh, with f, g, h, k for its a to i. *)
Redirected2(c, i, o) == Cmd(<<c, "<", i, ">", o>>, <<"SIMPLE", c, "<", i, ">", o>>)

Good ==
    {Right({"print"},
       <<"f", "&", "&", "g", "|", "|", "newline", "blank", "h", "blank", "&", "&",
         "newline", "blank", "k", "blank", "|", "f", "blank", "&", "&", "blank", "g",
         "|", "newline", "newline", "h", "<", "k", "newline">>,
       <<<<"AND", "AND", "OR", "AND", "SIMPLE", "f", "SIMPLE", "g", "SIMPLE", "h",
           "PIPE", "SIMPLE", "k", "SIMPLE", "f",
           "PIPE", "SIMPLE", "g", "SIMPLE", "h", "<", "k">>>>),
     One({"print"}, Pipe(Pipe(Redirected2("f", "g", "h"), Redirected2("k", "f", "g")),
                         Redirected2("h", "k", "f"))),
     One({"print"}, Or(Pipe(Pipe(In(C("cat"), "f"), C2("zap", "g")), Out(C("no"), "h")),
                       C2("echo", "k")))}

(* The lines of src/Lab1/test-p-bad.sh, and two more, printed or run. *)
Wrong(text) == [text |-> text \o <<"newline">>, trees |-> <<>>, wrong |-> TRUE,
                modes |-> {"print", "serial"}]

a == "cat"
z == "echo"
nl == "newline"

Bad ==
    {Wrong(t) : t \in
       {<<"backquote">>, <<">">>, <<"<">>, <<a, "blank", ">", z, "blank", "<">>, <<";">>,
        <<";", "blank", a>>, <<a, "|", "|">>, <<a, nl, "|", "|", z>>, <<a, nl, "|", z>>,
        <<a, nl, ";", z>>, <<a, ";", ";", z>>, <<a, "&", "&", "&", z>>,
        <<a, "|", "|", "|", z>>, <<"|", a>>, <<"<", a>>, <<"&", "&", a>>,
        <<"|", "|", a>>, <<"(", a, "|", z>>, <<a, ";", z, ")">>,
        <<"(", "blank", "(", a, ")">>, <<a, ">", ">", ">", z>>,
        <<a, "<", "(", z, ")">>, <<a, "|">>}}

---------------------------------------------------------------------------
(* Scripts that are run. *)

Serial == {"serial"}
Both == {"serial", "travel"}
EchoTo(file) == Out(C("echo"), file)
CatTo(f1, f2) == Out(C2("cat", f1), f2)

Executed1 ==
    {One(Serial, Then(Or(C("no"), EchoTo("f")), C2("cat", "f"))),
     One(Serial, And(Sub(C("no")), EchoTo("f"))),
     One(Serial, Pipe(Pipe(C("echo"), C("cat")), Out(C("cat"), "f"))),
     One(Serial, Or(Pipe(C("echo"), C("no")), EchoTo("h"))),
     One(Serial, SubOut(Then(C("cat"), C("cat")), "h")),
     One(Serial, Pipe(C("echo"), SubOut(Then(C("cat"), C("cat")), "h"))),
     One(Serial, Or(C("zap"), Out(In(C("cat"), "f"), "f"))),
     One(Serial, SubIn(And(C("cat"), EchoTo("f")), "g")),
     Two(Serial, Pipe(In(C("cat"), "g"), Out(C("cat"), "f")), Out(In(C("cat"), "f"), "f"))}

Executed2 ==
    {Three(Both, EchoTo("f"), CatTo("f", "h"), EchoTo("k")),
     Three(Both, EchoTo("f"), CatTo("f", "h"), CatTo("h", "k")),
     Two(Both, Pipe(In(C("cat"), "g"), EchoTo("f")), Or(C("no"), CatTo("f", "h"))),
     Two({"travel"}, CatTo("f", "h"), EchoTo("f")),
     Two({"travel"}, EchoTo("f"), CatTo("g", "f")),
     Three(Both, And(EchoTo("f"), C("no")), Pipe(C2("cat", "f"), Out(C("cat"), "h")),
                 Sub(CatTo("f", "k"))),
     Three({"travel"}, Then(EchoTo("f"), EchoTo("h")), CatTo("f", "k"), C2("cat", "h")),
     Two({"travel"}, SubOut(C("echo"), "f"), C2("cat", "f"))}

(* Every three commands out of five, in parallel, and every list of the    *)
(* leaves that run in different ways, in sequence.                         *)
Few == {EchoTo("f"), CatTo("f", "h"), EchoTo("k"), Pipe(In(C("cat"), "g"), CatTo("f", "f")),
        Sub(EchoTo("h"))}
Triples == {Three({"travel"}, c1, c2, c3) : c1 \in Few, c2 \in Few, c3 \in Few}

Some == {C("no"), C("zap"), EchoTo("f"), Sub(C("no")), Pipe(C("echo"), Out(C("cat"), "h"))}
Lists2 == {One(Serial, c) : c \in {Then(c1, c2) : c1 \in Joins(Some, Some \ {Pipe(C("echo"), Out(C("cat"), "h"))}), c2 \in Leaves}}

\* The failure of a subshell, as && sees it.
ShScripts == {One(Serial, And(Sub(C("no")), EchoTo("f")))}

MCScripts == Triples \cup Lists2 \cup Printed \cup Good \cup Bad \cup Executed1 \cup Executed2
=============================================================================
