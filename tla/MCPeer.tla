------------------------------ MODULE MCPeer -------------------------------
(***************************************************************************)
(* Small instances of Peer: files of four, one and six bytes, a buffer of  *)
(* two cells, at most two children at a time and three in all.             *)
(***************************************************************************)
EXTENDS Peer

CONSTANTS f, g, h,
          good, breaks, wrong, tail, mixed, empty, itself, down

MCFileNames == {f, g, h}
MCContent == (f :> <<1, 2, 3, 4>>) @@ (g :> <<4>>) @@ (h :> <<1, 2, 3, 4, 1, 6>>)

MCPeers == {good, breaks, wrong, tail, mixed, empty, itself, down}

MCReach == [p \in MCPeers |-> CASE p = itself -> "self" [] p = down -> "down"
                                [] p = wrong -> "flaky" [] OTHER -> "up"]

Sent(s, t) == [stream |-> s, then |-> t]

MCServes == [p \in MCPeers |-> [n \in MCFileNames |->
    CASE p = breaks -> IF n = f THEN Sent(<<1, 2>>, "error")
                       ELSE Sent(<<>>, IF n = g THEN "silence" ELSE "error")
      [] p = wrong  -> IF n = g THEN Sent(<<5>>, "end") ELSE Sent(<<1, 2, 3, 4, 1>>, "end")
      [] p = tail   -> Sent(IF n = f THEN <<3, 4>> ELSE IF n = g THEN <<4>> ELSE <<6>>, "end")
      [] p = mixed  -> Sent(MCContent[f], "end")
      [] p = empty  -> Sent(<<>>, "end")
      [] OTHER      -> Sent(MCContent[n], "end")]]

Asked(n, r, t, l) == [file |-> n, request |-> r, takes |-> t, leaves |-> l]

MCAsks == <<Asked(f, "sound", 4, FALSE), Asked(f, "sound", 4, TRUE),
            Asked(g, "odd", 1, FALSE), Asked(f, "never", 0, FALSE),
            Asked(f, "sound", 2, FALSE)>>
MCConns == DOMAIN MCAsks

Plain == [tracker |-> TRUE, busy |-> {0}, wanted |-> <<>>, conns |-> <<>>, local |-> {}, registers |-> TRUE,
          lists |-> [n \in MCFileNames |-> <<good>>], knows |-> MCFileNames,
          sums |-> MCFileNames, forkFails |-> 0]

MCScenes ==
    { \* nothing comes of it
      [Plain EXCEPT !.tracker = FALSE], [Plain EXCEPT !.busy = {0, 1}],
      \* the same file twice, and the first peer sends too much
      [Plain EXCEPT !.wanted = <<f, f>>, !.lists[f] = <<good, wrong>>],
      \* a peer breaks off and the next sends the rest; answers get mixed
      [Plain EXCEPT !.wanted = <<g, f>>, !.lists[f] = <<tail, breaks>>],
      \* three at a limit of two, and two local names
      [Plain EXCEPT !.wanted = <<g, g, g>>, !.forkFails = 1],
      \* peers that are of no use come first
      [Plain EXCEPT !.wanted = <<f>>, !.lists[f] = <<good, empty, down, itself>>],
      [Plain EXCEPT !.wanted = <<f>>, !.lists[f] = <<good, down, itself>>],
      [Plain EXCEPT !.wanted = <<g>>, !.lists[g] = <<good, breaks>>],
      \* the tracker does not know all there is
      [Plain EXCEPT !.wanted = <<f, g>>, !.knows = {g}, !.sums = {}, !.registers = FALSE],
      [Plain EXCEPT !.wanted = <<g, g>>, !.sums = {f}, !.lists[g] = <<good, wrong>>],
      \* the digest of f is left over when g is to be checked
      [Plain EXCEPT !.wanted = <<f, g>>, !.sums = {f}, !.lists[g] = <<mixed>>],
      \* larger than a file may be: one child unlinks what the other has made
      [Plain EXCEPT !.wanted = <<h, h>>, !.lists[h] = <<tail, breaks, wrong>>],
      \* uploads: of a file that is being fetched, and of one that was there
      [Plain EXCEPT !.wanted = <<f>>, !.conns = <<1>>],
      [Plain EXCEPT !.conns = <<1, 2, 3>>, !.local = {<<f, 0>>, <<g, 0>>}, !.forkFails = 1],
      \* one that never asks for anything and one that stops reading
      [Plain EXCEPT !.conns = <<4, 5, 1>>, !.local = {<<f, 0>>}] }
=============================================================================
