----------------------------- MODULE FileSystem -----------------------------
(***************************************************************************)
(* What Lab3's file system promises the programs that use it, whatever its *)
(* blocks and pointers: names stand for files, a file is a sequence of     *)
(* words, and every operation either happens or leaves no trace.           *)
(***************************************************************************)
EXTENDS Naturals, Sequences

CONSTANTS Files,    \* the identities a file may have
          None,     \* what an unused name stands for
          Names, Values, BLKSIZE

VARIABLES entry,    \* the file each name stands for
          kind,     \* "none", "reg" or "symlink"
          content   \* the words of each file; of a link, the length counts

vars == <<entry, kind, content>>

NamesOf(f) == {name \in Names : entry[name] = f}

Init ==
  /\ entry = [name \in Names |-> None]
  /\ kind = [f \in Files |-> "none"]
  /\ content = [f \in Files |-> <<>>]

Make(name, f, k, words) ==
  /\ entry[name] = None /\ kind[f] = "none"
  /\ entry' = [entry EXCEPT ![name] = f]
  /\ kind' = [kind EXCEPT ![f] = k]
  /\ content' = [content EXCEPT ![f] = words]

Link(src, name) ==
  /\ entry[src] # None /\ entry[name] = None
  /\ entry' = [entry EXCEPT ![name] = entry[src]]
  /\ UNCHANGED <<kind, content>>

(* A file goes with its last name, and never before.                       *)
Unlink(name) ==
  LET f == entry[name] IN
  /\ f # None
  /\ entry' = [entry EXCEPT ![name] = None]
  /\ IF NamesOf(f) = {name}
     THEN kind' = [kind EXCEPT ![f] = "none"] /\ content' = [content EXCEPT ![f] = <<>>]
     ELSE UNCHANGED <<kind, content>>

(* Words a file gains are zero, except in the block its old end lies in.   *)
InOldBlock(u, len) == u <= BLKSIZE * ((len + BLKSIZE - 1) \div BLKSIZE)

Resized(old, words) ==
  \A u \in DOMAIN words :
    /\ u \in DOMAIN old => words[u] = old[u]
    /\ ~InOldBlock(u, Len(old)) => words[u] = 0

(* One value goes over some of the words, within the size of the file.     *)
Overwritten(old, words) ==
  /\ DOMAIN words = DOMAIN old
  /\ \E val \in Values : \A u \in DOMAIN words : words[u] \in {val, old[u]}

Renamed == {name \in Names : entry'[name] # entry[name]}

(* A step that renames nothing may change one file, and may change none.   *)
Update ==
  /\ UNCHANGED kind
  /\ \E old \in {content}, new \in {content'}, f \in Files :
       /\ kind[f] = "reg"
       /\ \A g \in Files \ {f} : new[g] = old[g]
       /\ Resized(old[f], new[f]) \/ Overwritten(old[f], new[f])

Next ==
  IF Renamed = {} THEN Update
  ELSE \E name \in Renamed :
       \/ \E f \in Files : Make(name, f, "reg", <<>>) \/ Make(name, f, "symlink", <<0>>)
       \/ Unlink(name)
       \/ \E src \in Names : Link(src, name)

Spec == Init /\ [][Next]_vars
=============================================================================
