-------------------------------- MODULE Stream --------------------------------
(***************************************************************************)
(* What the goroutines at the two ends of a stream of bytes may rely on:   *)
(* the bytes of a Write go in from its first to its last, each once, and   *)
(* perhaps in parts between those of others; a reader gets all that went   *)
(* in, in order, once; nothing goes in after the close, and the end is     *)
(* only reached when nothing is left.                                      *)
(***************************************************************************)
EXTENDS Naturals, Sequences

CONSTANT Writers

VARIABLES
    writing,  \* what each writer's Write has yet to put in
    queue,    \* what is yet to be read
    got,      \* all that was read
    closed,
    ended     \* a reader was told of the end

vars == <<writing, queue, got, closed, ended>>

\* A Write begins, when the one before it has put in all its bytes; what a close
\* kept out is dropped.
Offer(w) ==
    /\ writing[w] = <<>> \/ closed
    /\ writing'[w] # <<>>
    /\ writing' = [writing EXCEPT ![w] = writing'[w]]
    /\ UNCHANGED <<queue, got, closed, ended>>

\* The next bytes of a Write go in.
Put(w) ==
    /\ ~closed
    /\ \E n \in 1 .. Len(writing[w]) :
          /\ queue' = queue \o SubSeq(writing[w], 1, n)
          /\ writing' = [writing EXCEPT ![w] = SubSeq(@, n + 1, Len(@))]
    /\ UNCHANGED <<got, closed, ended>>

Take ==
    /\ Len(queue') < Len(queue)
    /\ got' \o queue' = got \o queue
    /\ UNCHANGED <<writing, closed, ended>>

Close == closed' = TRUE /\ UNCHANGED <<writing, queue, got, ended>>

End ==
    /\ closed /\ queue = <<>>
    /\ ended' = TRUE
    /\ UNCHANGED <<writing, queue, got, closed>>

Init ==
    /\ writing = [w \in Writers |-> <<>>]
    /\ got = <<>> /\ (ended => closed /\ queue = <<>>)

Next == (\E w \in Writers : Offer(w) \/ Put(w)) \/ Take \/ Close \/ End

Spec == Init /\ [][Next]_vars

=============================================================================
