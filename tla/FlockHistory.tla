---------------------------- MODULE FlockHistory ----------------------------
(***************************************************************************)
(* What the flock's log promises: one history that is only ever extended,  *)
(* each submission at most once, and readers that are told a prefix of it. *)
(* Nothing a reader was told is ever taken back, whatever crashes.         *)
(***************************************************************************)
EXTENDS Naturals, Sequences

CONSTANT Events

VARIABLES
    hist,  \* the committed history
    told   \* how much of it some reader has been told

Init == hist = <<>> /\ told = 0

Extend(e) ==
    /\ \A i \in DOMAIN hist : hist[i] # e
    /\ hist' = Append(hist, e)
    /\ UNCHANGED told

Tell ==
    /\ told < Len(hist)
    /\ told' = told + 1
    /\ UNCHANGED hist

Next == Tell \/ \E e \in Events : Extend(e)

Spec == Init /\ [][Next]_<<hist, told>>
=============================================================================
