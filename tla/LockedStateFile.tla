--------------------------- MODULE LockedStateFile ---------------------------
(***************************************************************************)
(* What the state plugin and the two deployment paths promise together: a  *)
(* file that only the holder of its lock writes, and only over the content *)
(* the holder has read.  MultilockDeploy and StateLockDeploy implement it. *)
(***************************************************************************)
CONSTANTS Holders, NoHolder, Contents, NoCopy

VARIABLES
    file,    \* the content of the file
    holder,  \* who holds its lock
    copy     \* the content the holder last read or wrote

vars == <<file, holder, copy>>

Init ==
    /\ file \in Contents
    /\ holder = NoHolder
    /\ copy = NoCopy

Take(h) ==
    /\ holder = NoHolder
    /\ holder' = h
    /\ copy' = file
    /\ UNCHANGED file

Put(h) ==
    /\ holder = h /\ copy = file
    /\ file' \in Contents
    /\ copy' = file'
    /\ UNCHANGED holder

Drop(h) ==
    /\ holder = h
    /\ holder' = NoHolder
    /\ copy' = NoCopy
    /\ UNCHANGED file

Next == \E h \in Holders : Take(h) \/ Put(h) \/ Drop(h)

Spec == Init /\ [][Next]_vars
=============================================================================
