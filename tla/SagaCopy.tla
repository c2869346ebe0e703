------------------------------ MODULE SagaCopy ------------------------------
(***************************************************************************)
(* What fetch_to_path promises about its destination (client.rs:85): the   *)
(* file is absent or holds, whole, some version of the saga that has been  *)
(* published, and it changes from one to another in a single step.         *)
(***************************************************************************)
EXTENDS Naturals

VARIABLES
    published,  \* number of versions published so far
    copy        \* the version at the destination; 0 if there is no file

CopyInit == published = 0 /\ copy = 0

Publish == published' = published + 1 /\ UNCHANGED copy

Install ==
    /\ copy' \in 1 .. published
    /\ UNCHANGED published

CopySpec == CopyInit /\ [][Publish \/ Install]_<<published, copy>>
=============================================================================
