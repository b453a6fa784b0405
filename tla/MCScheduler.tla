---------------------------- MODULE MCScheduler -----------------------------
(***************************************************************************)
(* Instances of Scheduler for TLC.                                         *)
(***************************************************************************)
EXTENDS Scheduler, TLC

CONSTANTS s1, s2, s3, m1, m2, m3

\* Stored media: mediacpy gave every session a media entry of its own.
PrivateMedia == s1 :> m1 @@ s2 :> m2 @@ s3 :> m3

\* One client plays twice, one once, one not at all.
Plays == s1 :> 2 @@ s2 :> 1 @@ s3 :> 0
=============================================================================
