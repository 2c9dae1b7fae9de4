---------------------------- MODULE MCDeployment ----------------------------
(* Instances of Deployment for TLC: two servers of a database, the second
   with a newer image, and one of another database on the same directories.
   The first migration may have been edited since it was applied. *)
EXTENDS Deployment, TLC

CONSTANTS a, b, a1, a2, b1

MCDatabaseOf == a1 :> a @@ a2 :> a @@ b1 :> b
MCImage == a1 :> <<"one">> @@ a2 :> <<"one", "two">> @@ b1 :> <<>>
MCBefore == {
  a :> <<>> @@ b :> <<>>,
  a :> <<[version |-> 1, sql |-> "edited"]>> @@ b :> <<>>}
MCDirs == <<"data", "chunks">>
=============================================================================
