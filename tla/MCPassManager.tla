---------------------------- MODULE MCPassManager ----------------------------
(* Small instances of PassManager.                                           *)
EXTENDS PassManager, TLC

CONSTANTS a, b, c

\* a rests on b; c, which goes on without what fails, asks for b and then itself.
Knot == a :> <<b>> @@ b :> <<>> @@ c :> <<b, c>>

\* The strict policy runs once; a fixed point is verified at its ends.
Paired == {<<"AfterEachPass", Once>>, <<"InputAndOutput", 2>>}
=============================================================================
