------------------------------- MODULE MCAdmin -------------------------------
\* A key that the old algorithm for ja4 computed and one of ja3, two actors.
EXTENDS Admin, TLC

MCMethodOf == "old" :> "ja4" @@ "new" :> "ja3"
Symmetric  == Permutations(Actors)
=============================================================================
