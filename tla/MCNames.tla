------------------------------ MODULE MCNames ------------------------------
(* A small registry: one short name, two long ones, and the definitions that  *)
(* clash on them within a kind, across kinds and on several names at once.    *)
EXTENDS Names, TLC

CONSTANTS a1, a2, a3, x, long, longer

MCLength == x :> 1 @@ long :> 3 @@ longer :> 4

Def(kind, names, local, used) ==
  [kind |-> kind, names |-> names, local |-> local, used |-> used]

MCDefinitions ==
  {Def("unit", <<<<x>>, <<longer>>>>, FALSE, "referrer"),
   Def("variable", <<<<x>>>>, TRUE, "no"),
   Def("variable", <<<<long>>, <<x>>>>, TRUE, "counted"),
   Def("variable", <<<<longer>>>>, FALSE, "no"),
   Def("function", <<<<x>>, <<longer>>>>, FALSE, "no"),
   Def("function", <<<<long>>>>, TRUE, "no")}

Addresses == Permutations(Items)
==============================================================================
