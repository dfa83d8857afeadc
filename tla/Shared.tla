--------------------------------- MODULE Shared ---------------------------------
(* What the services of the console have in common: the absent value of a     *)
(* nullable column, and the earlier and the later of two times.               *)
EXTENDS Integers

CONSTANT None
ASSUME NoneAssumption == None \notin Int

Earlier(a, b) == IF a <= b THEN a ELSE b
Later(a, b) == IF a >= b THEN a ELSE b
=============================================================================
