---------------------------- MODULE MCOutputMap ----------------------------
(***************************************************************************)
(* Instance: ids a and b, two node objects for a, one for b; one plain     *)
(* name and the token 'a:1', which a node can also list as a plain name.   *)
(***************************************************************************)
EXTENDS OutputMap

CONSTANTS a, b, na, nb, replacement, plain, token

MCNode == {na, nb, replacement}
MCKey == {a, b}
MCName == {plain, token}
MCIdOf == [n \in MCNode |-> IF n = nb THEN b ELSE a]
MCToken == [t \in {token} |-> [id |-> a, idx |-> 1]]
MCMaxChanges == [n \in MCNode |-> IF n = replacement THEN 0 ELSE 1]
MCOutputLists == {<<plain>>, <<plain, token>>}
=============================================================================
