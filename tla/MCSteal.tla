------------------------------ MODULE MCSteal ------------------------------
(* Two ESs, a ULT that BOLT has put into the own pool of the first one, two  *)
(* others and a tasklet in its shared pool; what they do is in the programs. *)
EXTENDS Steal

CONSTANTS a, b, c, t

Programs == a :> <<"suspend">> @@ b :> <<"yield">> @@ c :> <<>>

Start ==
  [p \in Pool |-> IF p = <<"priv", 0>> THEN <<a>>
                  ELSE IF p = <<"shared", 0>> THEN <<b, t, c>>
                  ELSE <<>>]
=============================================================================
