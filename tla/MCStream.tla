------------------------------ MODULE MCStream ------------------------------
(***************************************************************************)
(* Small programs for Stream.  e1 and e2 share a pool; a joins e2 from it, *)
(* blocked, while a ULT of e2 sleeps and another migrates to e2; c joins   *)
(* e3 from a pool of one ES only, polling.                                 *)
(***************************************************************************)
EXTENDS Stream

CONSTANTS a, b, c, d, e1, e2, e3, p1, p2, p3, p4, ps

StopPools == e1 :> <<p1, p4, ps>> @@ e2 :> <<p2, ps>> @@ e3 :> <<p3>>
StopInit == ps :> <<a>> @@ p1 :> <<c, d>> @@ p2 :> <<b>> @@ p3 :> <<>> @@ p4 :> <<>>
StopProgram ==
  a :> <<<<"join", e2>>, <<"migrate_to_pool", a, p4>>>>
  @@ b :> <<<<"sleep">>>>
  @@ c :> <<<<"wake", b>>, <<"migrate_to_xstream", d, e2>>, <<"cancel", e3>>, <<"join", e3>>>>
  @@ d :> <<<<"await", c>>, <<"yield">>, <<"migrate_to_xstream", d, e2>>>>

\* d may end while c asks for its migration to the ES that a joins.
LeakPools == e1 :> <<ps>> @@ e2 :> <<p2>> @@ e3 :> <<p3>>
LeakInit == ps :> <<d, a>> @@ p2 :> <<>> @@ p3 :> <<c>>
LeakProgram ==
  a :> <<<<"join", e2>>>>
  @@ c :> <<<<"migrate_to_xstream", d, e2>>>>
  @@ d :> <<>>
=============================================================================
