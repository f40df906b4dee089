--------------------------- MODULE MCObjCRuntime ---------------------------
(***************************************************************************)
(* Model checking of ObjCRuntime: three classes in a line; the one in the   *)
(* middle has a method of its own, which the last one inherits.             *)
(***************************************************************************)
EXTENDS ObjCRuntime, TLC

CONSTANTS Root, Mid, Sub, inMid

Line == Root :> <<Root>> @@ Mid :> <<Mid, Root>> @@ Sub :> <<Sub, Mid, Root>>

Own == Root :> Nil @@ Mid :> inMid @@ Sub :> Nil
=============================================================================
