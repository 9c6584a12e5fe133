------------------------------ MODULE MCReporter ------------------------------
(* Three deals of two other providers, all reported, on pages of two; the   *)
(* files 1 and 3, or 2 and 3, are lost; one disturbance of any kind.        *)
EXTENDS Reporter

MCOwner == [d \in Deals |-> IF d = 3 THEN "third" ELSE "other"]
MCReport == [d \in Deals |-> "asked"]
=============================================================================
