----------------------------- MODULE MCPhysDisc -----------------------------
(* Model-checking instance of PhysDisc, with the periods of dvd_phys.cpp and  *)
(* a disc that takes two seconds to spin up ("a second or two").              *)
EXTENDS PhysDisc

MCScanPeriod    == 1
MCForeignPeriod == 5
MCMaxPeriod     == 10
MCSpinTime      == 2
=============================================================================
