------------------------------- MODULE MCGprs -------------------------------
(***************************************************************************)
(* The environments of gsmd that TLC looks at.                             *)
(***************************************************************************)
EXTENDS Gprs

(* gsmd as it is built, on a power switch that works; its threads may pass *)
(* the test of the flag both, or overwrite each other's counts.            *)
Plain == [hal_faults |-> FALSE, requests |-> {}, races |-> {}]
Sharing == [Plain EXCEPT !.races = {"port"}]
Miscounting == [Plain EXCEPT !.races = {"users"}]

(* The power switch's ioctls may fail.                                     *)
Faulty == [Plain EXCEPT !.hal_faults = TRUE]

(* Other code in the process asks for a reset at any time.                 *)
Asked == [Plain EXCEPT !.requests = {"reset"}]

AllEnvs == {Sharing, Miscounting, Faulty, Asked}
PlainEnv == {Plain}
=============================================================================
