---------------------------- MODULE MC_Execution ----------------------------
(* Small instances of Execution.                                           *)
EXTENDS Execution, TLC
CONSTANTS w1, w2, h1, h2

OneWorker == {w1}
TwoWorkers == {w1, w2}
TwoHumans == {h1, h2}
OneHuman == {h1}
Everybody == Worker \cup Human

Nobody == {}

LifecycleChain == {"PLAN", "BUILD_PAGE", "VALIDATE_PAGE", "DEPLOY"}
WorkerSymmetry == Permutations({w1, w2})

PageAndStrays == {"BUILD_PAGE", "DEPLOY", "REDEPLOY", "SCALE", "POST"}
ShortChain == {"PLAN", "BUILD_PAGE", "DEPLOY"}
BuildAndDeploy == {"BUILD_PAGE", "DEPLOY"}
=============================================================================
