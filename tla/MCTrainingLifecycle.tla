------------------------ MODULE MCTrainingLifecycle ------------------------
(* The clients of the registry are the pipeline threads and the operator;  *)
(* the content of a live path is the training that wrote it.               *)
EXTENDS TrainingLifecycle

MCClients == Threads \cup {Operator}
MCContents == Threads
=============================================================================
