---------------------------- MODULE MCDataModel ----------------------------
(* TLC instance of DataModel: the generated tables are the instance. *)
EXTENDS DataModel
=============================================================================
