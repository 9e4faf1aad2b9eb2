------------------------------ MODULE MCVelyDb ------------------------------
(***************************************************************************)
(* The databases of an application, for TLC.                               *)
(***************************************************************************)
EXTENDS VelyDb

MCKinds == <<"postgres", "mariadb", "sqlite">>
MCSameKind == <<"postgres", "postgres">>
MCOne == <<"mariadb">>
MCFile == <<"sqlite">>
=============================================================================
