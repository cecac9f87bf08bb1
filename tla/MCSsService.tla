---------------------------- MODULE MCSsService ----------------------------
(* Model-checks SsService: the whole service, one instance. *)
EXTENDS SsService
=============================================================================
