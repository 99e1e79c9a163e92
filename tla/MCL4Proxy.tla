------------------------------ MODULE MCL4Proxy ------------------------------
(* A client that sends two units, and backends that may come twice.        *)
EXTENDS L4Proxy
=============================================================================
