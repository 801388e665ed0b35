---------------------------- MODULE MCGenerator -----------------------------
(***************************************************************************)
(* Instances of the generator for TLC.  Each ordering keeps the relative   *)
(* order of the to_json_file calls in main.rs; providers whose source is   *)
(* not in the repository are left out.                                     *)
(***************************************************************************)
EXTENDS Generator

\* The suites of the four providers whose requests and opcodes are
\* consistent.
MCOrderGood == <<"list_authenticators", "list_opcodes", "list_providers", "ping">>

\* The providers whose responses list their result fields in a fixed order.
MCOrderOrdered == <<"list_authenticators", "list_providers", "ping">>

MCOrderListOpcodes == <<"list_opcodes">>

\* The providers whose suites cover success and failure.
MCOrderCovering == <<"list_authenticators", "list_opcodes", "list_providers">>

MCOrderListKeys == <<"list_keys", "list_opcodes">>
MCOrderPing == <<"ping">>
MCOrderAeadDecrypt == <<"ping", "psa_aead_decrypt">>
MCOrderVerifyHash == <<"psa_verify_hash">>
=============================================================================
