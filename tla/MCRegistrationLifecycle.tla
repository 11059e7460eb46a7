---------------------- MODULE MCRegistrationLifecycle ----------------------
(* Instances of RegistrationLifecycle for TLC. *)
EXTENDS RegistrationLifecycle
=============================================================================
