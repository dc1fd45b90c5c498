---------------------------- MODULE KeyManagement ----------------------------
(***************************************************************************)
(* AesGcmKeyManagement: AES-256-GCM under a key derived from the master    *)
(* key for one context and one tenant.  The cipher is taken to be ideal:   *)
(* what is sealed for a tenant opens for that tenant and in that context   *)
(* only, and opening it anywhere else throws.                              *)
(***************************************************************************)

\* deriveKey: the HKDF label, "<context>:<tenantId>".
DeriveKey(context, tenant) == <<context, tenant>>

Seal(context, tenant, plain) ==
    [under |-> DeriveKey(context, tenant), plain |-> plain]

\* What decrypt answers: throws stands for the rejection.
Unseal(context, tenant, sealed, throws) ==
    IF sealed.under = DeriveKey(context, tenant) THEN sealed.plain ELSE throws
==============================================================================
